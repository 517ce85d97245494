------------------------------- MODULE MCStripe -------------------------------
(* Small instances of StripeScheduler for TLC. *)
EXTENDS StripeScheduler, TLC

CONSTANTS l1, l2

TwoLanes     == {l1, l2}
AllReliable  == [l \in TwoLanes |-> {TRUE}]
\* l1 is a stream lane, l2 carries coded datagrams, or switches between both.
OneCoded     == (l1 :> {TRUE}) @@ (l2 :> {FALSE})
OneSwitching == (l1 :> {TRUE}) @@ (l2 :> BOOLEAN)
===============================================================================
