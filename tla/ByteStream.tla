----------------------------- MODULE ByteStream -----------------------------
(***************************************************************************)
(* What one direction of a flow promises its two applications: the bytes     *)
(* read from the source reach the sink in order and once, the sink's stream  *)
(* ends only where the source's did, and the sender reports success only     *)
(* when every byte was handed over.  Module FlowDelivery implements it.     *)
(***************************************************************************)
EXTENDS Integers

VARIABLES
  given,    \* bytes read from the source
  ended,    \* the source reached its end
  passed,   \* bytes handed to the sink, a prefix of what was given
  sink,     \* "open", "closed", "gone" (its application left), "failed"
  verdict   \* the sender's: "running", "complete", "stopped"

vars == <<given, ended, passed, sink, verdict>>

Init ==
  given = 0 /\ ended = FALSE /\ passed = 0 /\ sink = "open" /\ verdict = "running"

Give ==
  /\ ~ended
  /\ given' = given + 1
  /\ UNCHANGED <<ended, passed, sink, verdict>>

End ==
  /\ ended' = TRUE
  /\ UNCHANGED <<given, passed, sink, verdict>>

Pass ==
  /\ sink \in {"open", "gone"}
  /\ passed' \in passed + 1 .. given
  /\ UNCHANGED <<given, ended, sink, verdict>>

CloseSink ==
  /\ sink = "open" /\ ended /\ passed = given
  /\ sink' = "closed"
  /\ UNCHANGED <<given, ended, passed, verdict>>

LoseSink ==
  /\ sink \in {"open", "gone"}
  /\ sink' \in {"gone", "failed"}
  /\ UNCHANGED <<given, ended, passed, verdict>>

Succeed ==
  /\ verdict = "running" /\ ended /\ passed = given
  /\ verdict' = "complete"
  /\ UNCHANGED <<given, ended, passed, sink>>

Stop ==
  /\ verdict = "running"
  /\ verdict' = "stopped"
  /\ UNCHANGED <<given, ended, passed, sink>>

Next == Give \/ End \/ Pass \/ CloseSink \/ LoseSink \/ Succeed \/ Stop

Spec == Init /\ [][Next]_vars

=============================================================================
