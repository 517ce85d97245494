------------------------ MODULE StripeScheduler_proofs ------------------------
(***************************************************************************)
(* Theorems about StripeScheduler for every number of lanes, every source,  *)
(* every window and every order of calls.  The first ones need a part of the *)
(* state each; SchedulerInv, at the end, is the inductive invariant behind   *)
(* the two that say the most: no byte is lost, and every charge is exact.    *)
(***************************************************************************)
EXTENDS StripeScheduler, SumTheorems

\* The part of TypeOK that no byte sum enters.
Shape ==
  /\ nextOffset \in Offsets /\ size \in [Offsets -> Nat]
  /\ urgent \subseteq Offsets /\ pending \subseteq Offsets
  /\ live \subseteq Offsets /\ acked \subseteq Offsets
  /\ attempts \subseteq AttemptRecords /\ copies \subseteq CopyRecords
  /\ nextAttempt \in 0..MaxAttempts
  /\ eof \in BOOLEAN /\ closed \in BOOLEAN

\* Attempts exist for live chunks only: Complete and Close take theirs along.
AttemptsAreLive == \A a \in attempts : a.off \in live

LEMMA ShapeInit == Init => Shape
<1> SUFFICES ASSUME Init PROVE Shape
    OBVIOUS
<1>1. size \in [Offsets -> Nat]
      BY DEF Init
<1>2. nextOffset \in Offsets /\ nextAttempt \in 0..MaxAttempts
      BY SchedulerConstants DEF Init, Offsets
<1> QED BY <1>1, <1>2 DEF Init, Shape

LEMMA ShapeStep == Shape /\ [Next]_vars => Shape'
<1> SUFFICES ASSUME Shape, [Next]_vars PROVE Shape'
    OBVIOUS
<1> USE SchedulerConstants
<1>1. CASE ProducerStep
  <2>1. CASE ProducerChecks
        BY <2>1 DEF ProducerChecks, Shape, ledger, source, memory, path
  <2>2. CASE ProducerAcquires
        BY <2>2 DEF ProducerAcquires, Shape, ledger, source, path
  <2>3. CASE ProducerRefused
        BY <2>3 DEF ProducerRefused, Shape, ledger, source, memory, path
  <2>4. CASE ProducerDiscards
        BY <2>4 DEF ProducerDiscards, Shape, ledger, source, path
  <2>5. CASE \E n \in ReadSizes \cup {0}, err \in ReadErrors : ProducerReads(n, err)
    <3>1. PICK n \in ReadSizes \cup {0}, err \in ReadErrors : ProducerReads(n, err)
          BY <2>5
    <3>2. n \in Nat /\ nextOffset + n \in Offsets
          BY <3>1 DEF ProducerReads, Shape, Offsets
    <3> QED BY <3>1, <3>2 DEF ProducerReads, Shape, Offsets, EndingChunk, path
  <2> QED BY <1>1, <2>1, <2>2, <2>3, <2>4, <2>5 DEF ProducerStep
<1>2. ASSUME NEW l \in Lanes, PullerStep(l) PROVE Shape'
  <2>1. CASE StartPuller(l)
        BY <2>1 DEF StartPuller, Shape, ledger, source, memory, path
  <2>2. CASE NextReturns(l)
        BY <2>2 DEF NextReturns, Shape, ledger, source, memory, path
  <2>3. CASE NextTakes(l)
    <3>1. nextAttempt + 1 \in 1..MaxAttempts
          BY <2>3 DEF NextTakes, Shape
    <3>2. PICK o \in Takeable(l), r \in LaneModes[l] :
            /\ pending' = pending \ {o}
            /\ urgent' = urgent \ {o}
            /\ live' = live \cup {o}
            /\ attempts' = attempts \cup
                 {[id |-> nextAttempt + 1, off |-> o, lane |-> l, reliable |-> r,
                   written |-> FALSE, expired |-> FALSE]}
            /\ copies' = copies \cup
                 {[id |-> nextAttempt + 1, off |-> o, lane |-> l, reliable |-> r,
                   stage |-> "held"]}
          BY <2>3 DEF NextTakes
    <3>3. o \in Offsets /\ r \in BOOLEAN
          BY <3>2 DEF Takeable, Shape
    <3>4. [id |-> nextAttempt + 1, off |-> o, lane |-> l, reliable |-> r,
           written |-> FALSE, expired |-> FALSE] \in AttemptRecords
          BY <3>1, <3>3 DEF AttemptRecords
    <3>5. [id |-> nextAttempt + 1, off |-> o, lane |-> l, reliable |-> r,
           stage |-> "held"] \in CopyRecords
          BY <3>1, <3>3 DEF CopyRecords
    <3>6. nextAttempt' \in 0..MaxAttempts
          BY <2>3, <3>1 DEF NextTakes
    <3>7. UNCHANGED <<source, acked, closed>>
          BY <2>3 DEF NextTakes, memory
    <3> QED BY <3>2, <3>3, <3>4, <3>5, <3>6, <3>7 DEF Shape, source
  <2>4. CASE NextDecidesToWait(l)
        BY <2>4 DEF NextDecidesToWait, Shape, ledger, source, memory, path
  <2>5. CASE NextWaits(l)
        BY <2>5 DEF NextWaits, Shape, ledger, source, memory, path
  <2>6. CASE SendSucceeds(l)
        BY <2>6 DEF SendSucceeds, Shape, source, CopyRecords
  <2>7. CASE SendFails(l)
        BY <2>7 DEF SendFails, Shape, source, Requeue, CopyRecords
  <2>8. CASE PullerRetires(l)
        BY <2>8 DEF PullerRetires, RetireLane, Requeue, Shape, source, path
  <2> QED BY <1>2, <2>1, <2>2, <2>3, <2>4, <2>5, <2>6, <2>7, <2>8 DEF PullerStep
<1>3. ASSUME NEW l \in Lanes, LaneFails(l) PROVE Shape'
      BY <1>3 DEF LaneFails, RetireLane, Requeue, Shape, source, path
<1>4. ASSUME NEW c \in copies, Wrote(c) PROVE Shape'
  <2>1. \A a \in attempts : [a EXCEPT !.written = TRUE] \in AttemptRecords
        BY DEF Shape, AttemptRecords
  <2>2. attempts' \subseteq AttemptRecords
        BY <1>4, <2>1 DEF Wrote, Shape, AttemptOf, AttemptsOf
  <2>3. [c EXCEPT !.stage = "written"] \in CopyRecords
        BY DEF Shape, CopyRecords
  <2>4. copies' \subseteq CopyRecords
        BY <1>4, <2>3 DEF Wrote, Shape, Trim
  <2> QED BY <1>4, <2>2, <2>4 DEF Wrote, Shape, source
<1>5. ASSUME NEW c \in copies, Deliver(c) PROVE Shape'
      BY <1>5 DEF Deliver, Shape, source, Trim, CopyRecords
<1>6. ASSUME NEW o \in acked, Complete(o) PROVE Shape'
      BY <1>6 DEF Complete, RemovePending, Shape, source, path
<1>7. ASSUME NEW a \in attempts, DeadlinePasses(a) PROVE Shape'
      BY <1>7 DEF DeadlinePasses, Shape, source, path, AttemptRecords
<1>8. CASE ReissueExpired
  <2>1. \A a \in attempts : [a EXCEPT !.expired = FALSE] \in AttemptRecords
        BY DEF Shape, AttemptRecords
  <2>0. \E T, R : attempts' = {IF a.off \in T THEN [a EXCEPT !.expired = FALSE] ELSE a
                                  : a \in attempts \ R}
        BY <1>8 DEF ReissueExpired
  <2>2. attempts' \subseteq AttemptRecords
        BY <2>0, <2>1 DEF Shape
  <2>3. pending' \subseteq Offsets /\ urgent' \subseteq Offsets
        BY <1>8 DEF ReissueExpired, Requeue, Shape, Carried
  <2> QED BY <1>8, <2>2, <2>3 DEF ReissueExpired, Shape, source, path
<1>9. CASE EvidenceArrives
      BY <1>9 DEF EvidenceArrives, ReissueUnacknowledgedBelow, Requeue, Shape, source,
                  path, Carried
<1>10. CASE Cancel
       BY <1>10 DEF Cancel, Shape, ledger, source, memory, path
<1>11. CASE Close
       BY <1>11 DEF Close, Shape, source, path
<1>12. CASE Terminated \/ UNCHANGED vars
       BY <1>12 DEF Terminated, vars, Shape, ledger, source, memory, path
<1> QED BY <1>1, <1>2, <1>3, <1>4, <1>5, <1>6, <1>7, <1>8, <1>9, <1>10, <1>11, <1>12
        DEF Next, Work

-----------------------------------------------------------------------------
(* No chunk is stranded *)

Tracking == AttemptsAreLive /\ NothingStranded

\* A step that leaves the chunk tables alone keeps whatever is said of them.
LEMMA TrackingFrame ==
  ASSUME Tracking, UNCHANGED <<live, pending, attempts>>
  PROVE  Tracking'
BY DEF Tracking, AttemptsAreLive, NothingStranded, AttemptsOf

LEMMA TrackingStep == Shape /\ Tracking /\ [Next]_vars => Tracking'
<1> SUFFICES ASSUME Shape, Tracking, [Next]_vars PROVE Tracking'
    OBVIOUS
<1> USE DEF Tracking, AttemptsAreLive, NothingStranded, AttemptsOf
<1>1. CASE ProducerStep
      BY <1>1 DEF ProducerStep, ProducerChecks, ProducerAcquires, ProducerRefused,
                  ProducerDiscards, ProducerReads
<1>2. ASSUME NEW l \in Lanes, PullerStep(l) PROVE Tracking'
  <2>1. CASE StartPuller(l) \/ NextReturns(l) \/ NextDecidesToWait(l) \/ NextWaits(l)
        BY <2>1, TrackingFrame
           DEF StartPuller, NextReturns, NextDecidesToWait, NextWaits
  <2>2. CASE NextTakes(l)
    <3>1. PICK o \in Takeable(l), r \in LaneModes[l] :
            /\ pending' = pending \ {o}
            /\ live' = live \cup {o}
            /\ attempts' = attempts \cup
                 {[id |-> nextAttempt + 1, off |-> o, lane |-> l, reliable |-> r,
                   written |-> FALSE, expired |-> FALSE]}
          BY <2>2 DEF NextTakes
    <3> DEFINE new == [id |-> nextAttempt + 1, off |-> o, lane |-> l, reliable |-> r,
                       written |-> FALSE, expired |-> FALSE]
    <3>2. new.off = o
          OBVIOUS
    <3> HIDE DEF new
    <3>3. attempts' = attempts \cup {new}
          BY <3>1 DEF new
    <3> QED BY <3>1, <3>2, <3>3
  <2>3. CASE SendSucceeds(l)
        BY <2>3, TrackingFrame DEF SendSucceeds
  <2>4. CASE SendFails(l)
        BY <2>4 DEF SendFails, AttemptOf, Requeue
  <2>5. CASE PullerRetires(l)
        BY <2>5 DEF PullerRetires, RetireLane, Requeue, On
  <2> QED BY <1>2, <2>1, <2>2, <2>3, <2>4, <2>5 DEF PullerStep
<1>3. ASSUME NEW l \in Lanes, LaneFails(l) PROVE Tracking'
      BY <1>3 DEF LaneFails, RetireLane, Requeue, On
<1>4. ASSUME NEW c \in copies, Wrote(c) PROVE Tracking'
  <2>1. \A a \in attempts : [a EXCEPT !.written = TRUE].off = a.off
        BY DEF Shape, AttemptRecords
  <2>2. PICK mine \in SUBSET attempts :
          attempts' = (attempts \ mine) \cup {[a EXCEPT !.written = TRUE] : a \in mine}
        BY <1>4 DEF Wrote, AttemptOf
  <2>3. UNCHANGED <<live, pending>>
        BY <1>4 DEF Wrote
  <2>4. AttemptsAreLive'
        BY <2>1, <2>2, <2>3
  <2>5. \A a \in attempts : \E b \in attempts' : b.off = a.off
        BY <2>1, <2>2
  <2>6. NothingStranded'
        BY <2>3, <2>5
  <2> QED BY <2>4, <2>6
<1>5. ASSUME NEW c \in copies, Deliver(c) PROVE Tracking'
      BY <1>5, TrackingFrame DEF Deliver
<1>6. ASSUME NEW o \in acked, Complete(o) PROVE Tracking'
      BY <1>6 DEF Complete, RemovePending
<1>7. ASSUME NEW a \in attempts, DeadlinePasses(a) PROVE Tracking'
  <2>1. [a EXCEPT !.expired = TRUE].off = a.off
        BY DEF Shape, AttemptRecords
  <2> QED BY <1>7, <2>1 DEF DeadlinePasses
<1>8. CASE ReissueExpired
  <2> DEFINE retired == {a \in attempts : a.off \in Carried /\ Terminal(a) /\ a.expired}
             kept(o) == AttemptsOf(o) \ retired
  <2>1. \A a \in attempts : [a EXCEPT !.expired = FALSE].off = a.off
        BY DEF Shape, AttemptRecords
  <2>0. \E T : attempts' = {IF a.off \in T THEN [a EXCEPT !.expired = FALSE] ELSE a
                               : a \in attempts \ retired}
        BY <1>8 DEF ReissueExpired
  <2>2. \A b \in attempts' : \E a \in attempts \ retired : b.off = a.off
        BY <2>0, <2>1
  <2>3. \A a \in attempts \ retired : \E b \in attempts' : b.off = a.off
        BY <2>0, <2>1
  <2>4. {o \in Carried : kept(o) = {}} \subseteq pending' /\ pending \subseteq pending'
        BY <1>8 DEF ReissueExpired, Requeue
  <2>5. UNCHANGED live
        BY <1>8 DEF ReissueExpired
  <2>6. AttemptsAreLive'
        BY <2>2, <2>5
  <2>7. ASSUME NEW o \in live', AttemptsOf(o)' = {} PROVE o \in pending'
    <3>1. kept(o) = {}
          BY <2>3, <2>7
    <3> QED BY <2>4, <2>5, <3>1 DEF Carried
  <2> QED BY <2>6, <2>7
<1>9. CASE EvidenceArrives
      BY <1>9 DEF EvidenceArrives, ReissueUnacknowledgedBelow, Requeue, Carried
<1>10. CASE Cancel
       BY <1>10, TrackingFrame DEF Cancel
<1>11. CASE Close
       BY <1>11 DEF Close
<1>12. CASE Terminated \/ UNCHANGED vars
       BY <1>12, TrackingFrame DEF Terminated, vars
<1> QED BY <1>1, <1>2, <1>3, <1>4, <1>5, <1>6, <1>7, <1>8, <1>9, <1>10, <1>11, <1>12
        DEF Next, Work

\* Fail, RetireLane and both re-offers put every chunk whose last attempt they end
\* back in the ready set, for any number of lanes, losses and lane deaths: a live
\* chunk is carried by somebody or waiting to be.
THEOREM NoChunkStranded == Spec => []NothingStranded
<1>1. Init => Shape /\ Tracking
      BY ShapeInit DEF Init, Tracking, AttemptsAreLive, NothingStranded
<1>2. Shape /\ Tracking /\ [Next]_vars => (Shape /\ Tracking)'
      BY ShapeStep, TrackingStep
<1>3. Shape /\ Tracking => NothingStranded
      BY DEF Tracking
<1> QED BY <1>1, <1>2, <1>3, PTL DEF Spec

-----------------------------------------------------------------------------
(* Recovery work stands first, and nothing acknowledged is fresh *)

\* Fresh chunks (ready and never dispatched) lie above every live one, nothing the
\* peer has or may get is fresh, and the producer's cursor is above everything.
Order ==
  /\ urgent = pending \cap live
  /\ \A f \in pending \ live, o \in live : o < f
  /\ ~eof => \A o \in pending \cup live : o < nextOffset
  /\ \A o \in acked : o \notin pending \ live /\ (~eof => o < nextOffset)
  /\ \A c \in copies : c.off \notin pending \ live /\ (~eof => c.off < nextOffset)
  /\ producer # "exited" => ~eof

LEMMA OrderFrame ==
  ASSUME Order, UNCHANGED <<urgent, pending, live, nextOffset, eof>>,
         acked' \subseteq acked \cup {c.off : c \in copies},
         \A c \in copies' : \E d \in copies : c.off = d.off,
         producer' # "exited" => producer # "exited"
  PROVE  Order'
BY DEF Order

\* Steps that only re-offer live chunks.
LEMMA OrderRequeue ==
  ASSUME Order, NEW O \in SUBSET live, Requeue(O),
         UNCHANGED <<live, nextOffset, eof, acked, producer>>, copies' \subseteq copies
  PROVE  Order'
BY DEF Order, Requeue

LEMMA OrderStep == Shape /\ Tracking /\ Order /\ [Next]_vars => Order'
<1> SUFFICES ASSUME Shape, Tracking, Order, [Next]_vars PROVE Order'
    OBVIOUS
<1> USE SchedulerConstants
<1>1. CASE ProducerStep
  <2>1. CASE ProducerChecks \/ ProducerAcquires \/ ProducerRefused \/ ProducerDiscards
        BY <2>1, OrderFrame DEF ProducerChecks, ProducerAcquires, ProducerRefused,
                                ProducerDiscards, source, path
  <2>2. CASE \E n \in ReadSizes \cup {0}, err \in ReadErrors : ProducerReads(n, err)
    <3>1. PICK n \in ReadSizes \cup {0}, err \in ReadErrors : ProducerReads(n, err)
          BY <2>2
    <3>2. n \in Nat /\ nextOffset \in Nat /\ nextOffset' = nextOffset + n /\ ~eof
          BY <3>1 DEF ProducerReads, Shape, Offsets, Order
    <3>3. UNCHANGED <<live, urgent, copies, acked>>
          BY <3>1 DEF ProducerReads, path
    <3>4. pending \subseteq Nat /\ live \subseteq Nat /\ acked \subseteq Nat
          BY DEF Shape, Offsets
    <3>5. \A c \in copies : c.off \in Nat
          BY DEF Shape, Offsets, CopyRecords
    <3>6. \A o \in pending' : o \in pending \/ (o = nextOffset /\ n > 0)
                               \/ (o = nextOffset + n /\ eof')
          BY <3>1 DEF ProducerReads
    <3>7. pending \subseteq pending'
          BY <3>1 DEF ProducerReads
    <3>8. producer' # "exited" => ~eof'
          BY <3>1 DEF ProducerReads
    <3>9. \A o \in pending \cup live \cup acked : o < nextOffset
          BY <3>2 DEF Order
    <3>10. \A c \in copies : c.off < nextOffset
           BY <3>2 DEF Order
    <3>11. \A o \in pending' \ pending : nextOffset <= o
           BY <3>2, <3>6
    <3>12. urgent' = pending' \cap live'
      <4>1. \A o \in live : o \notin pending' \ pending
            BY <3>2, <3>4, <3>9, <3>11
      <4> QED BY <3>3, <3>7, <4>1 DEF Order
    <3>13. \A f \in pending' \ live', o \in live' : o < f
      <4> SUFFICES ASSUME NEW f \in pending' \ live, NEW o \in live PROVE o < f
          BY <3>3
      <4>1. CASE f \in pending
            BY <4>1 DEF Order
      <4>2. CASE f \notin pending
            BY <4>2, <3>2, <3>4, <3>6, <3>9
      <4> QED BY <4>1, <4>2
    <3>14. ~eof' => \A o \in pending' \cup live' : o < nextOffset'
      <4> SUFFICES ASSUME ~eof', NEW o \in pending' \cup live PROVE o < nextOffset + n
          BY <3>2, <3>3
      <4>1. CASE o \in pending \cup live
            BY <4>1, <3>2, <3>4, <3>9
      <4>2. CASE o = nextOffset /\ n > 0
            BY <4>2, <3>2
      <4> QED BY <4>1, <4>2, <3>6
    <3>15. \A o \in acked : o \notin pending' \ live /\ o < nextOffset + n
      <4> SUFFICES ASSUME NEW o \in acked
                   PROVE  o \notin pending' \ live /\ o < nextOffset + n
          OBVIOUS
      <4>1. o \in Nat /\ o < nextOffset
            BY <3>4, <3>9
      <4>2. o \notin pending \ live
            BY DEF Order
      <4>3. o \notin pending' \ pending
            BY <4>1, <3>2, <3>11
      <4> QED BY <4>1, <4>2, <4>3, <3>2
    <3>16. \A c \in copies : c.off \notin pending' \ live /\ c.off < nextOffset + n
      <4> SUFFICES ASSUME NEW c \in copies
                   PROVE  c.off \notin pending' \ live /\ c.off < nextOffset + n
          OBVIOUS
      <4>1. c.off \in Nat /\ c.off < nextOffset
            BY <3>5, <3>10
      <4>2. c.off \notin pending \ live
            BY DEF Order
      <4>3. c.off \notin pending' \ pending
            BY <4>1, <3>2, <3>11
      <4> QED BY <4>1, <4>2, <4>3, <3>2
    <3> QED BY <3>2, <3>3, <3>8, <3>12, <3>13, <3>14, <3>15, <3>16 DEF Order
  <2> QED BY <1>1, <2>1, <2>2 DEF ProducerStep
<1>2. ASSUME NEW l \in Lanes, PullerStep(l) PROVE Order'
  <2>1. CASE StartPuller(l) \/ NextReturns(l) \/ NextDecidesToWait(l) \/ NextWaits(l)
        BY <2>1, OrderFrame
           DEF StartPuller, NextReturns, NextDecidesToWait, NextWaits, source, path
  <2>2. CASE NextTakes(l)
    <3>1. PICK o \in Takeable(l), r \in LaneModes[l] :
            /\ pending' = pending \ {o}
            /\ urgent' = urgent \ {o}
            /\ live' = live \cup {o}
            /\ copies' = copies \cup
                 {[id |-> nextAttempt + 1, off |-> o, lane |-> l, reliable |-> r,
                   stage |-> "held"]}
          BY <2>2 DEF NextTakes
    <3>2. o \in pending /\ \A p \in pending : p < o => p \in live
          BY <3>1 DEF Takeable, HoldsReliably, AttemptsOf, Tracking, AttemptsAreLive
    <3>3. \A c \in copies' : c.off = o \/ c \in copies
          BY <3>1
    <3>4. UNCHANGED <<nextOffset, eof, acked>>
          BY <2>2 DEF NextTakes, source
    <3>5. producer' # "exited" => producer # "exited"
          BY <2>2 DEF NextTakes, WakeProducer
    <3>6. pending \subseteq Nat /\ live \subseteq Nat
          BY DEF Shape, Offsets
    <3> QED BY <3>1, <3>2, <3>3, <3>4, <3>5, <3>6 DEF Order
  <2>3. CASE SendSucceeds(l)
    <3>1. PICK c \in copies :
            /\ copies' \subseteq copies \cup {[c EXCEPT !.stage = "queued"]}
            /\ acked' \subseteq acked \cup {c.off}
          BY <2>3 DEF SendSucceeds
    <3>2. [c EXCEPT !.stage = "queued"].off = c.off
          BY DEF Shape, CopyRecords
    <3>3. \A d \in copies' : \E e \in copies : d.off = e.off
          BY <3>1, <3>2
    <3>4. acked' \subseteq acked \cup {e.off : e \in copies}
          BY <3>1
    <3> QED BY <2>3, <3>3, <3>4, OrderFrame DEF SendSucceeds, source
  <2>4. CASE SendFails(l)
    <3>1. PICK c \in copies :
            /\ Requeue(IF AttemptOf(c) # {} /\ AttemptsOf(c.off) = AttemptOf(c)
                        THEN {c.off} ELSE {})
            /\ copies' = copies \ {c}
          BY <2>4 DEF SendFails
    <3>2. AttemptOf(c) # {} => c.off \in live
          BY DEF AttemptOf, AttemptsOf, Tracking, AttemptsAreLive
    <3>3. UNCHANGED <<live, nextOffset, eof, acked, producer>>
          BY <2>4 DEF SendFails, source
    <3> QED BY <3>1, <3>2, <3>3, OrderRequeue
  <2>5. CASE PullerRetires(l)
        BY <2>5, OrderRequeue DEF PullerRetires, RetireLane, source, path
  <2> QED BY <1>2, <2>1, <2>2, <2>3, <2>4, <2>5 DEF PullerStep
<1>3. ASSUME NEW l \in Lanes, LaneFails(l) PROVE Order'
      BY <1>3, OrderRequeue DEF LaneFails, RetireLane, source, path
<1>4. ASSUME NEW c \in copies, Wrote(c) PROVE Order'
      BY <1>4, OrderFrame DEF Wrote, Trim, source, Shape, CopyRecords
<1>5. ASSUME NEW c \in copies, Deliver(c) PROVE Order'
      BY <1>5, OrderFrame DEF Deliver, Trim, source
<1>6. ASSUME NEW o \in acked, Complete(o) PROVE Order'
      BY <1>6 DEF Complete, RemovePending, WakeProducer, source, path, Order
<1>7. ASSUME NEW a \in attempts, DeadlinePasses(a) PROVE Order'
      BY <1>7, OrderFrame DEF DeadlinePasses, source, path
<1>8. CASE ReissueExpired
  <2>1. PICK O \in SUBSET Carried : Requeue(O)
        BY <1>8 DEF ReissueExpired
  <2>2. UNCHANGED <<live, nextOffset, eof, acked, producer, copies>>
        BY <1>8 DEF ReissueExpired, source, path
  <2> QED BY <2>1, <2>2, OrderRequeue DEF Carried
<1>9. CASE EvidenceArrives
  <2>1. PICK O \in SUBSET Carried : Requeue(O)
        BY <1>9 DEF EvidenceArrives, ReissueUnacknowledgedBelow
  <2>2. UNCHANGED <<live, nextOffset, eof, acked, producer, copies>>
        BY <1>9 DEF EvidenceArrives, ReissueUnacknowledgedBelow, source, path
  <2> QED BY <2>1, <2>2, OrderRequeue DEF Carried
<1>10. CASE Cancel
       BY <1>10, OrderFrame DEF Cancel, source, path
<1>11. CASE Close
       BY <1>11 DEF Close, WakeProducer, source, path, Order
<1>12. CASE Terminated \/ UNCHANGED vars
       BY <1>12, OrderFrame DEF Terminated, vars, source, path
<1> QED BY <1>1, <1>2, <1>3, <1>4, <1>5, <1>6, <1>7, <1>8, <1>9, <1>10, <1>11, <1>12
        DEF Next, Work

\* What takeReadyLocked relies on when it stops its scan at the first chunk without
\* room: recovered chunks stand before every fresh one.
THEOREM RecoveryStandsFirst == Spec => []RecoveryWorkFirst
<1>1. Init => Shape /\ Tracking /\ Order
      BY ShapeInit DEF Init, Tracking, AttemptsAreLive, NothingStranded, Order
<1>2. Shape /\ Tracking /\ Order /\ [Next]_vars => (Shape /\ Tracking /\ Order)'
      BY ShapeStep, TrackingStep, OrderStep
<1>3. Order => RecoveryWorkFirst
      BY DEF Order, RecoveryWorkFirst
<1> QED BY <1>1, <1>2, <1>3, PTL DEF Spec

\* Complete takes a chunk out of the scheduler for good: an acknowledgement that
\* overtakes the re-offer of its chunk leaves nothing behind that Next could hand
\* to a lane as new work.
THEOREM AcknowledgedStaysDone == Spec => NoFreshDispatchOfAcked
<1>1. Init => Shape /\ Tracking /\ Order
      BY ShapeInit DEF Init, Tracking, AttemptsAreLive, NothingStranded, Order
<1>2. Shape /\ Tracking /\ Order /\ [Next]_vars => (Shape /\ Tracking /\ Order)'
      BY ShapeStep, TrackingStep, OrderStep
<1>3. ASSUME Order, [Next]_vars PROVE \A o \in live' \ live : o \notin acked
  <2>1. CASE \E l \in Lanes : NextTakes(l)
    <3>1. PICK l \in Lanes : \E o \in Takeable(l) : live' = live \cup {o}
          BY <2>1 DEF NextTakes
    <3> QED BY <1>3, <3>1 DEF Order, Takeable
  <2>2. CASE ~\E l \in Lanes : NextTakes(l)
    <3>1. live' \subseteq live
          BY <1>3, <2>2
             DEF Next, Work, vars, ProducerStep, ProducerChecks, ProducerAcquires,
                 ProducerRefused, ProducerReads, ProducerDiscards, PullerStep,
                 StartPuller, NextReturns, NextDecidesToWait, NextWaits,
                 SendSucceeds, SendFails, PullerRetires, LaneFails, Wrote, Deliver,
                 Complete, DeadlinePasses, ReissueExpired, EvidenceArrives,
                 ReissueUnacknowledgedBelow, Cancel, Close, Terminated
    <3> QED BY <3>1
  <2> QED BY <2>1, <2>2
<1> QED BY <1>1, <1>2, <1>3, PTL DEF Spec, NoFreshDispatchOfAcked

-----------------------------------------------------------------------------
(* Callbacks find their own attempt *)

\* Attempts are told apart by their ids, which are handed out in order.
Identity ==
  /\ \A a \in attempts : a.id <= nextAttempt
  /\ \A a, b \in attempts : a.id = b.id => a = b

\* A step that marks attempts of A, and ends the others: m tells what becomes of each.
Marks(A, m) ==
  /\ A \subseteq attempts /\ m \in [A -> AttemptRecords]
  /\ attempts' = {m[a] : a \in A}
  /\ \A a \in A : /\ m[a].id = a.id /\ m[a].off = a.off
                  /\ m[a].lane = a.lane /\ m[a].reliable = a.reliable

\* Wrote marks the attempt it finds.
LEMMA WroteMarks ==
  ASSUME Shape, NEW c \in copies, Wrote(c)
  PROVE  \E m : /\ Marks(attempts, m)
                /\ \A a \in attempts : /\ m[a].written # a.written =>
                                            a \in AttemptOf(c) /\ ~a.written /\ m[a].written
                                       /\ a \in AttemptOf(c) => m[a].written
<1> DEFINE mine == {a \in AttemptOf(c) : ~a.written}
           m == [a \in attempts |-> IF a \in mine THEN [a EXCEPT !.written = TRUE] ELSE a]
<1>1. \A a \in attempts : /\ [a EXCEPT !.written = TRUE] \in AttemptRecords
                          /\ [a EXCEPT !.written = TRUE].id = a.id
                          /\ [a EXCEPT !.written = TRUE].off = a.off
                          /\ [a EXCEPT !.written = TRUE].lane = a.lane
                          /\ [a EXCEPT !.written = TRUE].reliable = a.reliable
                          /\ [a EXCEPT !.written = TRUE].written = TRUE
                          /\ a.written \in BOOLEAN
      BY DEF Shape, AttemptRecords
<1>2. attempts' = (attempts \ mine) \cup {[a EXCEPT !.written = TRUE] : a \in mine}
      BY <1>1 DEF Wrote
<1>3. mine \subseteq attempts /\ AttemptOf(c) \subseteq attempts
      BY DEF AttemptOf, AttemptsOf
<1>4. \A a \in mine : ~a.written /\ a \in AttemptOf(c)
      OBVIOUS
<1>5. \A a \in AttemptOf(c) \ mine : a.written = TRUE
      BY <1>1, <1>3
<1> HIDE DEF mine
<1>6. attempts' = {m[a] : a \in attempts}
      BY <1>2, <1>3
<1>7. m \in [attempts -> AttemptRecords]
      BY <1>1 DEF Shape
<1>8. \A a \in attempts : /\ m[a].id = a.id /\ m[a].off = a.off
                          /\ m[a].lane = a.lane /\ m[a].reliable = a.reliable
      BY <1>1
<1>9. \A a \in attempts : /\ m[a].written # a.written =>
                                 a \in AttemptOf(c) /\ ~a.written /\ m[a].written
                          /\ a \in AttemptOf(c) => m[a].written
      BY <1>1, <1>3, <1>4, <1>5
<1> HIDE DEF m
<1> QED BY <1>6, <1>7, <1>8, <1>9 DEF Marks

\* The passing of a deadline marks its attempt.
LEMMA DeadlineMarks ==
  ASSUME Shape, NEW x \in attempts, DeadlinePasses(x)
  PROVE  \E m : Marks(attempts, m) /\ \A a \in attempts : m[a].written = a.written
<1> DEFINE m == [a \in attempts |-> IF a = x THEN [a EXCEPT !.expired = TRUE] ELSE a]
<1>1. \A a \in attempts : /\ [a EXCEPT !.expired = TRUE] \in AttemptRecords
                          /\ [a EXCEPT !.expired = TRUE].id = a.id
                          /\ [a EXCEPT !.expired = TRUE].off = a.off
                          /\ [a EXCEPT !.expired = TRUE].lane = a.lane
                          /\ [a EXCEPT !.expired = TRUE].reliable = a.reliable
                          /\ [a EXCEPT !.expired = TRUE].written = a.written
      BY DEF Shape, AttemptRecords
<1>2. attempts' = (attempts \ {x}) \cup {[x EXCEPT !.expired = TRUE]}
      BY DEF DeadlinePasses
<1>3. attempts' = {m[a] : a \in attempts}
      BY <1>2
<1>4. m \in [attempts -> AttemptRecords]
      BY <1>1 DEF Shape
<1>5. \A a \in attempts : /\ m[a].id = a.id /\ m[a].off = a.off /\ m[a].written = a.written
                          /\ m[a].lane = a.lane /\ m[a].reliable = a.reliable
      BY <1>1
<1> HIDE DEF m
<1> QED BY <1>3, <1>4, <1>5 DEF Marks

\* What ReissueExpired retires.
Lapsed == {a \in attempts : a.off \in Carried /\ Terminal(a) /\ a.expired}

\* A sweep of ReissueExpired ends what it retires and marks what it re-offers.
LEMMA ReissueMarks ==
  ASSUME Shape, ReissueExpired
  PROVE  \E m : Marks(attempts \ Lapsed, m) /\ \A a \in attempts \ Lapsed : m[a].written = a.written
<1>1. PICK T : attempts' = {IF a.off \in T THEN [a EXCEPT !.expired = FALSE] ELSE a
                              : a \in attempts \ Lapsed}
      BY DEF ReissueExpired, Lapsed
<1> DEFINE A == attempts \ Lapsed
           m == [a \in A |-> IF a.off \in T THEN [a EXCEPT !.expired = FALSE] ELSE a]
<1>2. \A a \in attempts : /\ [a EXCEPT !.expired = FALSE] \in AttemptRecords
                          /\ [a EXCEPT !.expired = FALSE].id = a.id
                          /\ [a EXCEPT !.expired = FALSE].off = a.off
                          /\ [a EXCEPT !.expired = FALSE].lane = a.lane
                          /\ [a EXCEPT !.expired = FALSE].reliable = a.reliable
                          /\ [a EXCEPT !.expired = FALSE].written = a.written
      BY DEF Shape, AttemptRecords
<1>3. attempts' = {m[a] : a \in A}
      BY <1>1
<1>4. A \subseteq attempts
      OBVIOUS
<1> HIDE DEF A
<1>5. m \in [A -> AttemptRecords]
      BY <1>2, <1>4 DEF Shape
<1>6. \A a \in A : /\ m[a].id = a.id /\ m[a].off = a.off /\ m[a].written = a.written
                   /\ m[a].lane = a.lane /\ m[a].reliable = a.reliable
      BY <1>2, <1>4
<1> HIDE DEF m
<1>7. Marks(A, m) /\ \A a \in A : m[a].written = a.written
      BY <1>3, <1>4, <1>5, <1>6 DEF Marks
<1> QED BY <1>7 DEF A

LEMMA IdentityKept ==
  ASSUME Identity, attempts' \subseteq attempts, nextAttempt' = nextAttempt
  PROVE  Identity'
BY DEF Identity

LEMMA IdentityMarked ==
  ASSUME Identity, NEW A, NEW m, Marks(A, m), nextAttempt' = nextAttempt
  PROVE  Identity'
BY DEF Identity, Marks

LEMMA IdentityStep == Shape /\ Identity /\ [Next]_vars => Identity'
<1> SUFFICES ASSUME Shape, Identity, [Next]_vars PROVE Identity'
    OBVIOUS
<1>1. CASE ProducerStep
      BY <1>1, IdentityKept DEF ProducerStep, ProducerChecks, ProducerAcquires,
           ProducerRefused, ProducerDiscards, ProducerReads
<1>2. ASSUME NEW l \in Lanes, PullerStep(l) PROVE Identity'
  <2>1. CASE NextTakes(l)
    <3>1. PICK o \in Takeable(l), r \in LaneModes[l] :
            attempts' = attempts \cup
                 {[id |-> nextAttempt + 1, off |-> o, lane |-> l, reliable |-> r,
                   written |-> FALSE, expired |-> FALSE]}
          BY <2>1 DEF NextTakes
    <3> DEFINE new == [id |-> nextAttempt + 1, off |-> o, lane |-> l, reliable |-> r,
                       written |-> FALSE, expired |-> FALSE]
    <3>2. new.id = nextAttempt + 1 /\ nextAttempt' = nextAttempt + 1 /\ nextAttempt \in Nat
          BY <2>1 DEF NextTakes, Shape
    <3>3. \A a \in attempts : a.id \in Nat
          BY DEF Shape, AttemptRecords
    <3> HIDE DEF new
    <3>4. attempts' = attempts \cup {new}
          BY <3>1 DEF new
    <3> QED BY <3>2, <3>3, <3>4 DEF Identity
  <2>2. CASE ~NextTakes(l)
    <3>1. attempts' \subseteq attempts /\ nextAttempt' = nextAttempt
          BY <1>2, <2>2 DEF PullerStep, StartPuller, NextReturns, NextDecidesToWait, NextWaits,
               SendSucceeds, SendFails, PullerRetires, RetireLane
    <3> QED BY <3>1, IdentityKept
  <2> QED BY <2>1, <2>2
<1>3. ASSUME NEW l \in Lanes, LaneFails(l) PROVE Identity'
      BY <1>3, IdentityKept DEF LaneFails, RetireLane
<1>4. ASSUME NEW c \in copies, Wrote(c) PROVE Identity'
      BY <1>4, WroteMarks, IdentityMarked DEF Wrote
<1>5. ASSUME NEW c \in copies, Deliver(c) PROVE Identity'
      BY <1>5, IdentityKept DEF Deliver
<1>6. ASSUME NEW o \in acked, Complete(o) PROVE Identity'
      BY <1>6, IdentityKept DEF Complete
<1>7. ASSUME NEW a \in attempts, DeadlinePasses(a) PROVE Identity'
      BY <1>7, DeadlineMarks, IdentityMarked DEF DeadlinePasses
<1>8. CASE ReissueExpired
      BY <1>8, ReissueMarks, IdentityMarked DEF ReissueExpired
<1>9. CASE EvidenceArrives
      BY <1>9, IdentityKept DEF EvidenceArrives, ReissueUnacknowledgedBelow
<1>10. CASE Cancel
       BY <1>10, IdentityKept DEF Cancel
<1>11. CASE Close
       BY <1>11, IdentityKept DEF Close
<1>12. CASE Terminated \/ UNCHANGED vars
       BY <1>12, IdentityKept DEF Terminated, vars
<1> QED BY <1>1, <1>2, <1>3, <1>4, <1>5, <1>6, <1>7, <1>8, <1>9, <1>10, <1>11, <1>12
        DEF Next, Work

\* Attempts are finitely many: there is at most one of an id.
LEMMA AttemptsFinite == ASSUME Shape, Identity PROVE IsFiniteSet(attempts)
<1> DEFINE idOf == [a \in attempts |-> a.id]
<1>1. idOf \in Injection(attempts, 1..MaxAttempts)
      BY DEF Shape, Identity, AttemptRecords, Injection, IsInjective
<1>2. IsFiniteSet(1..MaxAttempts)
      BY FS_Interval, SchedulerConstants
<1> QED BY <1>1, <1>2, FS_Injection

\* An attempt that ends, as CallbacksFindTheirOwn allows it.
MayEnd(a) ==
  \/ a.off \in acked
  \/ a.lane \in dead' \/ puller'[a.lane] \in {"retiring", "exited"}
  \/ ~a.reliable /\ a.written
  \/ closed'

\* The rule of CallbacksFindTheirOwn for one step.
OwnAttempt ==
  /\ \A a \in attempts : (\A b \in attempts' : b.id # a.id) => MayEnd(a)
  /\ \A a \in attempts, b \in attempts' :
       a.id = b.id /\ ~a.written /\ b.written =>
         \E c \in copies \ copies' : c.id = a.id /\ c.stage = "queued"

\* A step that only ends attempts touches none of the others.
LEMMA EndsOnly ==
  ASSUME Identity, attempts' \subseteq attempts, \A a \in attempts \ attempts' : MayEnd(a)
  PROVE  OwnAttempt
BY DEF Identity, OwnAttempt

\* A step that marks attempts but no writing ends only those it does not mark.
LEMMA MarksOnly ==
  ASSUME Identity, NEW A, NEW m, Marks(A, m), \A a \in A : m[a].written = a.written,
         \A a \in attempts \ A : MayEnd(a)
  PROVE  OwnAttempt
<1>1. ASSUME NEW a \in attempts, \A b \in attempts' : b.id # a.id PROVE MayEnd(a)
      BY <1>1 DEF Marks
<1>2. ASSUME NEW a \in attempts, NEW b \in attempts', a.id = b.id PROVE a.written = b.written
  <2>1. PICK x \in A : b = m[x]
        BY DEF Marks
  <2>2. x = a
        BY <1>2, <2>1 DEF Marks, Identity
  <2> QED BY <2>1, <2>2
<1> QED BY <1>1, <1>2 DEF OwnAttempt

LEMMA OwnAttemptStep == Shape /\ Identity /\ [Next]_vars => OwnAttempt
<1> SUFFICES ASSUME Shape, Identity, [Next]_vars PROVE OwnAttempt
    OBVIOUS
<1>1. CASE ProducerStep
      BY <1>1, EndsOnly DEF ProducerStep, ProducerChecks, ProducerAcquires,
           ProducerRefused, ProducerDiscards, ProducerReads
<1>2. ASSUME NEW l \in Lanes, PullerStep(l) PROVE OwnAttempt
  <2>1. CASE NextTakes(l)
    <3>1. attempts \subseteq attempts' /\ \A b \in attempts' \ attempts : ~b.written
          BY <2>1 DEF NextTakes
    <3>2. ASSUME NEW a \in attempts, NEW b \in attempts', a.id = b.id, b.written
          PROVE  a = b
          BY <3>1, <3>2 DEF Identity
    <3> QED BY <3>1, <3>2 DEF OwnAttempt
  <2>2. CASE StartPuller(l) \/ NextReturns(l) \/ NextDecidesToWait(l) \/ NextWaits(l)
             \/ SendSucceeds(l)
        BY <2>2, EndsOnly DEF StartPuller, NextReturns, NextDecidesToWait, NextWaits, SendSucceeds
  <2>3. CASE SendFails(l)
    <3>1. PICK c \in copies : /\ c.lane = l /\ attempts' = attempts \ AttemptOf(c)
                              /\ puller' = [IF AttemptOf(c) # {} THEN Broadcast(puller) ELSE puller
                                              EXCEPT ![l] = "retiring"]
          BY <2>3 DEF SendFails
    <3>2. \A a \in AttemptOf(c) : a.lane = l
          BY <3>1 DEF AttemptOf
    <3>3. AttemptOf(c) # {} => puller'[l] = "retiring"
          BY <3>1 DEF Broadcast
    <3>4. \A a \in attempts \ attempts' : MayEnd(a)
          BY <3>1, <3>2, <3>3 DEF MayEnd
    <3> QED BY <3>1, <3>4, EndsOnly
  <2>4. CASE PullerRetires(l)
    <3>1. attempts' = attempts \ On(l, attempts) /\ puller'[l] = "exited"
          BY <2>4 DEF PullerRetires, RetireLane, Broadcast
    <3>2. \A a \in attempts \ attempts' : MayEnd(a)
          BY <3>1 DEF MayEnd, On
    <3> QED BY <3>1, <3>2, EndsOnly
  <2> QED BY <1>2, <2>1, <2>2, <2>3, <2>4 DEF PullerStep
<1>3. ASSUME NEW l \in Lanes, LaneFails(l) PROVE OwnAttempt
  <2>1. attempts' = attempts \ On(l, attempts) /\ l \in dead'
        BY <1>3 DEF LaneFails, RetireLane
  <2>2. \A a \in attempts \ attempts' : MayEnd(a)
        BY <2>1 DEF MayEnd, On
  <2> QED BY <2>1, <2>2, EndsOnly
<1>4. ASSUME NEW c \in copies, Wrote(c) PROVE OwnAttempt
  <2>1. PICK m : /\ Marks(attempts, m)
                 /\ \A a \in attempts : m[a].written # a.written =>
                                          a \in AttemptOf(c) /\ ~a.written /\ m[a].written
        BY <1>4, WroteMarks
  <2>2. c.stage = "queued" /\ c \notin copies'
    <3>1. [c EXCEPT !.stage = "written"].stage = "written"
          BY DEF Shape, CopyRecords
    <3> QED BY <1>4, <3>1 DEF Wrote, Trim
  <2>3. ASSUME NEW a \in attempts PROVE \E b \in attempts' : b.id = a.id
        BY <2>1 DEF Marks
  <2>4. ASSUME NEW a \in attempts, NEW b \in attempts', a.id = b.id, ~a.written, b.written
        PROVE  c.id = a.id
    <3>1. PICK x \in attempts : b = m[x]
          BY <2>1 DEF Marks
    <3>2. x = a
          BY <2>1, <2>4, <3>1 DEF Marks, Identity
    <3> QED BY <2>1, <2>4, <3>1, <3>2 DEF AttemptOf
  <2> QED BY <2>2, <2>3, <2>4 DEF OwnAttempt
<1>5. ASSUME NEW c \in copies, Deliver(c) PROVE OwnAttempt
      BY <1>5, EndsOnly DEF Deliver
<1>6. ASSUME NEW o \in acked, Complete(o) PROVE OwnAttempt
  <2>1. attempts' = attempts \ AttemptsOf(o)
        BY <1>6 DEF Complete
  <2>2. \A a \in attempts \ attempts' : MayEnd(a)
        BY <2>1 DEF MayEnd, AttemptsOf
  <2> QED BY <2>1, <2>2, EndsOnly
<1>7. ASSUME NEW a \in attempts, DeadlinePasses(a) PROVE OwnAttempt
  <2>1. PICK m : Marks(attempts, m) /\ \A b \in attempts : m[b].written = b.written
        BY <1>7, DeadlineMarks
  <2> QED BY <2>1, MarksOnly
<1>8. CASE ReissueExpired
  <2>1. PICK m : Marks(attempts \ Lapsed, m)
                 /\ \A b \in attempts \ Lapsed : m[b].written = b.written
        BY <1>8, ReissueMarks
  <2>2. \A a \in attempts \ (attempts \ Lapsed) : MayEnd(a)
        BY DEF Lapsed, Terminal, MayEnd
  <2> QED BY <2>1, <2>2, MarksOnly
<1>9. CASE EvidenceArrives
  <2>1. attempts' \subseteq attempts /\ \A a \in attempts \ attempts' : Terminal(a)
        BY <1>9 DEF EvidenceArrives, ReissueUnacknowledgedBelow
  <2>2. \A a \in attempts \ attempts' : MayEnd(a)
        BY <2>1 DEF Terminal, MayEnd
  <2> QED BY <2>1, <2>2, EndsOnly
<1>10. CASE Cancel
       BY <1>10, EndsOnly DEF Cancel
<1>11. CASE Close
  <2>1. attempts' \subseteq attempts /\ closed'
        BY <1>11 DEF Close
  <2> QED BY <2>1, EndsOnly DEF MayEnd
<1>12. CASE Terminated \/ UNCHANGED vars
       BY <1>12, EndsOnly DEF Terminated, vars
<1> QED BY <1>1, <1>2, <1>3, <1>4, <1>5, <1>6, <1>7, <1>8, <1>9, <1>10, <1>11, <1>12
        DEF Next, Work

\* An attempt ends only by its own acknowledgement, lane, failure, loss or teardown, and
\* is written only by the transport that took it: a callback that comes late finds its
\* own attempt or none, whatever re-offers and replacements happened in between.
THEOREM CallbacksAreTheirOwn == Spec => CallbacksFindTheirOwn
<1>1. Init => Shape /\ Identity
      BY ShapeInit DEF Init, Identity
<1>2. Shape /\ Identity /\ [Next]_vars => (Shape /\ Identity)'
      BY ShapeStep, IdentityStep
<1>3. Shape /\ Identity /\ [Next]_vars => OwnAttempt
      BY OwnAttemptStep
<1>4. CallbacksFindTheirOwn <=> [][OwnAttempt]_vars
      BY DEF CallbacksFindTheirOwn, OwnAttempt, MayEnd
<1> QED BY <1>1, <1>2, <1>3, <1>4, PTL DEF Spec

-----------------------------------------------------------------------------
(* At most one speculative copy *)

\* OneSpeculativeCopy without counting: of three attempts of a chunk two are the same.
Pairs ==
  \A o \in live :
    /\ \A a, b, c \in AttemptsOf(o) : a = b \/ b = c \/ a = c
    /\ \A a, b \in AttemptsOf(o) : a.lane = b.lane => a = b
    /\ o \in pending => \A a, b \in AttemptsOf(o) : a = b /\ a.reliable

LEMMA PairsFrame ==
  ASSUME Pairs, attempts' \subseteq attempts, live' \subseteq live,
         \A o \in (pending' \ pending) \cap live' : \A a, b \in AttemptsOf(o)' : a = b /\ a.reliable
  PROVE  Pairs'
BY DEF Pairs, AttemptsOf

\* Marked attempts are as many as they were.
LEMMA PairsMarked ==
  ASSUME Pairs, NEW A, NEW m, Marks(A, m), live' \subseteq live,
         \A o \in (pending' \ pending) \cap live' : \A a, b \in AttemptsOf(o) \cap A : a = b /\ a.reliable
  PROVE  Pairs'
<1>1. ASSUME NEW o, NEW b \in AttemptsOf(o)'
      PROVE  \E a \in AttemptsOf(o) \cap A : b = m[a] /\ b.lane = a.lane /\ b.reliable = a.reliable
  <2>1. b \in attempts' /\ b.off = o
        BY DEF AttemptsOf
  <2> QED BY <2>1 DEF Marks, AttemptsOf
<1>2. ASSUME NEW o \in live'
      PROVE  /\ \A a, b, c \in AttemptsOf(o)' : a = b \/ b = c \/ a = c
             /\ \A a, b \in AttemptsOf(o)' : a.lane = b.lane => a = b
             /\ o \in pending' => \A a, b \in AttemptsOf(o)' : a = b /\ a.reliable
  <2>1. o \in live
        OBVIOUS
  <2> QED BY <1>1, <2>1 DEF Pairs
<1> QED BY <1>2 DEF Pairs

\* What one Read brings lies above everything the scheduler knows.
LEMMA ReadsAbove ==
  ASSUME Shape, Order, NEW n \in ReadSizes \cup {0}, NEW err \in ReadErrors, ProducerReads(n, err)
  PROVE  /\ n \in Nat /\ nextOffset \in Nat /\ nextOffset + n \in Offsets
         /\ nextOffset' = nextOffset + n /\ ~eof /\ ~closed /\ producer = "reading"
         /\ \A o \in pending \cup live \cup acked : o \in Nat /\ o < nextOffset
         /\ \A c \in copies : c.off \in Nat /\ c.off < nextOffset
         /\ pending \subseteq pending'
         /\ \A o \in pending' \ pending : nextOffset <= o
<1> USE SchedulerConstants
<1>1. n \in Nat /\ nextOffset \in Nat /\ nextOffset' = nextOffset + n /\ ~eof /\ ~closed
      /\ producer = "reading"
      BY DEF ProducerReads, Shape, Offsets, Order
<1>2. nextOffset + n \in Offsets
      BY <1>1 DEF ProducerReads, Shape, Offsets
<1>3. pending \subseteq Nat /\ live \subseteq Nat /\ acked \subseteq Nat
      BY DEF Shape, Offsets
<1>4. \A c \in copies : c.off \in Nat
      BY DEF Shape, Offsets, CopyRecords
<1>5. \A o \in pending' : o \in pending \/ o = nextOffset \/ o = nextOffset + n
      BY DEF ProducerReads
<1>6. pending \subseteq pending'
      BY DEF ProducerReads
<1>7. \A o \in pending \cup live \cup acked : o < nextOffset
      BY <1>1 DEF Order
<1>8. \A c \in copies : c.off < nextOffset
      BY <1>1 DEF Order
<1>9. \A o \in pending' \ pending : nextOffset <= o
      BY <1>1, <1>5
<1> QED BY <1>1, <1>2, <1>3, <1>4, <1>6, <1>7, <1>8, <1>9

LEMMA PairsStep == Shape /\ Tracking /\ Order /\ Identity /\ Pairs /\ [Next]_vars => Pairs'
<1> SUFFICES ASSUME Shape, Tracking, Order, Identity, Pairs, [Next]_vars PROVE Pairs'
    OBVIOUS
<1>1. CASE ProducerStep
  <2>1. CASE ProducerChecks \/ ProducerAcquires \/ ProducerRefused \/ ProducerDiscards
        BY <2>1, PairsFrame DEF ProducerChecks, ProducerAcquires, ProducerRefused, ProducerDiscards
  <2>2. CASE \E n \in ReadSizes \cup {0}, err \in ReadErrors : ProducerReads(n, err)
    <3>1. PICK n \in ReadSizes \cup {0}, err \in ReadErrors : ProducerReads(n, err)
          BY <2>2
    <3>2. UNCHANGED <<attempts, live>>
          BY <3>1 DEF ProducerReads
    <3>3. (pending' \ pending) \cap live = {}
      <4>1. ASSUME NEW o \in live, o \in pending' \ pending PROVE FALSE
        <5>1. o \in Nat /\ nextOffset \in Nat /\ o < nextOffset /\ nextOffset <= o
              BY <3>1, <4>1, ReadsAbove
        <5> QED BY <5>1
      <4> QED BY <4>1
    <3> QED BY <3>2, <3>3, PairsFrame
  <2> QED BY <1>1, <2>1, <2>2 DEF ProducerStep
<1>2. ASSUME NEW l \in Lanes, PullerStep(l) PROVE Pairs'
  <2>1. CASE NextTakes(l)
    <3>1. PICK o \in Takeable(l), r \in LaneModes[l] :
            /\ pending' = pending \ {o}
            /\ live' = live \cup {o}
            /\ attempts' = attempts \cup
                 {[id |-> nextAttempt + 1, off |-> o, lane |-> l, reliable |-> r,
                   written |-> FALSE, expired |-> FALSE]}
          BY <2>1 DEF NextTakes
    <3> DEFINE new == [id |-> nextAttempt + 1, off |-> o, lane |-> l, reliable |-> r,
                       written |-> FALSE, expired |-> FALSE]
    <3>2. new.off = o /\ new.lane = l
          OBVIOUS
    <3> HIDE DEF new
    <3>3. attempts' = attempts \cup {new}
          BY <3>1 DEF new
    <3>4. o \in pending /\ \A a \in AttemptsOf(o) : ~(a.lane = l /\ a.reliable)
          BY DEF Takeable, HoldsReliably
    <3>5. o \in live => \A a, b \in AttemptsOf(o) : a = b /\ a.reliable
          BY <3>4 DEF Pairs
    <3>6. o \notin live => AttemptsOf(o) = {}
          BY DEF Tracking, AttemptsAreLive, AttemptsOf
    <3>7. \A a, b \in AttemptsOf(o) : a = b /\ a.lane # l
          BY <3>4, <3>5, <3>6
    <3>8. AttemptsOf(o)' = AttemptsOf(o) \cup {new}
          BY <3>2, <3>3 DEF AttemptsOf
    <3>9. \A p : p # o => AttemptsOf(p)' = AttemptsOf(p)
          BY <3>2, <3>3 DEF AttemptsOf
    <3>10. o \notin pending'
           BY <3>1
    <3>11. ASSUME NEW p \in live'
           PROVE  /\ \A a, b, c \in AttemptsOf(p)' : a = b \/ b = c \/ a = c
                  /\ \A a, b \in AttemptsOf(p)' : a.lane = b.lane => a = b
                  /\ p \in pending' => \A a, b \in AttemptsOf(p)' : a = b /\ a.reliable
      <4>1. CASE p = o
            BY <4>1, <3>2, <3>7, <3>8, <3>10
      <4>2. CASE p # o
            BY <4>2, <3>1, <3>9 DEF Pairs
      <4> QED BY <4>1, <4>2
    <3> QED BY <3>11 DEF Pairs
  <2>2. CASE StartPuller(l) \/ NextReturns(l) \/ NextDecidesToWait(l) \/ NextWaits(l)
             \/ SendSucceeds(l)
        BY <2>2, PairsFrame DEF StartPuller, NextReturns, NextDecidesToWait, NextWaits, SendSucceeds
  <2>3. CASE SendFails(l)
    <3>1. PICK c \in copies :
            /\ attempts' = attempts \ AttemptOf(c) /\ live' = live
            /\ Requeue(IF AttemptOf(c) # {} /\ AttemptsOf(c.off) = AttemptOf(c)
                        THEN {c.off} ELSE {})
          BY <2>3 DEF SendFails
    <3>2. \A o \in pending' \ pending : AttemptsOf(o)' = {}
          BY <3>1 DEF Requeue, AttemptsOf
    <3> QED BY <3>1, <3>2, PairsFrame
  <2>4. CASE PullerRetires(l)
    <3>1. /\ attempts' = attempts \ On(l, attempts) /\ live' = live
          /\ \A o \in pending' \ pending : AttemptsOf(o) \subseteq On(l, attempts)
          BY <2>4 DEF PullerRetires, RetireLane, Requeue
    <3>2. \A o \in pending' \ pending : AttemptsOf(o)' = {}
          BY <3>1 DEF AttemptsOf
    <3> QED BY <3>1, <3>2, PairsFrame
  <2> QED BY <1>2, <2>1, <2>2, <2>3, <2>4 DEF PullerStep
<1>3. ASSUME NEW l \in Lanes, LaneFails(l) PROVE Pairs'
  <2>1. /\ attempts' = attempts \ On(l, attempts) /\ live' = live
        /\ \A o \in pending' \ pending : AttemptsOf(o) \subseteq On(l, attempts)
        BY <1>3 DEF LaneFails, RetireLane, Requeue
  <2>2. \A o \in pending' \ pending : AttemptsOf(o)' = {}
        BY <2>1 DEF AttemptsOf
  <2> QED BY <2>1, <2>2, PairsFrame
<1>4. ASSUME NEW c \in copies, Wrote(c) PROVE Pairs'
  <2>1. UNCHANGED <<pending, live>>
        BY <1>4 DEF Wrote
  <2> QED BY <1>4, <2>1, WroteMarks, PairsMarked
<1>5. ASSUME NEW c \in copies, Deliver(c) PROVE Pairs'
      BY <1>5, PairsFrame DEF Deliver
<1>6. ASSUME NEW o \in acked, Complete(o) PROVE Pairs'
      BY <1>6, PairsFrame DEF Complete, RemovePending
<1>7. ASSUME NEW a \in attempts, DeadlinePasses(a) PROVE Pairs'
  <2>1. UNCHANGED <<pending, live>>
        BY <1>7 DEF DeadlinePasses
  <2> QED BY <1>7, <2>1, DeadlineMarks, PairsMarked
<1>8. CASE ReissueExpired
  <2>1. UNCHANGED live
        BY <1>8 DEF ReissueExpired
  <2>2. \A o \in pending' \ pending :
          \/ AttemptsOf(o) \ Lapsed = {}
          \/ \E a : AttemptsOf(o) \ Lapsed = {a} /\ a.reliable
        BY <1>8 DEF ReissueExpired, Requeue, Lapsed
  <2>3. ASSUME NEW o \in (pending' \ pending) \cap live',
               NEW a \in AttemptsOf(o) \cap (attempts \ Lapsed),
               NEW b \in AttemptsOf(o) \cap (attempts \ Lapsed)
        PROVE  a = b /\ a.reliable
        BY <2>2
  <2> QED BY <1>8, <2>1, <2>3, ReissueMarks, PairsMarked
<1>9. CASE EvidenceArrives
  <2>1. PICK bound : ReissueUnacknowledgedBelow(bound)
        BY <1>9 DEF EvidenceArrives
  <2>2. /\ attempts' \subseteq attempts /\ live' = live
        /\ \A o \in pending' \ pending : AttemptsOf(o) \cap attempts' = {}
        BY <2>1 DEF ReissueUnacknowledgedBelow, Requeue
  <2>3. \A o \in pending' \ pending : AttemptsOf(o)' = {}
        BY <2>2 DEF AttemptsOf
  <2> QED BY <2>2, <2>3, PairsFrame
<1>10. CASE Cancel
       BY <1>10, PairsFrame DEF Cancel
<1>11. CASE Close
       BY <1>11, PairsFrame DEF Close
<1>12. CASE Terminated \/ UNCHANGED vars
       BY <1>12, PairsFrame DEF Terminated, vars
<1> QED BY <1>1, <1>2, <1>3, <1>4, <1>5, <1>6, <1>7, <1>8, <1>9, <1>10, <1>11, <1>12
        DEF Next, Work

\* Two attempts at most, by number.
LEMMA PairsAreCounted == ASSUME Shape, Identity, Pairs PROVE OneSpeculativeCopy
<1>1. SUFFICES ASSUME NEW o \in live
               PROVE  /\ Cardinality(AttemptsOf(o)) + (IF o \in pending THEN 1 ELSE 0) <= 2
                      /\ \A a, b \in AttemptsOf(o) : a.lane = b.lane => a = b
                      /\ o \in pending => \A a \in AttemptsOf(o) : a.reliable
      BY DEF OneSpeculativeCopy
<1>2. CASE AttemptsOf(o) = {}
      BY <1>2, FS_EmptySet
<1>3. CASE \E a : AttemptsOf(o) = {a}
  <2>1. Cardinality(AttemptsOf(o)) = 1
        BY <1>3, FS_Singleton
  <2> QED BY <1>3, <2>1 DEF Pairs
<1>4. CASE \E a, b : a # b /\ AttemptsOf(o) = {a, b}
  <2>1. PICK a, b : a # b /\ AttemptsOf(o) = {a, b}
        BY <1>4
  <2>2. IsFiniteSet({a}) /\ Cardinality({a}) = 1 /\ {a, b} = {a} \cup {b} /\ b \notin {a}
        BY <2>1, FS_Singleton
  <2>3. Cardinality({a} \cup {b}) = 2
        BY <2>2, FS_AddElement
  <2>4. o \notin pending
        BY <2>1 DEF Pairs
  <2>5. \A x, y \in AttemptsOf(o) : x.lane = y.lane => x = y
        BY DEF Pairs
  <2> QED BY <2>1, <2>2, <2>3, <2>4, <2>5
<1>5. \/ AttemptsOf(o) = {}
      \/ \E a : AttemptsOf(o) = {a}
      \/ \E a, b : a # b /\ AttemptsOf(o) = {a, b}
  <2>1. ASSUME NEW a \in AttemptsOf(o), NEW b \in AttemptsOf(o), a # b
        PROVE  AttemptsOf(o) = {a, b}
        BY <2>1 DEF Pairs
  <2>2. ASSUME NEW a \in AttemptsOf(o), \A b \in AttemptsOf(o) : a = b
        PROVE  AttemptsOf(o) = {a}
        BY <2>2
  <2> HIDE DEF AttemptsOf
  <2> QED BY <2>1, <2>2
<1> QED BY <1>2, <1>3, <1>4, <1>5

-----------------------------------------------------------------------------
(* Every byte is held or acknowledged *)

Known == live \cup pending \cup acked

Reads == \E n \in ReadSizes \cup {0}, err \in ReadErrors : ProducerReads(n, err)

\* What the source has not yielded has no size.
Future == ~eof => \A o \in Offsets : nextOffset <= o => size[o] = 0

\* The chunks the scheduler knows, held or acknowledged, tile what was read.
Tiling ==
  /\ \A o \in Known : EndOf(o) <= nextOffset
  /\ \A o, p \in Known : o < p => EndOf(o) <= p
  /\ \A b \in 0 .. nextOffset - 1 : \E o \in Known : o <= b /\ b < EndOf(o)
  /\ \A c \in copies : c.off \in Known

Covered == ~closed => Tiling

\* The end of the stream, as the scheduler sees it.
AllDelivered == \A b \in 0 .. nextOffset - 1 : \E o \in acked : o <= b /\ b < EndOf(o)

Ending ==
  /\ closed => pending = {} /\ live = {}
  /\ finished => eof /\ pending = {} /\ live = {} /\ AllDelivered
  /\ \A o \in final : eof /\ ~srcErr /\ EndOf(o) = nextOffset

\* Only a Read touches what is known of the source.
LEMMA OnlyReads == [Next]_vars => Reads \/ UNCHANGED source
BY DEF Next, Work, vars, ProducerStep, ProducerChecks, ProducerAcquires, Reads,
       ProducerRefused, ProducerDiscards, PullerStep,
       StartPuller, NextReturns, NextTakes, NextDecidesToWait, NextWaits,
       SendSucceeds, SendFails, PullerRetires, LaneFails, Wrote, Deliver,
       Complete, DeadlinePasses, ReissueExpired, EvidenceArrives,
       ReissueUnacknowledgedBelow, Cancel, Close, Terminated

\* Every other step but the teardown hands chunks on: none is forgotten, none invented.
LEMMA HandedOn ==
  ASSUME Shape, Tracking, [Next]_vars, ~Reads, ~closed', \A c \in copies : c.off \in Known
  PROVE  /\ Known' = Known /\ acked \subseteq acked'
         /\ \A c \in copies' : c.off \in Known
<1> USE DEF Known
<1>1. CASE ProducerStep
      BY <1>1 DEF ProducerStep, ProducerChecks, ProducerAcquires, ProducerRefused,
                  ProducerDiscards, Reads, path
<1>2. ASSUME NEW l \in Lanes, PullerStep(l)
      PROVE  /\ Known' = Known /\ acked \subseteq acked'
             /\ \A c \in copies' : c.off \in Known
  <2>1. CASE NextTakes(l)
    <3>1. PICK o \in Takeable(l), r \in LaneModes[l] :
            /\ pending' = pending \ {o}
            /\ live' = live \cup {o}
            /\ copies' = copies \cup
                 {[id |-> nextAttempt + 1, off |-> o, lane |-> l, reliable |-> r,
                   stage |-> "held"]}
          BY <2>1 DEF NextTakes
    <3>2. o \in pending
          BY DEF Takeable
    <3>3. acked' = acked
          BY <2>1 DEF NextTakes
    <3>4. \A c \in copies' : c.off = o \/ c \in copies
          BY <3>1
    <3>5. Known' = Known
          BY <3>1, <3>2, <3>3
    <3> QED BY <3>2, <3>3, <3>4, <3>5
  <2>2. CASE StartPuller(l) \/ NextReturns(l) \/ NextDecidesToWait(l) \/ NextWaits(l)
        BY <2>2 DEF StartPuller, NextReturns, NextDecidesToWait, NextWaits, path
  <2>3. CASE SendSucceeds(l)
    <3>1. PICK c \in copies :
            /\ copies' \subseteq copies \cup {[c EXCEPT !.stage = "queued"]}
            /\ acked \subseteq acked' /\ acked' \subseteq acked \cup {c.off}
            /\ UNCHANGED <<live, pending>>
          BY <2>3 DEF SendSucceeds
    <3>2. [c EXCEPT !.stage = "queued"].off = c.off
          BY DEF Shape, CopyRecords
    <3>3. \A d \in copies' : d.off \in Known
          BY <3>1, <3>2
    <3> QED BY <3>1, <3>3
  <2>4. CASE SendFails(l)
    <3>1. PICK c \in copies :
            /\ Requeue(IF AttemptOf(c) # {} /\ AttemptsOf(c.off) = AttemptOf(c)
                        THEN {c.off} ELSE {})
            /\ copies' = copies \ {c} /\ UNCHANGED <<live, acked>>
          BY <2>4 DEF SendFails
    <3>2. AttemptOf(c) # {} => c.off \in live
          BY DEF AttemptOf, AttemptsOf, Tracking, AttemptsAreLive
    <3> QED BY <3>1, <3>2 DEF Requeue
  <2>5. CASE PullerRetires(l)
        BY <2>5 DEF PullerRetires, RetireLane, Requeue, path
  <2> QED BY <1>2, <2>1, <2>2, <2>3, <2>4, <2>5 DEF PullerStep
<1>3. ASSUME NEW l \in Lanes, LaneFails(l)
      PROVE  /\ Known' = Known /\ acked \subseteq acked'
             /\ \A c \in copies' : c.off \in Known
      BY <1>3 DEF LaneFails, RetireLane, Requeue, path
<1>4. ASSUME NEW c \in copies, Wrote(c)
      PROVE  /\ Known' = Known /\ acked \subseteq acked'
             /\ \A d \in copies' : d.off \in Known
  <2>1. [c EXCEPT !.stage = "written"].off = c.off
        BY DEF Shape, CopyRecords
  <2> QED BY <1>4, <2>1 DEF Wrote, Trim
<1>5. ASSUME NEW c \in copies, Deliver(c)
      PROVE  /\ Known' = Known /\ acked \subseteq acked'
             /\ \A d \in copies' : d.off \in Known
      BY <1>5 DEF Deliver, Trim
<1>6. ASSUME NEW o \in acked, Complete(o)
      PROVE  /\ Known' = Known /\ acked \subseteq acked'
             /\ \A c \in copies' : c.off \in Known
      BY <1>6 DEF Complete, RemovePending, path
<1>7. ASSUME NEW a \in attempts, DeadlinePasses(a)
      PROVE  /\ Known' = Known /\ acked \subseteq acked'
             /\ \A c \in copies' : c.off \in Known
      BY <1>7 DEF DeadlinePasses, path
<1>8. CASE ReissueExpired
  <2>1. PICK O \in SUBSET Carried : Requeue(O)
        BY <1>8 DEF ReissueExpired
  <2>2. UNCHANGED <<live, acked, copies>>
        BY <1>8 DEF ReissueExpired, path
  <2> QED BY <2>1, <2>2 DEF Carried, Requeue
<1>9. CASE EvidenceArrives
  <2>1. PICK O \in SUBSET Carried : Requeue(O)
        BY <1>9 DEF EvidenceArrives, ReissueUnacknowledgedBelow
  <2>2. UNCHANGED <<live, acked, copies>>
        BY <1>9 DEF EvidenceArrives, ReissueUnacknowledgedBelow, path
  <2> QED BY <2>1, <2>2 DEF Carried, Requeue
<1>10. CASE Cancel
       BY <1>10 DEF Cancel, path
<1>11. CASE Close
       BY <1>11 DEF Close
<1>12. CASE Terminated \/ UNCHANGED vars
       BY <1>12 DEF Terminated, vars, path
<1> QED BY <1>1, <1>2, <1>3, <1>4, <1>5, <1>6, <1>7, <1>8, <1>9, <1>10, <1>11, <1>12
        DEF Next, Work

\* What a Read adds: the bytes of one chunk, or an empty chunk at the end.
LEMMA ReadAdds ==
  ASSUME Shape, Order, Future, NEW n \in ReadSizes \cup {0}, NEW err \in ReadErrors,
         ProducerReads(n, err)
  PROVE  /\ size' = [size EXCEPT ![nextOffset] = n]
         /\ \A o \in Known : size'[o] = size[o]
         /\ size'[nextOffset] = n /\ size[nextOffset] = 0
         /\ \A o \in Offsets : nextOffset < o => size'[o] = 0
         /\ n > 0 => pending' = pending \cup {nextOffset}
         /\ n = 0 => pending' = pending \/ pending' = pending \cup {nextOffset}
         /\ UNCHANGED <<live, acked, copies, closed>>
<1>1. /\ n \in Nat /\ nextOffset \in Offsets /\ nextOffset \in Nat /\ ~eof
      /\ nextOffset + n \in Offsets
      /\ \A o \in Known : o \in Nat /\ o < nextOffset
  <2>1. nextOffset \in Offsets
        BY DEF Shape
  <2> QED BY <2>1, ReadsAbove DEF Known
<1>2. size' = [size EXCEPT ![nextOffset] = n] /\ size \in [Offsets -> Nat]
      BY DEF ProducerReads, Shape
<1>3. \A o \in Offsets : nextOffset <= o => size[o] = 0
      BY <1>1 DEF Future
<1>4. \A o \in Known : size'[o] = size[o]
  <2>1. \A o \in Known : o \in Offsets
        BY DEF Known, Shape
  <2> QED BY <1>1, <1>2, <2>1
<1>5. \A o \in Offsets : nextOffset < o => size'[o] = 0
  <2> SUFFICES ASSUME NEW o \in Offsets, nextOffset < o PROVE size'[o] = 0
      OBVIOUS
  <2>1. o \in Nat
        BY SchedulerConstants DEF Offsets
  <2>2. nextOffset <= o /\ o # nextOffset
        BY <1>1, <2>1
  <2> QED BY <1>2, <1>3, <2>2
<1>6. size'[nextOffset] = n /\ size[nextOffset] = 0
      BY <1>1, <1>2, <1>3
<1>7. n > 0 => EndingChunk(pending \cup {nextOffset}, [size EXCEPT ![nextOffset] = n], nextOffset + n) # {}
      BY <1>1, <1>2, <1>6 DEF EndingChunk
<1>8. n > 0 => pending' = pending \cup {nextOffset}
      BY <1>7 DEF ProducerReads
<1>9. n = 0 => pending' = pending \/ pending' = pending \cup {nextOffset}
  <2> SUFFICES ASSUME n = 0 PROVE pending' = pending \/ pending' = pending \cup {nextOffset}
      OBVIOUS
  <2>1. ~(n > 0) /\ nextOffset + n = nextOffset
        BY <1>1
  <2>2. pending' = pending \cup {} \/ pending' = (pending \cup {}) \cup {nextOffset + n}
        BY <2>1 DEF ProducerReads
  <2> QED BY <2>1, <2>2
<1> QED BY <1>2, <1>4, <1>5, <1>6, <1>8, <1>9 DEF ProducerReads, path

LEMMA FutureStep == Shape /\ Order /\ Future /\ [Next]_vars => Future'
<1> SUFFICES ASSUME Shape, Order, Future, [Next]_vars PROVE Future'
    OBVIOUS
<1>1. CASE UNCHANGED source
      BY <1>1 DEF source, Future
<1>2. CASE Reads
  <2>1. PICK n \in ReadSizes \cup {0}, err \in ReadErrors : ProducerReads(n, err)
        BY <1>2 DEF Reads
  <2>2. /\ n \in Nat /\ nextOffset \in Nat /\ nextOffset' = nextOffset + n
        BY <2>1, ReadsAbove
  <2>3. /\ \A o \in Offsets : nextOffset < o => size'[o] = 0
        /\ size'[nextOffset] = n
        BY <2>1, ReadAdds
  <2>4. ASSUME NEW o \in Offsets, nextOffset + n <= o PROVE size'[o] = 0
    <3>1. o \in Nat
          BY SchedulerConstants DEF Offsets
    <3>2. nextOffset < o \/ (o = nextOffset /\ n = 0)
          BY <2>2, <2>4, <3>1
    <3> QED BY <2>3, <3>2
  <2> QED BY <2>2, <2>4 DEF Future
<1> QED BY <1>1, <1>2, OnlyReads

LEMMA CoveredStep ==
  Shape /\ Tracking /\ Order /\ Future /\ Covered /\ [Next]_vars => Covered'
<1> SUFFICES ASSUME Shape, Tracking, Order, Future, Covered, [Next]_vars, ~closed'
             PROVE  Tiling'
    BY DEF Covered
<1>1. CASE ~Reads
  <2>1. ~closed
        BY <1>1 DEF Next, Work, vars, ProducerStep, ProducerChecks, ProducerAcquires, Reads,
             ProducerRefused, ProducerDiscards, PullerStep,
             StartPuller, NextReturns, NextTakes, NextDecidesToWait, NextWaits,
             SendSucceeds, SendFails, PullerRetires, LaneFails, Wrote, Deliver,
             Complete, DeadlinePasses, ReissueExpired, EvidenceArrives,
             ReissueUnacknowledgedBelow, Cancel, Close, Terminated
  <2>2. Tiling
        BY <2>1 DEF Covered
  <2>3. /\ Known' = Known
        /\ \A c \in copies' : c.off \in Known
        BY <1>1, <2>2, HandedOn DEF Tiling
  <2>4. UNCHANGED <<size, nextOffset>>
        BY <1>1, OnlyReads DEF source
  <2> QED BY <2>2, <2>3, <2>4 DEF Tiling, EndOf
<1>2. CASE Reads
  <2>1. PICK n \in ReadSizes \cup {0}, err \in ReadErrors : ProducerReads(n, err)
        BY <1>2 DEF Reads
  <2>2. /\ n \in Nat /\ nextOffset \in Nat /\ nextOffset' = nextOffset + n /\ ~closed
        /\ \A o \in Known : o \in Nat /\ o < nextOffset
        BY <2>1, ReadsAbove DEF Known
  <2>3. /\ \A o \in Known : size'[o] = size[o]
        /\ size'[nextOffset] = n
        /\ n > 0 => pending' = pending \cup {nextOffset}
        /\ n = 0 => pending' = pending \/ pending' = pending \cup {nextOffset}
        /\ UNCHANGED <<live, acked, copies>>
        BY <2>1, ReadAdds
  <2>4. Tiling
        BY <2>2 DEF Covered
  <2>5. \A o \in Known' : o \in Known \/ o = nextOffset
        BY <2>2, <2>3 DEF Known
  <2>6. Known \subseteq Known' /\ (n > 0 => nextOffset \in Known')
        BY <2>2, <2>3 DEF Known
  <2>7. \A o \in Known : EndOf(o)' = EndOf(o) /\ EndOf(o) <= nextOffset /\ EndOf(o) \in Nat
    <3>1. \A o \in Known : size[o] \in Nat
          BY DEF Shape, Known
    <3> QED BY <2>2, <2>3, <2>4, <3>1 DEF Tiling, EndOf
  <2> DEFINE end(o) == o + size'[o]
  <2>9. end(nextOffset) = nextOffset + n /\ \A o \in Known : end(o) = EndOf(o)
        BY <2>3 DEF EndOf
  <2> HIDE DEF end
  <2>10. \A o \in Known' : end(o) <= nextOffset'
         BY <2>2, <2>5, <2>7, <2>9
  <2>11. ASSUME NEW o \in Known', NEW p \in Known', o < p PROVE end(o) <= p
    <3>1. CASE o \in Known /\ p \in Known
          BY <3>1, <2>4, <2>9, <2>11 DEF Tiling
    <3>2. CASE o \in Known /\ p = nextOffset
          BY <3>2, <2>7, <2>9
    <3>3. CASE o = nextOffset
          BY <3>3, <2>2, <2>5, <2>11
    <3> QED BY <3>1, <3>2, <3>3, <2>5
  <2>12. ASSUME NEW b \in 0 .. nextOffset' - 1 PROVE \E o \in Known' : o <= b /\ b < end(o)
    <3>1. CASE b < nextOffset
      <4>1. b \in 0 .. nextOffset - 1
            BY <3>1, <2>2
      <4>2. PICK o \in Known : o <= b /\ b < EndOf(o)
            BY <4>1, <2>4 DEF Tiling
      <4> QED BY <4>2, <2>6, <2>9
    <3>2. CASE ~(b < nextOffset)
      <4>1. n > 0 /\ nextOffset <= b /\ b < nextOffset + n
            BY <3>2, <2>2
      <4> QED BY <4>1, <2>6, <2>9
    <3> QED BY <3>1, <3>2
  <2>13. \A c \in copies' : c.off \in Known'
         BY <2>3, <2>4, <2>6 DEF Tiling
  <2> QED BY <2>10, <2>11, <2>12, <2>13 DEF Tiling, EndOf, end
<1> QED BY <1>1, <1>2

\* Tiles cover every byte once.
LEMMA TilesHoldEveryByte == ASSUME Shape, Covered PROVE EveryByteHeldOrAcked
<1> SUFFICES ASSUME ~closed, NEW b \in 0 .. nextOffset - 1
             PROVE  \E o \in (live \cup pending \cup acked) :
                      /\ o <= b /\ b < EndOf(o)
                      /\ \A p \in live \cup pending : p # o => b < p \/ EndOf(p) <= b
    BY DEF EveryByteHeldOrAcked
<1>1. Tiling
      BY DEF Covered
<1>2. PICK o \in Known : o <= b /\ b < EndOf(o)
      BY <1>1 DEF Tiling
<1>3. \A p \in Known : p \in Nat /\ EndOf(p) \in Nat
      BY SchedulerConstants DEF Shape, Known, EndOf, Offsets
<1>4. b \in Nat
      BY SchedulerConstants DEF Shape, Offsets
<1>5. ASSUME NEW p \in Known, p # o PROVE b < p \/ EndOf(p) <= b
  <2>1. o < p \/ p < o
        BY <1>3, <1>5
  <2>2. CASE o < p
    <3>1. EndOf(o) <= p
          BY <1>1, <2>2 DEF Tiling
    <3> QED BY <3>1, <1>2, <1>3, <1>4
  <2>3. CASE p < o
    <3>1. EndOf(p) <= o
          BY <1>1, <2>3 DEF Tiling
    <3> QED BY <3>1, <1>2, <1>3, <1>4
  <2> QED BY <2>1, <2>2, <2>3
<1> QED BY <1>2, <1>5 DEF Known

-----------------------------------------------------------------------------
(* The end of the stream *)

LEMMA EndingFrame ==
  ASSUME Ending, UNCHANGED <<source, closed>>, finished' => finished, acked \subseteq acked',
         pending' \subseteq pending, live' \subseteq live
  PROVE  Ending'
<1>1. AllDelivered => AllDelivered'
      BY DEF AllDelivered, source, EndOf
<1> QED BY <1>1 DEF Ending, source, EndOf

LEMMA EndingStep ==
  Shape /\ Tracking /\ Order /\ Future /\ Covered /\ Covered' /\ Ending /\ [Next]_vars => Ending'
<1> SUFFICES ASSUME Shape, Tracking, Order, Future, Covered, Covered', Ending, [Next]_vars
             PROVE  Ending'
    OBVIOUS
<1>1. CASE Reads
  <2>1. PICK n \in ReadSizes \cup {0}, err \in ReadErrors : ProducerReads(n, err)
        BY <1>1 DEF Reads
  <2>2. /\ n \in Nat /\ nextOffset \in Nat /\ nextOffset' = nextOffset + n /\ ~closed /\ ~eof
        /\ nextOffset + n \in Offsets /\ nextOffset \in Offsets
        BY <2>1, ReadsAbove DEF Shape
  <2>3. closed' = closed /\ size'[nextOffset] = n
        /\ \A o \in Offsets : nextOffset < o => size'[o] = 0
        BY <2>1, ReadAdds
  <2>4. finished' => eof' /\ pending' = {} /\ live' = {}
        BY <2>1 DEF ProducerReads, NowDone
  <2>5. finished' => AllDelivered'
    <3>1. Tiling'
          BY <2>2, <2>3 DEF Covered
    <3> SUFFICES ASSUME finished' PROVE AllDelivered'
        OBVIOUS
    <3>2. pending' = {} /\ live' = {}
          BY <2>4
    <3> QED BY <3>1, <3>2 DEF Tiling, Known, AllDelivered
  <2>6. \A o \in final' : eof' /\ ~srcErr' /\ o + size'[o] = nextOffset'
    <3> SUFFICES ASSUME NEW o \in final' PROVE eof' /\ ~srcErr' /\ o + size'[o] = nextOffset'
        OBVIOUS
    <3>1. err = "eof" /\ eof' /\ ~srcErr'
          BY <2>1 DEF ProducerReads
    <3>2. \/ o \in EndingChunk(pending \cup (IF n > 0 THEN {nextOffset} ELSE {}), size', nextOffset + n)
          \/ o = nextOffset + n /\ n = 0
      <4>1. CASE final' = {nextOffset + n} /\ EndingChunk(pending \cup (IF n > 0 THEN {nextOffset} ELSE {}), size', nextOffset + n) = {}
        <5>1. n > 0 => nextOffset \in EndingChunk(pending \cup (IF n > 0 THEN {nextOffset} ELSE {}), size', nextOffset + n)
              BY <2>2, <2>3 DEF EndingChunk
        <5>2. n = 0
              BY <2>2, <4>1, <5>1
        <5> QED BY <4>1, <5>2
      <4>2. CASE final' = EndingChunk(pending \cup (IF n > 0 THEN {nextOffset} ELSE {}), size', nextOffset + n)
            BY <4>2
      <4> QED BY <2>1, <3>1, <4>1, <4>2 DEF ProducerReads
    <3>3. o + size'[o] = nextOffset'
      <4>1. CASE o \in EndingChunk(pending \cup (IF n > 0 THEN {nextOffset} ELSE {}), size', nextOffset + n)
            BY <4>1, <2>2 DEF EndingChunk
      <4>2. CASE o = nextOffset + n /\ n = 0
            BY <4>2, <2>2, <2>3
      <4> QED BY <3>2, <4>1, <4>2
    <3> QED BY <3>1, <3>3
  <2> QED BY <2>2, <2>3, <2>4, <2>5, <2>6 DEF Ending, EndOf
<1>2. CASE ~Reads
  <2>1. CASE ProducerStep
        BY <1>2, <2>1, EndingFrame DEF ProducerStep, ProducerChecks, ProducerAcquires, ProducerRefused,
             ProducerDiscards, Reads, path
  <2>2. ASSUME NEW l \in Lanes, PullerStep(l) PROVE Ending'
    <3>1. CASE NextTakes(l)
      <4>1. PICK o \in Takeable(l) : pending' = pending \ {o} /\ live' = live \cup {o}
            BY <3>1 DEF NextTakes
      <4>2. o \in pending
            BY DEF Takeable
      <4>3. ~closed /\ ~finished /\ UNCHANGED <<source, closed, finished, acked>>
            BY <3>1, <4>2 DEF NextTakes, Ending
      <4> QED BY <4>3 DEF Ending, source, EndOf
    <3>2. CASE StartPuller(l) \/ NextReturns(l) \/ NextDecidesToWait(l) \/ NextWaits(l)
          BY <3>2, EndingFrame DEF StartPuller, NextReturns, NextDecidesToWait, NextWaits, path
    <3>3. CASE SendSucceeds(l)
          BY <3>3, EndingFrame DEF SendSucceeds
    <3>4. CASE SendFails(l)
      <4>1. PICK c \in copies :
              /\ Requeue(IF AttemptOf(c) # {} /\ AttemptsOf(c.off) = AttemptOf(c)
                          THEN {c.off} ELSE {})
              /\ UNCHANGED <<source, live, acked, closed, finished>>
            BY <3>4 DEF SendFails
      <4>2. AttemptOf(c) # {} => c.off \in live
            BY DEF AttemptOf, AttemptsOf, Tracking, AttemptsAreLive
      <4>3. PICK O \in SUBSET live : Requeue(O)
            BY <4>1, <4>2
      <4> QED BY <4>1, <4>3 DEF Ending, Requeue, source, EndOf, AllDelivered
    <3>5. CASE PullerRetires(l)
      <4>1. PICK O \in SUBSET live : Requeue(O)
            BY <3>5 DEF PullerRetires, RetireLane
      <4>2. UNCHANGED <<source, live, acked, closed, finished>>
            BY <3>5 DEF PullerRetires, path
      <4> QED BY <4>1, <4>2 DEF Ending, Requeue, source, EndOf, AllDelivered
    <3> QED BY <2>2, <3>1, <3>2, <3>3, <3>4, <3>5 DEF PullerStep
  <2>3. ASSUME NEW l \in Lanes, LaneFails(l) PROVE Ending'
    <3>1. PICK O \in SUBSET live : Requeue(O)
          BY <2>3 DEF LaneFails, RetireLane
    <3>2. UNCHANGED <<source, live, acked, closed, finished>>
          BY <2>3 DEF LaneFails, path
    <3> QED BY <3>1, <3>2 DEF Ending, Requeue, source, EndOf, AllDelivered
  <2>4. ASSUME NEW c \in copies, Wrote(c) PROVE Ending'
        BY <2>4, EndingFrame DEF Wrote
  <2>5. ASSUME NEW c \in copies, Deliver(c) PROVE Ending'
        BY <2>5, EndingFrame DEF Deliver
  <2>6. ASSUME NEW o \in acked, Complete(o) PROVE Ending'
    <3>1. UNCHANGED <<source, acked, closed>> /\ ~closed
          BY <2>6 DEF Complete, path, Ending
    <3>2. pending' \subseteq pending /\ live' \subseteq live
          BY <2>6 DEF Complete, RemovePending
    <3>3. finished' => finished \/ NowDone
          BY <2>6 DEF Complete
    <3>4. CASE finished' => finished
          BY <3>1, <3>2, <3>4, EndingFrame
    <3>5. CASE NowDone
      <4>1. Tiling'
            BY <3>1 DEF Covered
      <4>2. AllDelivered'
            BY <3>5, <4>1 DEF Tiling, Known, AllDelivered, NowDone
      <4> QED BY <3>1, <3>5, <4>2 DEF NowDone, Ending, source, EndOf
    <3> QED BY <3>3, <3>4, <3>5
  <2>7. ASSUME NEW a \in attempts, DeadlinePasses(a) PROVE Ending'
        BY <2>7, EndingFrame DEF DeadlinePasses, path
  <2>8. CASE ReissueExpired
    <3>1. PICK O \in SUBSET Carried : Requeue(O)
          BY <2>8 DEF ReissueExpired
    <3>2. UNCHANGED <<source, live, acked, closed, finished>>
          BY <2>8 DEF ReissueExpired, path
    <3> QED BY <3>1, <3>2 DEF Carried, Ending, Requeue, source, EndOf, AllDelivered
  <2>9. CASE EvidenceArrives
    <3>1. PICK O \in SUBSET Carried : Requeue(O)
          BY <2>9 DEF EvidenceArrives, ReissueUnacknowledgedBelow
    <3>2. UNCHANGED <<source, live, acked, closed, finished>>
          BY <2>9 DEF EvidenceArrives, ReissueUnacknowledgedBelow, path
    <3> QED BY <3>1, <3>2 DEF Carried, Ending, Requeue, source, EndOf, AllDelivered
  <2>10. CASE Cancel
         BY <2>10, EndingFrame DEF Cancel, path
  <2>11. CASE Close
         BY <2>11 DEF Close, Ending, source, path, EndOf, AllDelivered
  <2>12. CASE Terminated \/ UNCHANGED vars
         BY <2>12, EndingFrame DEF Terminated, vars, path
  <2> QED BY <1>2, <2>1, <2>2, <2>3, <2>4, <2>5, <2>6, <2>7, <2>8, <2>9, <2>10, <2>11, <2>12
          DEF Next, Work
<1> QED BY <1>1, <1>2

LEMMA EndingIsDelivery == ASSUME Ending PROVE DoneMeansDelivered
BY DEF Ending, AllDelivered, DoneMeansDelivered

-----------------------------------------------------------------------------
(* The rest of the types, and the custody of the memory *)

ProducerStages == {"checking", "parked", "acquiring", "reading", "exited"}
PullerStages   == {"absent", "asking", "parking", "parked", "sending", "retiring", "exited"}

Kinds ==
  /\ final \subseteq Offsets
  /\ srcErr \in BOOLEAN /\ finished \in BOOLEAN /\ cancelled \in BOOLEAN
  /\ producer \in ProducerStages
  /\ puller \in [Lanes -> PullerStages]
  /\ dead \subseteq MortalLanes

LEMMA BroadcastType ==
  ASSUME NEW p \in [Lanes -> PullerStages] PROVE Broadcast(p) \in [Lanes -> PullerStages]
BY DEF Broadcast, PullerStages

LEMMA KindsStep == Shape /\ Order /\ Kinds /\ [Next]_vars => Kinds'
<1> SUFFICES ASSUME Shape, Order, Kinds, [Next]_vars PROVE Kinds'
    OBVIOUS
<1>0. Broadcast(puller) \in [Lanes -> PullerStages]
      BY BroadcastType DEF Kinds
<1>1. final' \subseteq Offsets /\ srcErr' \in BOOLEAN
  <2>1. CASE UNCHANGED source
        BY <2>1 DEF source, Kinds
  <2>2. CASE Reads
    <3>1. PICK n \in ReadSizes \cup {0}, err \in ReadErrors : ProducerReads(n, err)
          BY <2>2 DEF Reads
    <3>2. nextOffset \in Offsets /\ nextOffset + n \in Offsets /\ pending \subseteq Offsets
          BY <3>1, ReadsAbove DEF Shape
    <3>3. final' \subseteq pending \cup {nextOffset, nextOffset + n}
          BY <3>1 DEF ProducerReads, EndingChunk
    <3>4. srcErr' \in BOOLEAN
          BY <3>1 DEF ProducerReads
    <3> QED BY <3>2, <3>3, <3>4
  <2> QED BY <2>1, <2>2, OnlyReads
<1>2. finished' \in BOOLEAN /\ cancelled' \in BOOLEAN
  <2>1. CASE Reads
    <3>1. PICK n \in ReadSizes \cup {0}, err \in ReadErrors : ProducerReads(n, err)
          BY <2>1 DEF Reads
    <3>2. finished' = (err # "nil" /\ NowDone) /\ cancelled' = cancelled
          BY <3>1 DEF ProducerReads
    <3> QED BY <3>2 DEF Kinds
  <2>2. ASSUME NEW o \in acked, Complete(o) PROVE finished' \in BOOLEAN /\ cancelled' \in BOOLEAN
    <3>1. finished' = (finished \/ NowDone) /\ cancelled' = cancelled
          BY <2>2 DEF Complete
    <3> QED BY <3>1 DEF Kinds
  <2>3. Reads \/ (\E o \in acked : Complete(o)) \/ (finished' = finished /\ cancelled' \in {cancelled, TRUE})
        BY DEF Next, Work, vars, ProducerStep, ProducerChecks, ProducerAcquires, Reads,
           ProducerRefused, ProducerDiscards, PullerStep,
           StartPuller, NextReturns, NextTakes, NextDecidesToWait, NextWaits,
           SendSucceeds, SendFails, PullerRetires, LaneFails, Wrote, Deliver,
           DeadlinePasses, ReissueExpired, EvidenceArrives,
           ReissueUnacknowledgedBelow, Cancel, Close, Terminated
  <2> QED BY <2>1, <2>2, <2>3 DEF Kinds
<1>3. producer' \in ProducerStages
  <2>1. CASE ProducerStep
        BY <2>1 DEF ProducerStep, ProducerChecks, ProducerAcquires, ProducerReads,
                    ProducerRefused, ProducerDiscards, ProducerStages
  <2>2. CASE UNCHANGED producer \/ WakeProducer
        BY <2>2 DEF WakeProducer, Kinds, ProducerStages
  <2>3. ProducerStep \/ UNCHANGED producer \/ WakeProducer
        BY DEF Next, Work, vars, PullerStep,
           StartPuller, NextReturns, NextTakes, NextDecidesToWait, NextWaits,
           SendSucceeds, SendFails, PullerRetires, LaneFails, Wrote, Deliver,
           Complete, DeadlinePasses, ReissueExpired, EvidenceArrives,
           ReissueUnacknowledgedBelow, Cancel, Close, Terminated
  <2> QED BY <2>1, <2>2, <2>3
<1>4. dead' \subseteq MortalLanes
      BY DEF Next, Work, vars, ProducerStep, ProducerChecks, ProducerAcquires, ProducerReads,
       ProducerRefused, ProducerDiscards, PullerStep, Kinds,
       StartPuller, NextReturns, NextTakes, NextDecidesToWait, NextWaits,
       SendSucceeds, SendFails, PullerRetires, LaneFails, Wrote, Deliver,
       Complete, DeadlinePasses, ReissueExpired, EvidenceArrives,
       ReissueUnacknowledgedBelow, Cancel, Close, Terminated
<1>5. puller' \in [Lanes -> PullerStages]
  <2>1. \/ puller' = puller \/ puller' = Broadcast(puller)
        \/ \E l \in Lanes, s \in PullerStages :
             puller' = [puller EXCEPT ![l] = s] \/ puller' = [Broadcast(puller) EXCEPT ![l] = s]
    <3>1. CASE ProducerStep
          BY <3>1 DEF ProducerStep, ProducerChecks, ProducerAcquires, ProducerReads,
                      ProducerRefused, ProducerDiscards, WakeLanes
    <3>2. ASSUME NEW l \in Lanes, PullerStep(l)
          PROVE  \E s \in PullerStages :
             puller' = [puller EXCEPT ![l] = s] \/ puller' = [Broadcast(puller) EXCEPT ![l] = s]
      <4>1. CASE SendFails(l)
            BY <4>1 DEF SendFails, PullerStages
      <4>2. CASE SendSucceeds(l)
            BY <4>2 DEF SendSucceeds, PullerStages
      <4>3. CASE StartPuller(l) \/ NextReturns(l) \/ NextDecidesToWait(l) \/ NextWaits(l)
            BY <4>3 DEF StartPuller, NextReturns, NextDecidesToWait, NextWaits, PullerStages
      <4>4. CASE NextTakes(l)
            BY <4>4 DEF NextTakes, PullerStages
      <4>5. CASE PullerRetires(l)
            BY <4>5 DEF PullerRetires, PullerStages
      <4> QED BY <3>2, <4>1, <4>2, <4>3, <4>4, <4>5 DEF PullerStep
    <3>3. CASE UNCHANGED puller \/ WakeLanes
          BY <3>3 DEF WakeLanes
    <3>4. CASE ReissueExpired
          BY <3>4 DEF ReissueExpired
    <3>5. CASE EvidenceArrives
          BY <3>5 DEF EvidenceArrives, ReissueUnacknowledgedBelow
    <3>6. ASSUME NEW c \in copies, Wrote(c) PROVE puller' = puller \/ puller' = Broadcast(puller)
          BY <3>6 DEF Wrote
    <3>7. \/ ProducerStep \/ (\E l \in Lanes : PullerStep(l)) \/ ReissueExpired \/ EvidenceArrives
          \/ (\E c \in copies : Wrote(c)) \/ UNCHANGED puller \/ WakeLanes
          BY DEF Next, Work, vars, LaneFails, Deliver, Complete, DeadlinePasses, Cancel, Close,
                 Terminated
    <3> QED BY <3>1, <3>2, <3>3, <3>4, <3>5, <3>6, <3>7
  <2> QED BY <1>0, <2>1 DEF Kinds
<1> QED BY <1>1, <1>2, <1>3, <1>4, <1>5 DEF Kinds

\* One reservation per retained data chunk, and one in the producer's hand.
Custody ==
  /\ charged = {o \in live \cup pending : size[o] > 0}
  /\ reserved = Cardinality(charged) + (IF producer = "reading" THEN 1 ELSE 0)
  /\ reserved <= MemUnits

LEMMA OffsetsFinite ==
  /\ IsFiniteSet(Offsets)
  /\ \A S \in SUBSET Offsets : IsFiniteSet(S) /\ Cardinality(S) \in Nat
<1>1. IsFiniteSet(Offsets)
      BY FS_Interval, SchedulerConstants DEF Offsets
<1> QED BY <1>1, FS_Subset, FS_CardinalityType

\* A step that neither holds nor lets go of a chunk leaves the custody as it is.
LEMMA CustodyFrame ==
  ASSUME Custody, live' \cup pending' = live \cup pending, UNCHANGED <<size, charged, reserved>>,
         (producer' = "reading") <=> (producer = "reading")
  PROVE  Custody'
BY DEF Custody

\* Chunks let go take their reservations along.
LEMMA CustodyReleased ==
  ASSUME Shape, Custody, NEW O \in SUBSET Offsets, ReleaseChunks(O), size' = size,
         live' \cup pending' = (live \cup pending) \ O,
         (producer' = "reading") <=> (producer = "reading")
  PROVE  Custody'
<1>1. charged \subseteq Offsets /\ charged \cap O \in SUBSET charged
      BY DEF Custody, Shape
<1>2. charged' = charged \ O /\ reserved' = reserved - Cardinality(charged \cap O)
      BY DEF ReleaseChunks
<1>3. charged \ O = charged \ (charged \cap O)
      OBVIOUS
<1> DEFINE held == Cardinality(charged)
           gone == Cardinality(charged \cap O)
           left == Cardinality(charged \ O)
           hand == IF producer = "reading" THEN 1 ELSE 0
<1>4. held \in Nat /\ gone \in Nat /\ left \in Nat /\ left = held - gone
  <2>1. IsFiniteSet(charged)
        BY <1>1, OffsetsFinite
  <2>2. IsFiniteSet(charged \cap O) /\ IsFiniteSet(charged \ O)
        BY <2>1, <1>1, FS_Subset
  <2>3. charged \cap (charged \cap O) = charged \cap O
        OBVIOUS
  <2>4. Cardinality(charged \ (charged \cap O)) = Cardinality(charged) - Cardinality(charged \cap O)
        BY <2>1, <2>2, <2>3, FS_Difference
  <2> QED BY <1>3, <2>1, <2>2, <2>4, FS_CardinalityType
<1>5. reserved = held + hand /\ hand \in Nat /\ reserved <= MemUnits
      BY DEF Custody
<1>6. reserved' = reserved - gone
      BY <1>2
<1>7. charged' = {o \in live' \cup pending' : size'[o] > 0}
      BY <1>2 DEF Custody
<1>8. hand' = hand /\ Cardinality(charged') = left
      BY <1>2
<1> HIDE DEF held, gone, left, hand
<1>9. reserved' = left + hand /\ reserved' <= MemUnits
      BY <1>4, <1>5, <1>6, SchedulerConstants
<1> QED BY <1>7, <1>8, <1>9 DEF Custody, hand

Held == live \cup pending

\* Apart from the producer's steps only Complete and Close change what is held.
LEMMA HeldStep ==
  ASSUME Shape, Tracking, [Next]_vars, ~ProducerStep
  PROVE  \/ Held' = Held /\ UNCHANGED <<memory, size, closed, producer>>
         \/ \E l \in Lanes : NextTakes(l) /\ Held' = Held
         \/ \E o \in acked : Complete(o)
         \/ Close
<1>2. ASSUME NEW l \in Lanes, PullerStep(l)
      PROVE  \/ Held' = Held /\ UNCHANGED <<memory, size, closed, producer>>
             \/ NextTakes(l) /\ Held' = Held
  <2>1. CASE NextTakes(l)
    <3>1. PICK o \in Takeable(l) : pending' = pending \ {o} /\ live' = live \cup {o}
          BY <2>1 DEF NextTakes
    <3>2. Held' = Held
          BY <3>1 DEF Takeable, Held
    <3> QED BY <2>1, <3>2
  <2>2. CASE StartPuller(l) \/ NextReturns(l) \/ NextDecidesToWait(l) \/ NextWaits(l)
        BY <2>2 DEF StartPuller, NextReturns, NextDecidesToWait, NextWaits, source, Held
  <2>3. CASE SendSucceeds(l)
        BY <2>3 DEF SendSucceeds, source, Held
  <2>4. CASE SendFails(l)
    <3>1. PICK c \in copies :
            /\ Requeue(IF AttemptOf(c) # {} /\ AttemptsOf(c.off) = AttemptOf(c)
                        THEN {c.off} ELSE {})
            /\ UNCHANGED <<live, memory, source, closed, producer>>
          BY <2>4 DEF SendFails
    <3>2. AttemptOf(c) # {} => c.off \in live
          BY DEF AttemptOf, AttemptsOf, Tracking, AttemptsAreLive
    <3>3. Held' = Held
          BY <3>1, <3>2 DEF Requeue, Held
    <3> QED BY <3>1, <3>3 DEF source
  <2>5. CASE PullerRetires(l)
        BY <2>5 DEF PullerRetires, RetireLane, Requeue, source, Held
  <2> QED BY <1>2, <2>1, <2>2, <2>3, <2>4, <2>5 DEF PullerStep
<1>3. ASSUME NEW l \in Lanes, LaneFails(l)
      PROVE  Held' = Held /\ UNCHANGED <<memory, size, closed, producer>>
      BY <1>3 DEF LaneFails, RetireLane, Requeue, source, Held
<1>4. ASSUME NEW c \in copies, Wrote(c) \/ Deliver(c)
      PROVE  Held' = Held /\ UNCHANGED <<memory, size, closed, producer>>
      BY <1>4 DEF Wrote, Deliver, source, Held
<1>7. ASSUME NEW a \in attempts, DeadlinePasses(a)
      PROVE  Held' = Held /\ UNCHANGED <<memory, size, closed, producer>>
      BY <1>7 DEF DeadlinePasses, source, Held
<1>8. CASE ReissueExpired
  <2>1. PICK O \in SUBSET Carried : Requeue(O)
        BY <1>8 DEF ReissueExpired
  <2>2. UNCHANGED <<live, memory, source, closed, producer>>
        BY <1>8 DEF ReissueExpired
  <2> QED BY <2>1, <2>2 DEF Carried, Requeue, source, Held
<1>9. CASE EvidenceArrives
  <2>1. PICK O \in SUBSET Carried : Requeue(O)
        BY <1>9 DEF EvidenceArrives, ReissueUnacknowledgedBelow
  <2>2. UNCHANGED <<live, memory, source, closed, producer>>
        BY <1>9 DEF EvidenceArrives, ReissueUnacknowledgedBelow
  <2> QED BY <2>1, <2>2 DEF Carried, Requeue, source, Held
<1>10. CASE Cancel
       BY <1>10 DEF Cancel, source, Held
<1>12. CASE Terminated \/ UNCHANGED vars
       BY <1>12 DEF Terminated, vars, source, Held
<1> QED BY <1>2, <1>3, <1>4, <1>7, <1>8, <1>9, <1>10, <1>12 DEF Next, Work

LEMMA CustodyStep ==
  Shape /\ Tracking /\ Order /\ Future /\ Custody /\ [Next]_vars => Custody'
<1> SUFFICES ASSUME Shape, Tracking, Order, Future, Custody, [Next]_vars PROVE Custody'
    OBVIOUS
<1>0. MemUnits \in Nat /\ reserved \in Nat /\ charged \subseteq Offsets
      /\ IsFiniteSet(charged) /\ Cardinality(charged) \in Nat
  <2>1. charged \subseteq Offsets
        BY DEF Custody, Shape
  <2>2. IsFiniteSet(charged) /\ Cardinality(charged) \in Nat
        BY <2>1, OffsetsFinite
  <2> QED BY <2>1, <2>2, SchedulerConstants DEF Custody
<1>1. CASE ProducerStep
  <2>1. CASE ProducerChecks
    <3>1. (producer' = "reading") <=> (producer = "reading")
          BY <2>1 DEF ProducerChecks
    <3> QED BY <2>1, <3>1, CustodyFrame DEF ProducerChecks, source, memory
  <2>2. CASE ProducerAcquires
    <3>1. charged' = {o \in live' \cup pending' : size'[o] > 0} /\ charged' = charged
          BY <2>2 DEF ProducerAcquires, source, Custody
    <3>2. reserved' = reserved + 1 /\ reserved < MemUnits /\ producer = "acquiring"
          /\ producer' = "reading"
          BY <2>2 DEF ProducerAcquires
    <3>3. reserved = Cardinality(charged)
          BY <1>0, <3>2 DEF Custody
    <3> QED BY <1>0, <3>1, <3>2, <3>3 DEF Custody
  <2>3. CASE ProducerRefused
    <3>1. (producer' = "reading") <=> (producer = "reading")
          BY <2>3 DEF ProducerRefused
    <3> QED BY <2>3, <3>1, CustodyFrame DEF ProducerRefused, source, memory
  <2>4. CASE ProducerDiscards
    <3>1. charged' = {o \in live' \cup pending' : size'[o] > 0} /\ charged' = charged
          BY <2>4 DEF ProducerDiscards, source, Custody
    <3>2. reserved' = reserved - 1 /\ producer = "reading" /\ producer' = "exited"
          BY <2>4 DEF ProducerDiscards
    <3>3. reserved = Cardinality(charged) + 1 /\ reserved <= MemUnits
          BY <3>2 DEF Custody
    <3>4. reserved' = Cardinality(charged) /\ reserved' <= MemUnits
          BY <1>0, <3>2, <3>3
    <3>5. reserved' = Cardinality(charged') + 0 /\ producer' # "reading"
          BY <1>0, <3>1, <3>2, <3>4
    <3> QED BY <3>1, <3>4, <3>5 DEF Custody
  <2>5. CASE Reads
    <3>1. PICK n \in ReadSizes \cup {0}, err \in ReadErrors : ProducerReads(n, err)
          BY <2>5 DEF Reads
    <3>2. /\ n \in Nat /\ nextOffset \in Nat /\ producer = "reading"
          /\ \A o \in Held : o \in Nat /\ o < nextOffset
          BY <3>1, ReadsAbove DEF Held
    <3>3. /\ \A o \in Held : size'[o] = size[o]
          /\ size'[nextOffset] = n
          /\ n > 0 => pending' = pending \cup {nextOffset}
          /\ n = 0 => pending' = pending \/ pending' = pending \cup {nextOffset}
          /\ UNCHANGED live
          BY <3>1, ReadAdds DEF Held, Known
    <3>4. producer' # "reading" /\ charged' = charged \cup (IF n > 0 THEN {nextOffset} ELSE {})
          /\ reserved' = reserved - (IF n > 0 THEN 0 ELSE 1)
          BY <3>1 DEF ProducerReads
    <3>5. nextOffset \notin Held /\ charged \subseteq Held
          BY <3>2 DEF Custody, Held
    <3>6. charged' = {o \in live' \cup pending' : size'[o] > 0}
      <4>1. CASE n > 0
            BY <4>1, <3>3, <3>4, <3>5 DEF Custody, Held
      <4>2. CASE n = 0
            BY <4>2, <3>3, <3>4, <3>5 DEF Custody, Held
      <4> QED BY <3>2, <4>1, <4>2
    <3>7. Cardinality(charged') = Cardinality(charged) + (IF n > 0 THEN 1 ELSE 0)
      <4>1. CASE n > 0
            BY <4>1, <3>4, <3>5, <1>0, FS_AddElement
      <4>2. CASE n = 0
        <5>1. charged' = charged /\ ~(n > 0)
              BY <4>2, <3>4
        <5> QED BY <5>1, <1>0
      <4> QED BY <3>2, <4>1, <4>2
    <3>8. reserved = Cardinality(charged) + 1 /\ reserved <= MemUnits
          BY <3>2 DEF Custody
    <3>9. reserved' = Cardinality(charged') /\ reserved' <= MemUnits
          BY <1>0, <3>2, <3>4, <3>7, <3>8
    <3>10. Cardinality(charged') \in Nat
           BY <1>0, <3>7
    <3> QED BY <3>4, <3>6, <3>9, <3>10 DEF Custody
  <2> QED BY <1>1, <2>1, <2>2, <2>3, <2>4, <2>5 DEF ProducerStep, Reads
<1>2. CASE Held' = Held /\ UNCHANGED <<memory, size, closed, producer>>
      BY <1>2, CustodyFrame DEF Held, memory
<1>3. ASSUME NEW l \in Lanes, NextTakes(l), Held' = Held PROVE Custody'
  <2>1. (producer' = "reading") <=> (producer = "reading")
        BY <1>3 DEF NextTakes, WakeProducer
  <2>2. UNCHANGED <<size, charged, reserved>>
        BY <1>3 DEF NextTakes, source, memory
  <2> QED BY <1>3, <2>1, <2>2, CustodyFrame DEF Held
<1>4. ASSUME NEW o \in acked, Complete(o) PROVE Custody'
  <2>1. (producer' = "reading") <=> (producer = "reading")
        BY <1>4 DEF Complete, WakeProducer
  <2>2. ReleaseChunks({o}) /\ size' = size /\ live' \cup pending' = (live \cup pending) \ {o}
        BY <1>4 DEF Complete, RemovePending, source
  <2>3. {o} \in SUBSET Offsets
        BY DEF Shape
  <2> QED BY <2>1, <2>2, <2>3, CustodyReleased
<1>5. CASE Close
  <2>1. (producer' = "reading") <=> (producer = "reading")
        BY <1>5 DEF Close, WakeProducer
  <2>2. ReleaseChunks(pending \cup live) /\ size' = size
        /\ live' \cup pending' = (live \cup pending) \ (pending \cup live)
        BY <1>5 DEF Close, source
  <2>3. pending \cup live \in SUBSET Offsets
        BY DEF Shape
  <2> QED BY <2>1, <2>2, <2>3, CustodyReleased
<1> QED BY <1>1, <1>2, <1>3, <1>4, <1>5, HeldStep

-----------------------------------------------------------------------------
(* The bytes of attempts *)

\* Bytes, for any size of the chunks.
BytesOf(sz, S) == SumFunction([a \in S |-> sz[a.off]])

Sizes == [Offsets -> Nat]

Weights(sz) == [a \in AttemptRecords |-> sz[a.off]]

\* Attempts that may be summed up.
Group(S) == S \subseteq AttemptRecords /\ IsFiniteSet(S)

LEMMA GroupSubset ==
  ASSUME NEW S, Group(S), NEW T \in SUBSET S
  PROVE  Group(T) /\ Group(S \ T)
BY FS_Subset DEF Group

LEMMA BytesAreSums ==
  ASSUME NEW sz \in Sizes, NEW S, Group(S)
  PROVE  /\ \A a \in S : Weights(sz)[a] \in Nat /\ Weights(sz)[a] = sz[a.off]
         /\ BytesOf(sz, S) = SumFunctionOnSet(Weights(sz), S)
         /\ BytesOf(sz, S) \in Nat
<1> DEFINE w == Weights(sz)
           own == [a \in S |-> sz[a.off]]
<1>1. \A a \in S : w[a] \in Nat /\ w[a] = sz[a.off] /\ own[a] = w[a]
      BY DEF Weights, Sizes, Group, AttemptRecords
<1>2. DOMAIN own = S
      OBVIOUS
<1>3. BytesOf(sz, S) = SumFunctionOnSet(own, S)
      BY <1>2 DEF BytesOf, SumFunction
<1> HIDE DEF w, own
<1>4. SumFunctionOnSet(own, S) = SumFunctionOnSet(w, S)
      BY <1>1, SumSame DEF Group
<1>5. SumFunctionOnSet(w, S) \in Nat
      BY <1>1, SumType DEF Group
<1> QED BY <1>1, <1>3, <1>4, <1>5 DEF w

LEMMA BytesOfNone ==
  ASSUME NEW sz \in Sizes PROVE BytesOf(sz, {}) = 0 /\ Group({})
BY BytesAreSums, SumEmpty, FS_EmptySet DEF Group

LEMMA BytesLess ==
  ASSUME NEW sz \in Sizes, NEW S, Group(S), NEW T \in SUBSET S
  PROVE  /\ BytesOf(sz, S) \in Nat /\ BytesOf(sz, T) \in Nat
         /\ BytesOf(sz, T) <= BytesOf(sz, S)
         /\ BytesOf(sz, S \ T) = BytesOf(sz, S) - BytesOf(sz, T)
<1>1. Group(T) /\ Group(S \ T)
      BY GroupSubset
<1> DEFINE w == Weights(sz)
<1>2. \A a \in S : w[a] \in Nat
      BY BytesAreSums
<1>3. BytesOf(sz, S) = SumFunctionOnSet(w, S) /\ BytesOf(sz, S) \in Nat
      BY BytesAreSums
<1>4. BytesOf(sz, T) = SumFunctionOnSet(w, T) /\ BytesOf(sz, T) \in Nat
      BY <1>1, BytesAreSums
<1>5. BytesOf(sz, S \ T) = SumFunctionOnSet(w, S \ T)
      BY <1>1, BytesAreSums
<1>6. IsFiniteSet(S)
      BY DEF Group
<1> HIDE DEF w
<1>7. SumFunctionOnSet(w, T) <= SumFunctionOnSet(w, S)
      /\ SumFunctionOnSet(w, S \ T) = SumFunctionOnSet(w, S) - SumFunctionOnSet(w, T)
      BY <1>2, <1>6, SumDifference
<1> QED BY <1>3, <1>4, <1>5, <1>7

LEMMA BytesMore ==
  ASSUME NEW sz \in Sizes, NEW S, Group(S), NEW a \in AttemptRecords, a \notin S
  PROVE  /\ Group(S \cup {a}) /\ BytesOf(sz, S) \in Nat /\ sz[a.off] \in Nat
         /\ BytesOf(sz, S \cup {a}) = BytesOf(sz, S) + sz[a.off]
         /\ Cardinality(S \cup {a}) = Cardinality(S) + 1 /\ Cardinality(S) \in Nat
<1>1. Group(S \cup {a}) /\ Cardinality(S \cup {a}) = Cardinality(S) + 1 /\ Cardinality(S) \in Nat
      BY FS_AddElement, FS_CardinalityType DEF Group
<1> DEFINE w == Weights(sz)
<1>2. \A b \in S \cup {a} : w[b] \in Nat /\ w[b] = sz[b.off]
      BY <1>1, BytesAreSums
<1>3. BytesOf(sz, S) = SumFunctionOnSet(w, S) /\ BytesOf(sz, S) \in Nat
      BY BytesAreSums
<1>4. BytesOf(sz, S \cup {a}) = SumFunctionOnSet(w, S \cup {a})
      BY <1>1, BytesAreSums
<1>5. IsFiniteSet(S)
      BY DEF Group
<1> HIDE DEF w
<1>6. SumFunctionOnSet(w, S \cup {a}) = SumFunctionOnSet(w, S) + w[a]
      BY <1>2, <1>5, SumAdd
<1> QED BY <1>1, <1>2, <1>3, <1>4, <1>6

\* Marks that keep the chunks of attempts keep their number and their bytes.
LEMMA BytesMarked ==
  ASSUME NEW sz \in Sizes, NEW S, Group(S), NEW m,
         \A a \in S : m[a] \in AttemptRecords /\ m[a].off = a.off,
         \A a, b \in S : m[a] = m[b] => a = b
  PROVE  /\ Group({m[a] : a \in S})
         /\ BytesOf(sz, {m[a] : a \in S}) = BytesOf(sz, S)
         /\ Cardinality({m[a] : a \in S}) = Cardinality(S)
<1> DEFINE w == Weights(sz)
           T == {m[a] : a \in S}
<1>1. \A a \in S : w[a] \in Nat /\ w[m[a]] = w[a]
      BY DEF Weights, Sizes, Group, AttemptRecords
<1>2. BytesOf(sz, S) = SumFunctionOnSet(w, S)
      BY BytesAreSums
<1>3. T \subseteq AttemptRecords
      OBVIOUS
<1>0. IsFiniteSet(S)
      BY DEF Group
<1>9. \A x \in S : w[x] \in Nat /\ w[m[x]] = w[x]
      BY <1>1
<1>7. \A x, y \in S : m[x] = m[y] => x = y
      OBVIOUS
<1>8. T = {m[x] : x \in S}
      OBVIOUS
<1> HIDE DEF w, T
<1>10. IsFiniteSet(T) /\ Cardinality(T) = Cardinality(S)
      BY <1>0, <1>7, <1>8, ImageSize
<1>4. SumFunctionOnSet(w, T) = SumFunctionOnSet(w, S)
      BY <1>0, <1>9, <1>7, <1>8, SumImage
<1>5. Group(T)
      BY <1>3, <1>10 DEF Group
<1>6. BytesOf(sz, T) = SumFunctionOnSet(w, T)
      BY <1>5, BytesAreSums DEF w
<1> QED BY <1>2, <1>4, <1>5, <1>6, <1>10 DEF T

LEMMA BytesResized ==
  ASSUME NEW sz \in Sizes, NEW tz \in Sizes, NEW S, Group(S), \A a \in S : tz[a.off] = sz[a.off]
  PROVE  BytesOf(tz, S) = BytesOf(sz, S)
<1> DEFINE w == Weights(sz)
           v == Weights(tz)
<1>1. \A a \in S : w[a] \in Nat /\ v[a] = w[a]
      BY BytesAreSums
<1>2. BytesOf(sz, S) = SumFunctionOnSet(w, S) /\ BytesOf(tz, S) = SumFunctionOnSet(v, S)
      BY BytesAreSums
<1> HIDE DEF w, v
<1> QED BY <1>1, <1>2, SumSame DEF Group

\* The bytes of the lanes add up to those of all.
LEMMA BytesByLane ==
  ASSUME NEW sz \in Sizes, NEW S, Group(S)
  PROVE  SumFunction([l \in Lanes |-> BytesOf(sz, On(l, S))]) = BytesOf(sz, S)
<1> DEFINE w == Weights(sz)
           k == [a \in S |-> a.lane]
           by == [l \in Lanes |-> BytesOf(sz, On(l, S))]
           sums == [l \in Lanes |-> SumFunctionOnSet(w, {a \in S : k[a] = l})]
<1>1. \A a \in S : w[a] \in Nat
      BY BytesAreSums
<1>2. k \in [S -> Lanes]
      BY DEF Group, AttemptRecords
<1>3. ASSUME NEW l \in Lanes PROVE BytesOf(sz, On(l, S)) = SumFunctionOnSet(w, {a \in S : k[a] = l})
  <2>1. On(l, S) = {a \in S : k[a] = l}
        BY DEF On
  <2>2. On(l, S) \in SUBSET S
        BY DEF On
  <2>3. Group(On(l, S))
        BY <2>2, GroupSubset
  <2> QED BY <2>1, <2>3, BytesAreSums
<1>4. by = sums
      BY <1>3
<1>5. DOMAIN by = Lanes
      OBVIOUS
<1>6. SumFunction(by) = SumFunctionOnSet(sums, Lanes)
      BY <1>4, <1>5 DEF SumFunction
<1>7. BytesOf(sz, S) = SumFunctionOnSet(w, S)
      BY BytesAreSums
<1>8. SumFunctionOnSet(sums, Lanes) = SumFunctionOnSet(w, S)
  <2> HIDE DEF w, k
  <2> QED BY <1>1, <1>2, LanesAreFinite, SumByClass DEF Group
<1> QED BY <1>6, <1>7, <1>8

LEMMA SmallerOfTwo ==
  ASSUME NEW m \in Nat, NEW n \in Nat
  PROVE  Min({m, n}) = IF m <= n THEN m ELSE n
BY DEF Min

-----------------------------------------------------------------------------
(* The ledger *)

Unsent(S) == {a \in S : ~a.written}

\* The four counts are what the attempts A add up to.
Settled(load, bytes, queued, total, sz, A) ==
  /\ \A l \in Lanes : /\ load[l] = Cardinality(On(l, A))
                      /\ bytes[l] = BytesOf(sz, On(l, A))
                      /\ queued[l] = BytesOf(sz, Unsent(On(l, A)))
  /\ total = BytesOf(sz, A)

LedgerTypes ==
  /\ laneLoad \in [Lanes -> Nat] /\ laneBytes \in [Lanes -> Nat]
  /\ laneQueued \in [Lanes -> Nat] /\ totalBytes \in Nat

SettledNow == Settled(laneLoad, laneBytes, laneQueued, totalBytes, size, attempts)

LEMMA AttemptsGroup ==
  ASSUME Shape, Identity
  PROVE  size \in Sizes /\ Group(attempts) /\ \A S \in SUBSET attempts : Group(S)
<1>1. Group(attempts)
      BY AttemptsFinite DEF Group, Shape
<1> QED BY <1>1, GroupSubset DEF Shape, Sizes

LEMMA MonusIs ==
  ASSUME NEW m \in Nat, NEW n \in Nat
  PROVE  Monus(m, n) \in Nat /\ (n <= m => Monus(m, n) = m - n)
BY DEF Monus

LEMMA GroupParts ==
  ASSUME NEW S, Group(S), NEW l
  PROVE  /\ On(l, S) \in SUBSET S /\ Group(On(l, S)) /\ Unsent(S) \in SUBSET S /\ Group(Unsent(S))
         /\ Unsent(On(l, S)) \in SUBSET On(l, S) /\ Group(Unsent(On(l, S)))
         /\ On(l, Unsent(S)) = Unsent(On(l, S))
         /\ Cardinality(S) \in Nat /\ Cardinality(On(l, S)) \in Nat
<1>1. On(l, S) \in SUBSET S /\ Unsent(S) \in SUBSET S /\ Unsent(On(l, S)) \in SUBSET On(l, S)
      /\ On(l, Unsent(S)) = Unsent(On(l, S)) /\ Unsent(On(l, S)) \in SUBSET S
      BY DEF On, Unsent
<1>2. Group(On(l, S)) /\ Group(Unsent(S)) /\ Group(Unsent(On(l, S)))
      BY <1>1, GroupSubset
<1> QED BY <1>1, <1>2, FS_CardinalityType DEF Group

\* releaseLaneLocked, with the subtractions spelled out.
LEMMA ReleaseIs ==
  ASSUME Shape, Identity, LedgerTypes, NEW S \in SUBSET attempts, ReleaseLanes(S)
  PROVE  /\ \A l \in Lanes :
              /\ laneLoad'[l] = Monus(laneLoad[l], Cardinality(On(l, S)))
              /\ laneQueued'[l] = Monus(laneQueued[l], BytesOf(size, Unsent(On(l, S))))
              /\ laneBytes'[l] = laneBytes[l] - Min({laneBytes[l], BytesOf(size, On(l, S))})
         /\ totalBytes' = Monus(totalBytes, SumFunction([l \in Lanes |->
                                   Min({laneBytes[l], BytesOf(size, On(l, S))})]))
         /\ LedgerTypes'
<1> DEFINE freed == [l \in Lanes |-> Min({laneBytes[l], BytesOf(size, On(l, S))})]
<1>1. size \in Sizes /\ Group(S)
      BY AttemptsGroup
<1>2. /\ laneLoad' = [l \in Lanes |-> Monus(laneLoad[l], Cardinality(On(l, S)))]
      /\ laneQueued' = [l \in Lanes |-> Monus(laneQueued[l], BytesOf(size, On(l, Unsent(S))))]
      /\ laneBytes' = [l \in Lanes |-> laneBytes[l] - Min({laneBytes[l], BytesOf(size, On(l, S))})]
      /\ totalBytes' = Monus(totalBytes, SumFunction(freed))
      BY DEF ReleaseLanes, Bytes, BytesOf, Unsent
<1>3. ASSUME NEW l \in Lanes
      PROVE  /\ laneLoad'[l] = Monus(laneLoad[l], Cardinality(On(l, S))) /\ laneLoad'[l] \in Nat
             /\ laneQueued'[l] = Monus(laneQueued[l], BytesOf(size, Unsent(On(l, S))))
             /\ laneQueued'[l] \in Nat
             /\ laneBytes'[l] = laneBytes[l] - freed[l] /\ laneBytes'[l] \in Nat
             /\ freed[l] \in Nat
  <2>1. /\ Cardinality(On(l, S)) \in Nat /\ On(l, Unsent(S)) = Unsent(On(l, S))
        /\ Group(On(l, S)) /\ Group(Unsent(On(l, S)))
        BY <1>1, GroupParts
  <2>2. BytesOf(size, On(l, S)) \in Nat /\ BytesOf(size, Unsent(On(l, S))) \in Nat
        BY <1>1, <2>1, BytesAreSums
  <2>3. laneLoad[l] \in Nat /\ laneBytes[l] \in Nat /\ laneQueued[l] \in Nat
        BY DEF LedgerTypes
  <2> DEFINE b == BytesOf(size, On(l, S))
             q == BytesOf(size, Unsent(On(l, S)))
             n == Cardinality(On(l, S))
  <2>4. laneLoad'[l] = Monus(laneLoad[l], n) /\ laneQueued'[l] = Monus(laneQueued[l], q)
        /\ laneBytes'[l] = laneBytes[l] - Min({laneBytes[l], b}) /\ freed[l] = Min({laneBytes[l], b})
        BY <1>2, <2>1
  <2>5. b \in Nat /\ q \in Nat /\ n \in Nat
        BY <2>1, <2>2
  <2> HIDE DEF b, q, n, freed
  <2>6. Monus(laneLoad[l], n) \in Nat /\ Monus(laneQueued[l], q) \in Nat
        BY <2>3, <2>5, MonusIs
  <2>7. Min({laneBytes[l], b}) = IF laneBytes[l] <= b THEN laneBytes[l] ELSE b
        BY <2>3, <2>5, SmallerOfTwo
  <2>8. laneBytes'[l] \in Nat /\ freed[l] \in Nat
        BY <2>3, <2>4, <2>5, <2>7
  <2> QED BY <2>4, <2>6, <2>8 DEF q, n
<1>4. SumFunction(freed) \in Nat
  <2>1. DOMAIN freed = Lanes /\ \A l \in Lanes : freed[l] \in Nat
        BY <1>3
  <2> HIDE DEF freed
  <2> QED BY <2>1, SumType, LanesAreFinite DEF SumFunction
<1>5. totalBytes' \in Nat
      BY <1>2, <1>4, MonusIs DEF LedgerTypes
<1>6. /\ laneLoad' \in [Lanes -> Nat] /\ laneBytes' \in [Lanes -> Nat]
      /\ laneQueued' \in [Lanes -> Nat]
  <2>1. laneLoad' \in [Lanes -> Nat]
        BY <1>2, <1>3
  <2>2. laneBytes' \in [Lanes -> Nat]
        BY <1>2, <1>3
  <2>3. laneQueued' \in [Lanes -> Nat]
        BY <1>2, <1>3
  <2> QED BY <2>1, <2>2, <2>3
<1> QED BY <1>2, <1>3, <1>5, <1>6 DEF LedgerTypes

\* While the ledger agrees no subtraction saturates, so it agrees after a release.
LEMMA ReleaseSettles ==
  ASSUME Shape, Identity, LedgerTypes, SettledNow, NEW S \in SUBSET attempts, ReleaseLanes(S)
  PROVE  Settled(laneLoad', laneBytes', laneQueued', totalBytes', size, attempts \ S)
<1>1. size \in Sizes /\ Group(attempts) /\ Group(S)
      BY AttemptsGroup
<1>2. ASSUME NEW l \in Lanes
      PROVE  /\ laneLoad'[l] = Cardinality(On(l, attempts \ S))
             /\ laneBytes'[l] = BytesOf(size, On(l, attempts \ S))
             /\ laneQueued'[l] = BytesOf(size, Unsent(On(l, attempts \ S)))
             /\ Min({laneBytes[l], BytesOf(size, On(l, S))}) = BytesOf(size, On(l, S))
  <2> DEFINE all  == On(l, attempts)
             gone == On(l, S)
  <2>1. /\ gone \in SUBSET all /\ Unsent(gone) \in SUBSET Unsent(all)
        /\ On(l, attempts \ S) = all \ gone
        /\ Unsent(On(l, attempts \ S)) = Unsent(all) \ Unsent(gone)
        BY DEF On, Unsent
  <2>2. Group(all) /\ Group(Unsent(all)) /\ Group(gone)
        BY <1>1, GroupParts
  <2>3. /\ laneLoad[l] = Cardinality(all) /\ laneBytes[l] = BytesOf(size, all)
        /\ laneQueued[l] = BytesOf(size, Unsent(all))
        BY DEF SettledNow, Settled
  <2>4. /\ laneLoad'[l] = Monus(laneLoad[l], Cardinality(gone))
        /\ laneQueued'[l] = Monus(laneQueued[l], BytesOf(size, Unsent(gone)))
        /\ laneBytes'[l] = laneBytes[l] - Min({laneBytes[l], BytesOf(size, gone)})
        BY ReleaseIs
  <2> HIDE DEF all, gone
  <2>5. /\ BytesOf(size, all) \in Nat /\ BytesOf(size, gone) \in Nat
        /\ BytesOf(size, gone) <= BytesOf(size, all)
        /\ BytesOf(size, all \ gone) = BytesOf(size, all) - BytesOf(size, gone)
        BY <1>1, <2>1, <2>2, BytesLess
  <2>6. /\ BytesOf(size, Unsent(all)) \in Nat /\ BytesOf(size, Unsent(gone)) \in Nat
        /\ BytesOf(size, Unsent(gone)) <= BytesOf(size, Unsent(all))
        /\ BytesOf(size, Unsent(all) \ Unsent(gone))
             = BytesOf(size, Unsent(all)) - BytesOf(size, Unsent(gone))
        BY <1>1, <2>1, <2>2, BytesLess
  <2>7. /\ Cardinality(all) \in Nat /\ Cardinality(gone) \in Nat
        /\ Cardinality(gone) <= Cardinality(all)
        /\ Cardinality(all \ gone) = Cardinality(all) - Cardinality(gone)
    <3>1. IsFiniteSet(all) /\ IsFiniteSet(gone) /\ all \cap gone = gone
          BY <2>1, <2>2 DEF Group
    <3>2. Cardinality(all \ gone) = Cardinality(all) - Cardinality(all \cap gone)
          BY <3>1, FS_Difference
    <3> QED BY <2>1, <3>1, <3>2, FS_CardinalityType, FS_Subset
  <2>8. laneLoad'[l] = Cardinality(all \ gone)
        BY <2>3, <2>4, <2>7, MonusIs
  <2>9. laneQueued'[l] = BytesOf(size, Unsent(all) \ Unsent(gone))
        BY <2>3, <2>4, <2>6, MonusIs
  <2>10. Min({laneBytes[l], BytesOf(size, gone)}) = BytesOf(size, gone)
    <3> DEFINE m == BytesOf(size, all)
               n == BytesOf(size, gone)
    <3>1. m \in Nat /\ n \in Nat /\ n <= m /\ laneBytes[l] = m
          BY <2>3, <2>5
    <3> HIDE DEF m, n
    <3>2. Min({m, n}) = IF m <= n THEN m ELSE n
          BY <3>1, SmallerOfTwo
    <3>3. Min({m, n}) = n
          BY <3>1, <3>2
    <3> QED BY <3>1, <3>3 DEF n
  <2>11. laneBytes'[l] = BytesOf(size, all \ gone)
         BY <2>3, <2>4, <2>5, <2>10
  <2> QED BY <2>1, <2>8, <2>9, <2>10, <2>11 DEF gone
<1>3. totalBytes' = BytesOf(size, attempts \ S)
  <2>1. [l \in Lanes |-> Min({laneBytes[l], BytesOf(size, On(l, S))})]
          = [l \in Lanes |-> BytesOf(size, On(l, S))]
        BY <1>2
  <2>2. totalBytes' = Monus(totalBytes, BytesOf(size, S))
        BY <1>1, <2>1, ReleaseIs, BytesByLane
  <2>3. totalBytes = BytesOf(size, attempts)
        BY DEF SettledNow, Settled
  <2>4. /\ BytesOf(size, attempts) \in Nat /\ BytesOf(size, S) \in Nat
        /\ BytesOf(size, S) <= BytesOf(size, attempts)
        /\ BytesOf(size, attempts \ S) = BytesOf(size, attempts) - BytesOf(size, S)
        BY <1>1, BytesLess
  <2> QED BY <2>2, <2>3, <2>4, MonusIs
<1> QED BY <1>2, <1>3 DEF Settled

\* RetireLane deletes the entries of its lane.
LEMMA RetireSettles ==
  ASSUME Shape, Identity, LedgerTypes, NEW l \in Lanes, RetireLane(l)
  PROVE  /\ LedgerTypes'
         /\ SettledNow => Settled(laneLoad', laneBytes', laneQueued', totalBytes', size, attempts')
<1> DEFINE mine == On(l, attempts)
<1>1. size \in Sizes /\ Group(attempts) /\ Group(mine) /\ mine \in SUBSET attempts
      BY AttemptsGroup, GroupParts
<1>2. /\ laneLoad' = [laneLoad EXCEPT ![l] = 0] /\ laneBytes' = [laneBytes EXCEPT ![l] = 0]
      /\ laneQueued' = [laneQueued EXCEPT ![l] = 0] /\ attempts' = attempts \ mine
      /\ totalBytes' = Monus(totalBytes, Min({laneBytes[l], BytesOf(size, mine)}))
      BY DEF RetireLane, Bytes, BytesOf
<1>3. /\ BytesOf(size, attempts) \in Nat /\ BytesOf(size, mine) \in Nat
      /\ BytesOf(size, mine) <= BytesOf(size, attempts)
      /\ BytesOf(size, attempts \ mine) = BytesOf(size, attempts) - BytesOf(size, mine)
  <2> HIDE DEF mine
  <2> QED BY <1>1, BytesLess
<1>4. laneBytes[l] \in Nat /\ totalBytes \in Nat
      BY DEF LedgerTypes
<1>5. Min({laneBytes[l], BytesOf(size, mine)}) \in Nat
      /\ (laneBytes[l] = BytesOf(size, mine) => Min({laneBytes[l], BytesOf(size, mine)}) = BytesOf(size, mine))
  <2> DEFINE n == BytesOf(size, mine)
             m == laneBytes[l]
  <2>1. n \in Nat /\ m \in Nat
        BY <1>3, <1>4
  <2> HIDE DEF n, m
  <2>2. Min({m, n}) = IF m <= n THEN m ELSE n
        BY <2>1, SmallerOfTwo
  <2>3. Min({m, n}) \in Nat /\ (m = n => Min({m, n}) = n)
        BY <2>1, <2>2
  <2> QED BY <2>3 DEF n, m
<1>6. LedgerTypes'
  <2>1. totalBytes' \in Nat
        BY <1>2, <1>4, <1>5, MonusIs
  <2> QED BY <1>2, <2>1 DEF LedgerTypes
<1>7. ASSUME SettledNow
      PROVE  Settled(laneLoad', laneBytes', laneQueued', totalBytes', size, attempts')
  <2>1. /\ laneBytes[l] = BytesOf(size, mine) /\ totalBytes = BytesOf(size, attempts)
        /\ \A k \in Lanes : /\ laneLoad[k] = Cardinality(On(k, attempts))
                            /\ laneBytes[k] = BytesOf(size, On(k, attempts))
                            /\ laneQueued[k] = BytesOf(size, Unsent(On(k, attempts)))
        BY <1>7 DEF SettledNow, Settled
  <2>2. totalBytes' = BytesOf(size, attempts')
        BY <1>2, <1>3, <1>4, <1>5, <2>1, MonusIs
  <2>3. ASSUME NEW k \in Lanes
        PROVE  /\ laneLoad'[k] = Cardinality(On(k, attempts'))
               /\ laneBytes'[k] = BytesOf(size, On(k, attempts'))
               /\ laneQueued'[k] = BytesOf(size, Unsent(On(k, attempts')))
    <3>1. CASE k = l
      <4>1. On(k, attempts') = {} /\ Unsent(On(k, attempts')) = {}
            BY <1>2, <3>1 DEF On, Unsent
      <4>2. laneLoad'[k] = 0 /\ laneBytes'[k] = 0 /\ laneQueued'[k] = 0
            BY <1>2, <3>1 DEF LedgerTypes
      <4> QED BY <1>1, <4>1, <4>2, BytesOfNone, FS_EmptySet
    <3>2. CASE k # l
      <4>1. On(k, attempts') = On(k, attempts)
            BY <1>2, <3>2 DEF On
      <4>2. laneLoad'[k] = laneLoad[k] /\ laneBytes'[k] = laneBytes[k] /\ laneQueued'[k] = laneQueued[k]
            BY <1>2, <3>2 DEF LedgerTypes
      <4> QED BY <2>1, <4>1, <4>2
    <3> QED BY <3>1, <3>2
  <2> QED BY <2>2, <2>3 DEF Settled
<1> QED BY <1>6, <1>7

\* Marks that keep the lane and the writing of attempts move no count.
LEMMA MarkedSettles ==
  ASSUME NEW sz \in Sizes, NEW A, Group(A), NEW m,
         \A a \in A : /\ m[a] \in AttemptRecords /\ m[a].off = a.off
                      /\ m[a].lane = a.lane /\ m[a].written = a.written,
         \A a, b \in A : m[a] = m[b] => a = b,
         NEW load, NEW bytes, NEW queued, NEW total, Settled(load, bytes, queued, total, sz, A)
  PROVE  Settled(load, bytes, queued, total, sz, {m[a] : a \in A})
<1> DEFINE B == {m[a] : a \in A}
           Img(T) == {m[a] : a \in T}
<1>1. ASSUME NEW T \in SUBSET A
      PROVE  BytesOf(sz, Img(T)) = BytesOf(sz, T) /\ Cardinality(Img(T)) = Cardinality(T)
  <2>1. Group(T)
        BY GroupSubset
  <2>2. \A a \in T : m[a] \in AttemptRecords /\ m[a].off = a.off
        OBVIOUS
  <2>3. \A a, b \in T : m[a] = m[b] => a = b
        OBVIOUS
  <2> QED BY <2>1, <2>2, <2>3, BytesMarked
<1>2. ASSUME NEW l
      PROVE  /\ On(l, B) = Img(On(l, A)) /\ Unsent(On(l, B)) = Img(Unsent(On(l, A)))
             /\ On(l, A) \in SUBSET A /\ Unsent(On(l, A)) \in SUBSET A
      BY DEF On, Unsent
<1>3. B = Img(A) /\ A \in SUBSET A
      OBVIOUS
<1> HIDE DEF B, Img
<1>4. Settled(load, bytes, queued, total, sz, B)
      BY <1>1, <1>2, <1>3 DEF Settled
<1> QED BY <1>4 DEF B

\* Sizes that change for no chunk in flight move no count.
LEMMA ResizedSettles ==
  ASSUME NEW sz \in Sizes, NEW tz \in Sizes, NEW A, Group(A), \A a \in A : tz[a.off] = sz[a.off],
         NEW load, NEW bytes, NEW queued, NEW total, Settled(load, bytes, queued, total, sz, A)
  PROVE  Settled(load, bytes, queued, total, tz, A)
<1>1. ASSUME NEW T \in SUBSET A PROVE BytesOf(tz, T) = BytesOf(sz, T)
  <2>1. Group(T) /\ \A a \in T : tz[a.off] = sz[a.off]
        BY GroupSubset
  <2> QED BY <2>1, BytesResized
<1>2. \A l : On(l, A) \in SUBSET A /\ Unsent(On(l, A)) \in SUBSET A
      BY DEF On, Unsent
<1>3. A \in SUBSET A
      OBVIOUS
<1> QED BY <1>1, <1>2, <1>3 DEF Settled

\* A dispatch is charged to its lane.
LEMMA DispatchSettles ==
  ASSUME NEW sz \in Sizes, NEW A, Group(A), NEW x \in AttemptRecords, x \notin A, ~x.written,
         NEW load \in [Lanes -> Nat], NEW bytes \in [Lanes -> Nat], NEW queued \in [Lanes -> Nat],
         NEW total, Settled(load, bytes, queued, total, sz, A)
  PROVE  Settled([load EXCEPT ![x.lane] = @ + 1], [bytes EXCEPT ![x.lane] = @ + sz[x.off]],
                 [queued EXCEPT ![x.lane] = @ + sz[x.off]], total + sz[x.off], sz, A \cup {x})
<1>0. x.lane \in Lanes
      BY DEF AttemptRecords
<1>1. BytesOf(sz, A \cup {x}) = BytesOf(sz, A) + sz[x.off]
      BY BytesMore
<1>2. ASSUME NEW l \in Lanes
      PROVE  /\ [load EXCEPT ![x.lane] = @ + 1][l] = Cardinality(On(l, A \cup {x}))
             /\ [bytes EXCEPT ![x.lane] = @ + sz[x.off]][l] = BytesOf(sz, On(l, A \cup {x}))
             /\ [queued EXCEPT ![x.lane] = @ + sz[x.off]][l] = BytesOf(sz, Unsent(On(l, A \cup {x})))
  <2>1. load[l] = Cardinality(On(l, A)) /\ bytes[l] = BytesOf(sz, On(l, A))
        /\ queued[l] = BytesOf(sz, Unsent(On(l, A)))
        BY DEF Settled
  <2>2. CASE l = x.lane
    <3>1. /\ On(l, A \cup {x}) = On(l, A) \cup {x} /\ x \notin On(l, A)
          /\ Unsent(On(l, A \cup {x})) = Unsent(On(l, A)) \cup {x} /\ x \notin Unsent(On(l, A))
          BY <2>2 DEF On, Unsent
    <3>2. Group(On(l, A)) /\ Group(Unsent(On(l, A)))
          BY GroupParts
    <3>3. /\ BytesOf(sz, On(l, A) \cup {x}) = BytesOf(sz, On(l, A)) + sz[x.off]
          /\ Cardinality(On(l, A) \cup {x}) = Cardinality(On(l, A)) + 1
          BY <3>1, <3>2, BytesMore
    <3>4. BytesOf(sz, Unsent(On(l, A)) \cup {x}) = BytesOf(sz, Unsent(On(l, A))) + sz[x.off]
          BY <3>1, <3>2, BytesMore
    <3>5. /\ [load EXCEPT ![x.lane] = @ + 1][l] = load[l] + 1
          /\ [bytes EXCEPT ![x.lane] = @ + sz[x.off]][l] = bytes[l] + sz[x.off]
          /\ [queued EXCEPT ![x.lane] = @ + sz[x.off]][l] = queued[l] + sz[x.off]
          BY <2>2
    <3> QED BY <2>1, <3>1, <3>3, <3>4, <3>5
  <2>3. CASE l # x.lane
    <3>1. On(l, A \cup {x}) = On(l, A)
          BY <2>3 DEF On
    <3> QED BY <2>1, <2>3, <3>1, <1>0
  <2> QED BY <2>2, <2>3
<1> QED BY <1>1, <1>2 DEF Settled

\* What the transport took is queued no longer.
LEMMA WroteSettles ==
  ASSUME Shape, Identity, LedgerTypes, NEW c \in copies, Wrote(c)
  PROVE  /\ LedgerTypes'
         /\ SettledNow => Settled(laneLoad', laneBytes', laneQueued', totalBytes', size, attempts')
<1> DEFINE mine == {a \in AttemptOf(c) : ~a.written}
<1>0. c.lane \in Lanes
      BY DEF Shape, CopyRecords
<1>1. size \in Sizes /\ Group(attempts) /\ mine \in SUBSET attempts /\ Group(mine)
  <2>1. mine \in SUBSET attempts
        BY DEF AttemptOf, AttemptsOf
  <2> QED BY <2>1, AttemptsGroup
<1>2. /\ laneQueued' = [laneQueued EXCEPT ![c.lane] = Monus(@, BytesOf(size, mine))]
      /\ UNCHANGED <<laneLoad, laneBytes, totalBytes>>
      BY DEF Wrote, Bytes, BytesOf
<1>3. BytesOf(size, mine) \in Nat
      BY <1>1, BytesAreSums
<1>4. LedgerTypes'
  <2>1. laneQueued[c.lane] \in Nat
        BY <1>0 DEF LedgerTypes
  <2>2. Monus(laneQueued[c.lane], BytesOf(size, mine)) \in Nat
        BY <1>3, <2>1, MonusIs
  <2> HIDE DEF mine
  <2> QED BY <1>2, <2>2 DEF LedgerTypes
<1>5. ASSUME SettledNow
      PROVE  Settled(laneLoad', laneBytes', laneQueued', totalBytes', size, attempts')
  <2>1. PICK m : /\ Marks(attempts, m)
                 /\ \A a \in attempts : /\ m[a].written # a.written =>
                                             a \in AttemptOf(c) /\ ~a.written /\ m[a].written
                                        /\ a \in AttemptOf(c) => m[a].written
        BY WroteMarks
  <2> DEFINE Img(T) == {m[a] : a \in T}
  <2>2. /\ attempts' = Img(attempts)
        /\ \A a \in attempts : m[a] \in AttemptRecords /\ m[a].off = a.off /\ m[a].lane = a.lane
        /\ \A a, b \in attempts : m[a] = m[b] => a = b
        BY <2>1 DEF Marks, Identity
  <2>3. ASSUME NEW T \in SUBSET attempts
        PROVE  BytesOf(size, Img(T)) = BytesOf(size, T) /\ Cardinality(Img(T)) = Cardinality(T)
    <3>1. Group(T)
          BY AttemptsGroup
    <3>2. \A a \in T : m[a] \in AttemptRecords /\ m[a].off = a.off
          BY <2>2
    <3>3. \A a, b \in T : m[a] = m[b] => a = b
          BY <2>2
    <3> QED BY <1>1, <3>1, <3>2, <3>3, BytesMarked
  <2>4. \A a \in mine : a \in attempts /\ a.lane = c.lane /\ ~a.written
        BY DEF AttemptOf, AttemptsOf
  <2>5. \A a \in attempts : m[a].written <=> (a.written \/ a \in mine)
        BY <2>1
  <2> HIDE DEF mine
  <2>6. ASSUME NEW l \in Lanes
        PROVE  /\ laneLoad'[l] = Cardinality(On(l, attempts'))
               /\ laneBytes'[l] = BytesOf(size, On(l, attempts'))
               /\ laneQueued'[l] = BytesOf(size, Unsent(On(l, attempts')))
    <3>1. /\ On(l, attempts') = Img(On(l, attempts)) /\ On(l, attempts) \in SUBSET attempts
          BY <2>2 DEF On
    <3>2. /\ Unsent(On(l, attempts')) = Img(Unsent(On(l, attempts)) \ mine)
          /\ Unsent(On(l, attempts)) \ mine \in SUBSET attempts
          BY <2>2, <2>5 DEF On, Unsent
    <3>3. /\ laneLoad[l] = Cardinality(On(l, attempts)) /\ laneBytes[l] = BytesOf(size, On(l, attempts))
          /\ laneQueued[l] = BytesOf(size, Unsent(On(l, attempts)))
          BY <1>5 DEF SettledNow, Settled
    <3> HIDE DEF Img
    <3>4. /\ Cardinality(On(l, attempts')) = Cardinality(On(l, attempts))
          /\ BytesOf(size, On(l, attempts')) = BytesOf(size, On(l, attempts))
          BY <3>1, <2>3
    <3>5. BytesOf(size, Unsent(On(l, attempts'))) = BytesOf(size, Unsent(On(l, attempts)) \ mine)
          BY <3>2, <2>3
    <3>6. laneQueued'[l] = BytesOf(size, Unsent(On(l, attempts)) \ mine)
      <4>1. CASE l = c.lane
        <5>1. mine \in SUBSET Unsent(On(l, attempts))
              BY <2>4, <4>1 DEF On, Unsent
        <5>2. Group(Unsent(On(l, attempts)))
              BY <1>1, GroupParts
        <5>3. /\ BytesOf(size, mine) <= BytesOf(size, Unsent(On(l, attempts)))
              /\ BytesOf(size, Unsent(On(l, attempts)) \ mine)
                   = BytesOf(size, Unsent(On(l, attempts))) - BytesOf(size, mine)
              /\ BytesOf(size, Unsent(On(l, attempts))) \in Nat
              BY <1>1, <5>1, <5>2, BytesLess
        <5>4. laneQueued'[l] = Monus(laneQueued[l], BytesOf(size, mine))
              BY <1>2, <4>1 DEF LedgerTypes
        <5> QED BY <1>3, <3>3, <5>3, <5>4, MonusIs
      <4>2. CASE l # c.lane
        <5>1. Unsent(On(l, attempts)) \ mine = Unsent(On(l, attempts))
              BY <2>4, <4>2 DEF On, Unsent
        <5>2. laneQueued'[l] = laneQueued[l]
              BY <1>2, <4>2
        <5> QED BY <3>3, <5>1, <5>2
      <4> QED BY <4>1, <4>2
    <3> QED BY <1>2, <3>3, <3>4, <3>5, <3>6
  <2>7. totalBytes' = BytesOf(size, attempts')
    <3>1. attempts \in SUBSET attempts
          OBVIOUS
    <3> HIDE DEF Img
    <3>2. BytesOf(size, attempts') = BytesOf(size, attempts)
          BY <2>2, <2>3, <3>1
    <3> QED BY <1>2, <1>5, <3>2 DEF SettledNow, Settled
  <2> QED BY <2>6, <2>7 DEF Settled
<1> QED BY <1>4, <1>5

Ledger == LedgerTypes /\ (~closed => SettledNow)

LEMMA LedgerFrame == ASSUME Ledger, UNCHANGED <<ledger, size, attempts, closed>> PROVE Ledger'
BY DEF Ledger, LedgerTypes, SettledNow, ledger

LEMMA LedgerReleased ==
  ASSUME Shape, Identity, Ledger, NEW S \in SUBSET attempts, ReleaseLanes(S),
         attempts' = attempts \ S, UNCHANGED <<size, closed>>
  PROVE  Ledger'
<1>1. LedgerTypes'
      BY ReleaseIs DEF Ledger
<1>2. ASSUME ~closed' PROVE SettledNow'
  <2>1. SettledNow /\ LedgerTypes
        BY <1>2 DEF Ledger
  <2> QED BY <2>1, ReleaseSettles DEF SettledNow
<1> QED BY <1>1, <1>2 DEF Ledger

LEMMA LedgerMarked ==
  ASSUME Shape, Identity, Ledger, NEW A \in SUBSET attempts, NEW m, Marks(A, m),
         \A a \in A : m[a].written = a.written, LedgerTypes', UNCHANGED <<size, closed>>,
         ~closed => Settled(laneLoad', laneBytes', laneQueued', totalBytes', size, A)
  PROVE  Ledger'
<1>1. size \in Sizes /\ Group(A)
      BY AttemptsGroup
<1>2. /\ attempts' = {m[a] : a \in A}
      /\ \A a \in A : /\ m[a] \in AttemptRecords /\ m[a].off = a.off
                      /\ m[a].lane = a.lane /\ m[a].written = a.written
      /\ \A a, b \in A : m[a] = m[b] => a = b
      BY DEF Marks, Identity
<1>3. ASSUME ~closed' PROVE SettledNow'
  <2>1. Settled(laneLoad', laneBytes', laneQueued', totalBytes', size, A)
        BY <1>3
  <2>2. Settled(laneLoad', laneBytes', laneQueued', totalBytes', size, {m[a] : a \in A})
        BY <1>1, <1>2, <2>1, MarkedSettles
  <2> QED BY <1>2, <2>2 DEF SettledNow
<1> QED BY <1>3 DEF Ledger

LEMMA LedgerStep ==
  Shape /\ Tracking /\ Order /\ Future /\ Identity /\ Ledger /\ [Next]_vars => Ledger'
<1> SUFFICES ASSUME Shape, Tracking, Order, Future, Identity, Ledger, [Next]_vars PROVE Ledger'
    OBVIOUS
<1>1. CASE ProducerStep
  <2>1. CASE ProducerChecks \/ ProducerAcquires \/ ProducerRefused \/ ProducerDiscards
        BY <2>1, LedgerFrame DEF ProducerChecks, ProducerAcquires, ProducerRefused,
                                 ProducerDiscards, source
  <2>2. CASE Reads
    <3>1. PICK n \in ReadSizes \cup {0}, err \in ReadErrors : ProducerReads(n, err)
          BY <2>2 DEF Reads
    <3>2. UNCHANGED <<ledger, attempts, closed>>
          BY <3>1 DEF ProducerReads
    <3>3. size' = [size EXCEPT ![nextOffset] = n] /\ \A o \in Known : size'[o] = size[o]
          BY <3>1, ReadAdds
    <3>4. size \in Sizes /\ Group(attempts)
          BY AttemptsGroup
    <3>5. size' \in Sizes
      <4>1. n \in Nat
            BY <3>1, ReadsAbove
      <4> QED BY <3>3, <3>4, <4>1 DEF Sizes
    <3>6. \A a \in attempts : size'[a.off] = size[a.off]
          BY <3>3 DEF Known, Tracking, AttemptsAreLive
    <3>7. ASSUME ~closed PROVE Settled(laneLoad, laneBytes, laneQueued, totalBytes, size', attempts)
      <4>1. Settled(laneLoad, laneBytes, laneQueued, totalBytes, size, attempts)
            BY <3>7 DEF Ledger, SettledNow
      <4> QED BY <3>4, <3>5, <3>6, <4>1, ResizedSettles
    <3> QED BY <3>2, <3>7 DEF Ledger, LedgerTypes, SettledNow, ledger
  <2> QED BY <1>1, <2>1, <2>2 DEF ProducerStep, Reads
<1>2. ASSUME NEW l \in Lanes, PullerStep(l) PROVE Ledger'
  <2>1. CASE NextTakes(l)
    <3>1. PICK o \in Takeable(l), r \in LaneModes[l] :
            /\ attempts' = attempts \cup
                 {[id |-> nextAttempt + 1, off |-> o, lane |-> l, reliable |-> r,
                   written |-> FALSE, expired |-> FALSE]}
            /\ laneLoad' = [laneLoad EXCEPT ![l] = @ + 1]
            /\ laneBytes' = [laneBytes EXCEPT ![l] = @ + size[o]]
            /\ laneQueued' = [laneQueued EXCEPT ![l] = @ + size[o]]
            /\ totalBytes' = totalBytes + size[o]
          BY <2>1 DEF NextTakes
    <3>2. nextAttempt + 1 \in 1..MaxAttempts /\ ~closed /\ closed' = closed /\ size' = size
      <4>1. nextAttempt + 1 \in 1..MaxAttempts
            BY <2>1, SchedulerConstants DEF NextTakes, Shape
      <4> QED BY <2>1, <4>1 DEF NextTakes, source
    <3>3. o \in Offsets /\ r \in BOOLEAN
          BY <3>1, SchedulerConstants DEF Takeable, Shape
    <3> DEFINE x == [id |-> nextAttempt + 1, off |-> o, lane |-> l, reliable |-> r,
                     written |-> FALSE, expired |-> FALSE]
    <3>4. x \in AttemptRecords
          BY <3>2, <3>3 DEF AttemptRecords
    <3>5. x \notin attempts
      <4>1. x.id = nextAttempt + 1 /\ nextAttempt \in Int
            BY SchedulerConstants DEF Shape
      <4> QED BY <4>1 DEF Identity
    <3>6. x.lane = l /\ x.off = o /\ ~x.written
          OBVIOUS
    <3> HIDE DEF x
    <3>7. attempts' = attempts \cup {x}
          BY <3>1 DEF x
    <3>8. size \in Sizes /\ Group(attempts)
          BY AttemptsGroup
    <3>9. Settled(laneLoad, laneBytes, laneQueued, totalBytes, size, attempts) /\ LedgerTypes
          BY <3>2 DEF Ledger, SettledNow
    <3>10. Settled([laneLoad EXCEPT ![x.lane] = @ + 1], [laneBytes EXCEPT ![x.lane] = @ + size[x.off]],
                   [laneQueued EXCEPT ![x.lane] = @ + size[x.off]], totalBytes + size[x.off],
                   size, attempts \cup {x})
           BY <3>4, <3>5, <3>6, <3>8, <3>9, DispatchSettles DEF LedgerTypes
    <3>11. SettledNow'
           BY <3>1, <3>2, <3>6, <3>7, <3>10 DEF SettledNow
    <3>12. LedgerTypes'
      <4>1. size[o] \in Nat
            BY <3>3 DEF Shape
      <4> QED BY <3>1, <3>9, <4>1 DEF LedgerTypes
    <3> QED BY <3>11, <3>12 DEF Ledger
  <2>2. CASE StartPuller(l) \/ NextReturns(l) \/ NextDecidesToWait(l) \/ NextWaits(l)
             \/ SendSucceeds(l)
        BY <2>2, LedgerFrame DEF StartPuller, NextReturns, NextDecidesToWait, NextWaits,
                                 SendSucceeds, source
  <2>3. CASE SendFails(l)
    <3>1. PICK c \in copies : attempts' = attempts \ AttemptOf(c) /\ ReleaseLanes(AttemptOf(c))
                              /\ UNCHANGED <<size, closed>>
          BY <2>3 DEF SendFails, source
    <3>2. AttemptOf(c) \in SUBSET attempts
          BY DEF AttemptOf, AttemptsOf
    <3> QED BY <3>1, <3>2, LedgerReleased
  <2>4. CASE PullerRetires(l)
    <3>1. RetireLane(l) /\ UNCHANGED <<size, closed>>
          BY <2>4 DEF PullerRetires, source
    <3> QED BY <3>1, RetireSettles DEF Ledger, SettledNow
  <2> QED BY <1>2, <2>1, <2>2, <2>3, <2>4 DEF PullerStep
<1>3. ASSUME NEW l \in Lanes, LaneFails(l) PROVE Ledger'
  <2>1. RetireLane(l) /\ UNCHANGED <<size, closed>>
        BY <1>3 DEF LaneFails, source
  <2> QED BY <2>1, RetireSettles DEF Ledger, SettledNow
<1>4. ASSUME NEW c \in copies, Wrote(c) PROVE Ledger'
  <2>1. UNCHANGED <<size, closed>>
        BY <1>4 DEF Wrote, source
  <2> QED BY <1>4, <2>1, WroteSettles DEF Ledger, SettledNow
<1>5. ASSUME NEW c \in copies, Deliver(c) PROVE Ledger'
      BY <1>5, LedgerFrame DEF Deliver, source
<1>6. ASSUME NEW o \in acked, Complete(o) PROVE Ledger'
  <2>1. attempts' = attempts \ AttemptsOf(o) /\ ReleaseLanes(AttemptsOf(o))
        /\ UNCHANGED <<size, closed>>
        BY <1>6 DEF Complete, source
  <2>2. AttemptsOf(o) \in SUBSET attempts
        BY DEF AttemptsOf
  <2> QED BY <2>1, <2>2, LedgerReleased
<1>7. ASSUME NEW a \in attempts, DeadlinePasses(a) PROVE Ledger'
  <2>1. PICK m : Marks(attempts, m) /\ \A b \in attempts : m[b].written = b.written
        BY <1>7, DeadlineMarks
  <2>2. UNCHANGED <<ledger, size, closed>> /\ attempts \in SUBSET attempts
        BY <1>7 DEF DeadlinePasses, source
  <2>3. LedgerTypes'
        BY <2>2 DEF Ledger, LedgerTypes, ledger
  <2>4. ~closed => Settled(laneLoad', laneBytes', laneQueued', totalBytes', size, attempts)
        BY <2>2 DEF Ledger, SettledNow, ledger
  <2> QED BY <2>1, <2>2, <2>3, <2>4, LedgerMarked
<1>8. CASE ReissueExpired
  <2>1. PICK m : Marks(attempts \ Lapsed, m)
                 /\ \A b \in attempts \ Lapsed : m[b].written = b.written
        BY <1>8, ReissueMarks
  <2>2. ReleaseLanes(Lapsed) /\ UNCHANGED <<size, closed>>
        BY <1>8 DEF ReissueExpired, Lapsed, source
  <2>3. Lapsed \in SUBSET attempts /\ attempts \ Lapsed \in SUBSET attempts
        BY DEF Lapsed
  <2>4. LedgerTypes'
        BY <2>2, <2>3, ReleaseIs DEF Ledger
  <2>5. ~closed => Settled(laneLoad', laneBytes', laneQueued', totalBytes', size, attempts \ Lapsed)
        BY <2>2, <2>3, ReleaseSettles DEF Ledger
  <2> QED BY <2>1, <2>2, <2>3, <2>4, <2>5, LedgerMarked
<1>9. CASE EvidenceArrives
  <2>1. PICK bound : ReissueUnacknowledgedBelow(bound)
        BY <1>9 DEF EvidenceArrives
  <2>2. PICK S \in SUBSET attempts : attempts' = attempts \ S /\ ReleaseLanes(S)
        BY <2>1 DEF ReissueUnacknowledgedBelow
  <2>3. UNCHANGED <<size, closed>>
        BY <2>1 DEF ReissueUnacknowledgedBelow, source
  <2> QED BY <2>2, <2>3, LedgerReleased
<1>10. CASE Cancel
       BY <1>10, LedgerFrame DEF Cancel, source
<1>11. CASE Close
       BY <1>11 DEF Close, Ledger, LedgerTypes, ledger
<1>12. CASE Terminated \/ UNCHANGED vars
       BY <1>12, LedgerFrame DEF Terminated, vars, source
<1> QED BY <1>1, <1>2, <1>3, <1>4, <1>5, <1>6, <1>7, <1>8, <1>9, <1>10, <1>11, <1>12
        DEF Next, Work

-----------------------------------------------------------------------------
(* Retention *)

LEMMA BytesAtIs ==
  ASSUME NEW sz \in Sizes, NEW O \in SUBSET Offsets
  PROVE  /\ SumFunctionOnSet(sz, O) \in Nat
         /\ \A P \in SUBSET O :
              /\ SumFunctionOnSet(sz, P) \in Nat
              /\ SumFunctionOnSet(sz, P) <= SumFunctionOnSet(sz, O)
              /\ SumFunctionOnSet(sz, O \ P) = SumFunctionOnSet(sz, O) - SumFunctionOnSet(sz, P)
         /\ \A x \in Offsets \ O :
              SumFunctionOnSet(sz, O \cup {x}) = SumFunctionOnSet(sz, O) + sz[x]
<1>1. IsFiniteSet(O) /\ \A x \in O : sz[x] \in Nat
      BY OffsetsFinite DEF Sizes
<1>2. SumFunctionOnSet(sz, O) \in Nat
      BY <1>1, SumType
<1>3. ASSUME NEW P \in SUBSET O
      PROVE  /\ SumFunctionOnSet(sz, P) \in Nat
             /\ SumFunctionOnSet(sz, P) <= SumFunctionOnSet(sz, O)
             /\ SumFunctionOnSet(sz, O \ P) = SumFunctionOnSet(sz, O) - SumFunctionOnSet(sz, P)
      BY <1>1, SumDifference
<1>4. ASSUME NEW x \in Offsets \ O
      PROVE  SumFunctionOnSet(sz, O \cup {x}) = SumFunctionOnSet(sz, O) + sz[x]
  <2>1. x \notin O /\ \A y \in O \cup {x} : sz[y] \in Nat
        BY DEF Sizes
  <2> QED BY <1>1, <2>1, SumAdd
<1> QED BY <1>2, <1>3, <1>4

LEMMA BytesAtSame ==
  ASSUME NEW sz \in Sizes, NEW tz \in Sizes, NEW O \in SUBSET Offsets, \A o \in O : tz[o] = sz[o]
  PROVE  SumFunctionOnSet(tz, O) = SumFunctionOnSet(sz, O)
<1>1. IsFiniteSet(O) /\ \A o \in O : sz[o] \in Nat /\ tz[o] = sz[o]
      BY OffsetsFinite DEF Sizes
<1> QED BY <1>1, SumSame

\* liveBytes is what the live chunks add up to.
LiveLedger == liveBytes \in Nat /\ (~closed => liveBytes = BytesAt(live))

LEMMA LiveLedgerStep ==
  Shape /\ Order /\ Future /\ LiveLedger /\ [Next]_vars => LiveLedger'
<1> SUFFICES ASSUME Shape, Order, Future, LiveLedger, [Next]_vars PROVE LiveLedger'
    OBVIOUS
<1>0. size \in Sizes /\ live \in SUBSET Offsets
      BY DEF Shape, Sizes
<1>1. CASE Reads
  <2>1. PICK n \in ReadSizes \cup {0}, err \in ReadErrors : ProducerReads(n, err)
        BY <1>1 DEF Reads
  <2>2. UNCHANGED <<liveBytes, live, closed>>
        BY <2>1 DEF ProducerReads
  <2>3. size' = [size EXCEPT ![nextOffset] = n] /\ \A o \in Known : size'[o] = size[o]
        BY <2>1, ReadAdds
  <2>4. size' \in Sizes
    <3>1. n \in Nat
          BY <2>1, ReadsAbove
    <3> QED BY <1>0, <2>3, <3>1 DEF Sizes
  <2>5. \A o \in live : size'[o] = size[o]
        BY <2>3 DEF Known
  <2>6. SumFunctionOnSet(size', live) = SumFunctionOnSet(size, live)
        BY <1>0, <2>4, <2>5, BytesAtSame
  <2> QED BY <2>2, <2>6 DEF LiveLedger, BytesAt
<1>2. ASSUME NEW l \in Lanes, NextTakes(l) PROVE LiveLedger'
  <2>1. PICK o \in Takeable(l) : /\ live' = live \cup {o}
                                 /\ liveBytes' = liveBytes + (IF o \in live THEN 0 ELSE size[o])
        BY <1>2 DEF NextTakes
  <2>2. UNCHANGED <<size, closed>> /\ ~closed
        BY <1>2 DEF NextTakes, source
  <2>3. o \in Offsets /\ size[o] \in Nat
        BY DEF Takeable, Shape
  <2>4. liveBytes = SumFunctionOnSet(size, live) /\ liveBytes \in Nat
        BY <2>2 DEF LiveLedger, BytesAt
  <2>5. CASE o \in live
    <3>1. live' = live /\ liveBytes' = liveBytes
          BY <2>1, <2>4, <2>5
    <3> QED BY <2>2, <2>4, <3>1 DEF LiveLedger, BytesAt
  <2>6. CASE o \notin live
    <3>1. SumFunctionOnSet(size, live \cup {o}) = SumFunctionOnSet(size, live) + size[o]
          BY <1>0, <2>3, <2>6, BytesAtIs
    <3>2. liveBytes' = liveBytes + size[o]
          BY <2>1, <2>6
    <3> QED BY <2>1, <2>2, <2>3, <2>4, <3>1, <3>2 DEF LiveLedger, BytesAt
  <2> QED BY <2>5, <2>6
<1>3. ASSUME NEW o \in acked, Complete(o) PROVE LiveLedger'
  <2>1. live' = live \ {o} /\ liveBytes' = Monus(liveBytes, IF o \in live THEN size[o] ELSE 0)
        /\ UNCHANGED <<size, closed>>
        BY <1>3 DEF Complete, source
  <2>2. o \in Offsets /\ size[o] \in Nat /\ liveBytes \in Nat
        BY DEF Shape, LiveLedger
  <2>3. liveBytes' \in Nat
        BY <2>1, <2>2, MonusIs
  <2>4. ASSUME ~closed PROVE liveBytes' = SumFunctionOnSet(size, live \ {o})
    <3>1. liveBytes = SumFunctionOnSet(size, live)
          BY <2>4 DEF LiveLedger, BytesAt
    <3>2. CASE o \in live
      <4>1. {o} \in SUBSET live
            BY <3>2
      <4>2. /\ SumFunctionOnSet(size, {o}) <= SumFunctionOnSet(size, live)
            /\ SumFunctionOnSet(size, live \ {o})
                 = SumFunctionOnSet(size, live) - SumFunctionOnSet(size, {o})
            BY <1>0, <4>1, BytesAtIs
      <4>3. SumFunctionOnSet(size, {o}) = size[o]
        <5>1. {} \cup {o} = {o} /\ {} \in SUBSET Offsets /\ o \in Offsets \ {}
              BY <2>2
        <5>2. SumFunctionOnSet(size, {} \cup {o}) = SumFunctionOnSet(size, {}) + size[o]
              BY <1>0, <5>1, BytesAtIs
        <5>3. SumFunctionOnSet(size, {}) = 0
              BY SumEmpty
        <5> QED BY <2>2, <5>1, <5>2, <5>3
      <4>4. liveBytes' = Monus(liveBytes, size[o])
            BY <2>1, <3>2
      <4> QED BY <2>2, <3>1, <4>2, <4>3, <4>4, MonusIs
    <3>3. CASE o \notin live
      <4>1. live \ {o} = live /\ liveBytes' = Monus(liveBytes, 0)
            BY <2>1, <3>3
      <4>2. Monus(liveBytes, 0) = liveBytes
            BY <2>2 DEF Monus
      <4> QED BY <3>1, <4>1, <4>2
    <3> QED BY <3>2, <3>3
  <2> QED BY <2>1, <2>3, <2>4 DEF LiveLedger, BytesAt
<1>4. CASE Close
      BY <1>4 DEF Close, LiveLedger
<1>5. CASE UNCHANGED <<size, live, liveBytes, closed>>
      BY <1>5 DEF LiveLedger, BytesAt
<1>6. \/ Reads \/ Close \/ (\E l \in Lanes : NextTakes(l)) \/ (\E o \in acked : Complete(o))
      \/ UNCHANGED <<size, live, liveBytes, closed>>
  <2>1. ProducerStep => Reads \/ UNCHANGED <<size, live, liveBytes, closed>>
        BY DEF ProducerStep, ProducerChecks, ProducerAcquires, ProducerRefused, ProducerDiscards,
               Reads, source
  <2>2. ASSUME NEW l \in Lanes, PullerStep(l) \/ LaneFails(l)
        PROVE  NextTakes(l) \/ UNCHANGED <<size, live, liveBytes, closed>>
        BY <2>2 DEF PullerStep, StartPuller, NextReturns, NextDecidesToWait, NextWaits,
                    SendSucceeds, SendFails, PullerRetires, LaneFails, source
  <2>3. ASSUME NEW c \in copies, Wrote(c) \/ Deliver(c)
        PROVE  UNCHANGED <<size, live, liveBytes, closed>>
        BY <2>3 DEF Wrote, Deliver, source
  <2>4. ASSUME NEW a \in attempts, DeadlinePasses(a)
        PROVE  UNCHANGED <<size, live, liveBytes, closed>>
        BY <2>4 DEF DeadlinePasses, source
  <2>5. ReissueExpired \/ EvidenceArrives => UNCHANGED <<size, live, liveBytes, closed>>
        BY DEF ReissueExpired, EvidenceArrives, ReissueUnacknowledgedBelow, source
  <2>6. Cancel \/ Terminated \/ UNCHANGED vars => UNCHANGED <<size, live, liveBytes, closed>>
        BY DEF Cancel, Terminated, vars, source
  <2> QED BY <2>1, <2>2, <2>3, <2>4, <2>5, <2>6 DEF Next, Work
<1> QED BY <1>1, <1>2, <1>3, <1>4, <1>5, <1>6

\* A nonempty finite set of naturals has a greatest element.
LEMMA ChunkSizeIsMax == ChunkSize \in ReadSizes /\ \A n \in ReadSizes : n <= ChunkSize
<1> DEFINE F == {T \in SUBSET ReadSizes : T = {} \/ \E x \in T : \A y \in T : x >= y}
<1>1. {} \in F
      OBVIOUS
<1>2. ASSUME NEW T \in SUBSET ReadSizes, NEW x \in ReadSizes, T \in F, x \notin T
      PROVE  T \cup {x} \in F
  <2>1. T \subseteq Nat /\ x \in Nat
        BY SchedulerConstants
  <2>2. CASE T = {}
        BY <2>1, <2>2
  <2>3. CASE \E y \in T : \A z \in T : y >= z
    <3>1. PICK y \in T : \A z \in T : y >= z
          BY <2>3
    <3>2. CASE y >= x
          BY <2>1, <3>1, <3>2
    <3>3. CASE ~(y >= x)
      <4>1. \A z \in T \cup {x} : x >= z
            BY <2>1, <3>1, <3>3
      <4> QED BY <4>1
    <3> QED BY <3>2, <3>3
  <2> QED BY <1>2, <2>2, <2>3
<1>3. \A T \in SUBSET ReadSizes : T \in F
  <2> HIDE DEF F
  <2> QED BY <1>1, <1>2, SetInduction, SchedulerConstants
<1>4. \E x \in ReadSizes : \A y \in ReadSizes : x >= y
      BY <1>3, SchedulerConstants
<1>5. ChunkSize \in ReadSizes /\ \A n \in ReadSizes : ChunkSize >= n
      BY <1>4 DEF ChunkSize, Max
<1> QED BY <1>5, SchedulerConstants

\* What the scheduler retains, and that it is less when more may be read.
Bounds ==
  /\ Cardinality(Held) <= MaxOutstanding
  /\ ~closed => BytesAt(Held) <= RetainBytes - 1 + ChunkSize
  /\ producer \in {"acquiring", "reading"} =>
       Cardinality(Held) < MaxOutstanding /\ (~closed => BytesAt(Held) < RetainBytes)

\* A step that only lets chunks go keeps the bounds.
LEMMA BoundsKept ==
  ASSUME Shape, Bounds, Held' \subseteq Held, size' = size, closed => closed',
         producer' \in {"acquiring", "reading"} => producer \in {"acquiring", "reading"}
  PROVE  Bounds'
<1>1. size \in Sizes /\ Held \in SUBSET Offsets /\ Held' \in SUBSET Held
      BY DEF Shape, Sizes, Held
<1>2. IsFiniteSet(Held) /\ Cardinality(Held) \in Nat
      BY <1>1, OffsetsFinite
<1>3. Cardinality(Held') \in Nat /\ Cardinality(Held') <= Cardinality(Held)
      BY <1>1, <1>2, FS_Subset, FS_CardinalityType
<1>4. /\ SumFunctionOnSet(size, Held) \in Nat /\ SumFunctionOnSet(size, Held') \in Nat
      /\ SumFunctionOnSet(size, Held') <= SumFunctionOnSet(size, Held)
      BY <1>1, BytesAtIs
<1> DEFINE was == SumFunctionOnSet(size, Held)
           is  == SumFunctionOnSet(size, Held')
           many == Cardinality(Held)
           few  == Cardinality(Held')
<1>5. was \in Nat /\ is \in Nat /\ is <= was /\ many \in Nat /\ few \in Nat /\ few <= many
      BY <1>2, <1>3, <1>4
<1>6. BytesAt(Held) = was /\ BytesAt(Held)' = is /\ Cardinality(Held)' = few
      BY DEF BytesAt
<1>7. MaxOutstanding \in Nat /\ RetainBytes \in Nat /\ ChunkSize \in Nat
      BY SchedulerConstants, ChunkSizeIsMax
<1>8. /\ many <= MaxOutstanding
      /\ ~closed => was <= RetainBytes - 1 + ChunkSize
      /\ producer \in {"acquiring", "reading"} =>
           many < MaxOutstanding /\ (~closed => was < RetainBytes)
      BY <1>6 DEF Bounds
<1> HIDE DEF was, is, many, few
<1>9. few <= MaxOutstanding
      BY <1>5, <1>7, <1>8
<1>10. ~closed' => is <= RetainBytes - 1 + ChunkSize
       BY <1>5, <1>7, <1>8
<1>11. ASSUME producer' \in {"acquiring", "reading"}
       PROVE  few < MaxOutstanding /\ (~closed' => is < RetainBytes)
       BY <1>5, <1>7, <1>8, <1>11
<1> QED BY <1>6, <1>9, <1>10, <1>11 DEF Bounds

\* What retainedBytes adds up, while the ledger of the live chunks is exact.
LEMMA RetainedIs ==
  ASSUME Shape, LiveLedger, ~closed
  PROVE  RetainedBytes = BytesAt(Held) /\ RetainedBytes \in Nat
<1>1. size \in Sizes /\ Held \in SUBSET Offsets /\ live \in SUBSET Held
      BY DEF Shape, Sizes, Held
<1>2. Held \ live = pending \ live
      BY DEF Held
<1>3. /\ SumFunctionOnSet(size, Held) \in Nat /\ SumFunctionOnSet(size, live) \in Nat
      /\ SumFunctionOnSet(size, live) <= SumFunctionOnSet(size, Held)
      /\ SumFunctionOnSet(size, Held \ live)
           = SumFunctionOnSet(size, Held) - SumFunctionOnSet(size, live)
      BY <1>1, BytesAtIs
<1>4. RetainedBytes = SumFunctionOnSet(size, live) + SumFunctionOnSet(size, pending \ live)
      BY DEF RetainedBytes, LiveLedger, BytesAt
<1> DEFINE all == SumFunctionOnSet(size, Held)
           carried == SumFunctionOnSet(size, live)
           rest == SumFunctionOnSet(size, Held \ live)
<1>5. all \in Nat /\ carried \in Nat /\ rest = all - carried /\ RetainedBytes = carried + rest
      BY <1>2, <1>3, <1>4
<1> HIDE DEF all, carried, rest
<1>6. RetainedBytes = all
      BY <1>5
<1> QED BY <1>5, <1>6 DEF all, BytesAt

\* The loop head of produce lets the producer go on only below both limits.
LEMMA GoingOn ==
  ASSUME Shape, LiveLedger, ~closed, ~NoReadAhead
  PROVE  Cardinality(Held) < MaxOutstanding /\ BytesAt(Held) < RetainBytes
<1>1. live \in SUBSET Offsets /\ pending \in SUBSET Offsets
      BY DEF Shape
<1>2. IsFiniteSet(live) /\ IsFiniteSet(pending) /\ IsFiniteSet(live \cap pending)
      BY <1>1, OffsetsFinite, FS_Subset
<1>3. /\ Cardinality(live) \in Nat /\ Cardinality(pending) \in Nat
      /\ Cardinality(live \cap pending) \in Nat
      BY <1>2, FS_CardinalityType
<1>4. Cardinality(live \cup pending)
        = Cardinality(live) + Cardinality(pending) - Cardinality(live \cap pending)
      BY <1>2, FS_Union
<1> DEFINE a == Cardinality(live)
           b == Cardinality(pending)
           c == Cardinality(live \cap pending)
           d == Cardinality(live \cup pending)
<1>5. a \in Nat /\ b \in Nat /\ c \in Nat /\ d = a + b - c /\ ~(b + a >= MaxOutstanding)
      /\ MaxOutstanding \in Nat
      BY <1>3, <1>4, SchedulerConstants DEF NoReadAhead
<1>6. Cardinality(Held) = d
      BY DEF Held
<1> HIDE DEF a, b, c, d
<1>7. d < MaxOutstanding
      BY <1>5
<1>8. ~(RetainedBytes >= RetainBytes) /\ RetainBytes \in Nat
      BY SchedulerConstants DEF NoReadAhead
<1>9. RetainedBytes = BytesAt(Held) /\ RetainedBytes \in Nat
      BY RetainedIs
<1>10. BytesAt(Held) < RetainBytes
       BY <1>8, <1>9
<1> QED BY <1>6, <1>7, <1>10

LEMMA BoundsRead ==
  ASSUME Shape, Order, Future, Bounds, Reads
  PROVE  Bounds'
<1>1. PICK n \in ReadSizes \cup {0}, err \in ReadErrors : ProducerReads(n, err)
      BY DEF Reads
<1>2. /\ n \in Nat /\ nextOffset \in Nat /\ producer = "reading" /\ ~closed
      /\ \A o \in Held : o \in Nat /\ o < nextOffset
      BY <1>1, ReadsAbove DEF Held
<1>3. /\ size' = [size EXCEPT ![nextOffset] = n]
      /\ \A o \in Held : size'[o] = size[o]
      /\ size'[nextOffset] = n
      /\ n > 0 => pending' = pending \cup {nextOffset}
      /\ n = 0 => pending' = pending \/ pending' = pending \cup {nextOffset}
      /\ UNCHANGED live
      BY <1>1, ReadAdds DEF Held, Known
<1>4. producer' \notin {"acquiring", "reading"} /\ closed' = closed
      BY <1>1 DEF ProducerReads
<1>5. nextOffset \in Offsets /\ nextOffset \notin Held
      BY <1>2 DEF Shape
<1>6. size \in Sizes /\ size' \in Sizes /\ Held \in SUBSET Offsets
      BY <1>2, <1>3 DEF Shape, Sizes, Held
<1>7. Held' = Held \/ Held' = Held \cup {nextOffset}
      BY <1>2, <1>3 DEF Held
<1>8. n <= ChunkSize /\ ChunkSize \in Nat /\ RetainBytes \in Nat /\ MaxOutstanding \in Nat
      BY <1>2, ChunkSizeIsMax, SchedulerConstants
<1>9. IsFiniteSet(Held) /\ Cardinality(Held) \in Nat
      BY <1>6, OffsetsFinite
<1>10. Cardinality(Held \cup {nextOffset}) = Cardinality(Held) + 1
       BY <1>5, <1>9, FS_AddElement
<1>11. SumFunctionOnSet(size', Held) = SumFunctionOnSet(size, Held)
       BY <1>3, <1>6, BytesAtSame
<1>12. SumFunctionOnSet(size', Held \cup {nextOffset}) = SumFunctionOnSet(size', Held) + size'[nextOffset]
       BY <1>5, <1>6, BytesAtIs
<1>13. SumFunctionOnSet(size, Held) \in Nat
       BY <1>6, BytesAtIs
<1> DEFINE was == SumFunctionOnSet(size, Held)
           many == Cardinality(Held)
<1>14. was \in Nat /\ many \in Nat
       BY <1>9, <1>13
<1>15. many < MaxOutstanding /\ was < RetainBytes
       BY <1>2 DEF Bounds, BytesAt
<1>16. BytesAt(Held)' \in {was, was + n}
  <2>1. BytesAt(Held)' = SumFunctionOnSet(size', Held')
        BY DEF BytesAt
  <2> QED BY <2>1, <1>3, <1>7, <1>11, <1>12
<1>17. Cardinality(Held') \in {many, many + 1}
       BY <1>7, <1>10
<1> HIDE DEF was, many
<1>18. BytesAt(Held)' <= RetainBytes - 1 + ChunkSize
       BY <1>2, <1>8, <1>14, <1>15, <1>16
<1>19. Cardinality(Held') <= MaxOutstanding
       BY <1>8, <1>14, <1>15, <1>17
<1> QED BY <1>4, <1>18, <1>19 DEF Bounds

LEMMA BoundsStep ==
  Shape /\ Tracking /\ Order /\ Future /\ LiveLedger /\ Bounds /\ [Next]_vars => Bounds'
<1> SUFFICES ASSUME Shape, Tracking, Order, Future, LiveLedger, Bounds, [Next]_vars
             PROVE  Bounds'
    OBVIOUS
<1>1. CASE ProducerStep
  <2>1. CASE ProducerChecks
    <3>1. UNCHANGED <<size, live, pending, closed>>
          BY <2>1 DEF ProducerChecks, source
    <3>2. CASE producer' = "acquiring"
      <4>1. ~closed /\ ~NoReadAhead
            BY <2>1, <3>2 DEF ProducerChecks
      <4>2. Cardinality(Held) < MaxOutstanding /\ BytesAt(Held) < RetainBytes
            BY <4>1, GoingOn
      <4>3. Held' = Held /\ BytesAt(Held)' = BytesAt(Held)
            BY <3>1 DEF Held, BytesAt
      <4> QED BY <4>2, <4>3, <3>1 DEF Bounds
    <3>3. CASE producer' # "acquiring"
      <4>1. producer' \notin {"acquiring", "reading"}
            BY <2>1, <3>3 DEF ProducerChecks
      <4>2. Held' = Held /\ size' = size /\ closed' = closed
            BY <3>1 DEF Held
      <4> QED BY <4>1, <4>2, BoundsKept
    <3> QED BY <3>2, <3>3
  <2>2. CASE ProducerAcquires \/ ProducerRefused \/ ProducerDiscards
    <3>1. UNCHANGED <<size, live, pending, closed>>
          BY <2>2 DEF ProducerAcquires, ProducerRefused, ProducerDiscards, source
    <3>2. producer' \in {"acquiring", "reading"} => producer \in {"acquiring", "reading"}
          BY <2>2 DEF ProducerAcquires, ProducerRefused, ProducerDiscards
    <3>3. Held' = Held /\ size' = size /\ closed' = closed
          BY <3>1 DEF Held
    <3> QED BY <3>2, <3>3, BoundsKept
  <2>3. CASE Reads
        BY <2>3, BoundsRead
  <2> QED BY <1>1, <2>1, <2>2, <2>3 DEF ProducerStep, Reads
<1>2. CASE Held' = Held /\ UNCHANGED <<memory, size, closed, producer>>
      BY <1>2, BoundsKept
<1>3. ASSUME NEW l \in Lanes, NextTakes(l), Held' = Held PROVE Bounds'
  <2>1. producer' \in {"acquiring", "reading"} => producer \in {"acquiring", "reading"}
        BY <1>3 DEF NextTakes, WakeProducer
  <2>2. UNCHANGED <<size, closed>>
        BY <1>3 DEF NextTakes, source
  <2> QED BY <1>3, <2>1, <2>2, BoundsKept
<1>4. ASSUME NEW o \in acked, Complete(o) PROVE Bounds'
  <2>1. producer' \in {"acquiring", "reading"} => producer \in {"acquiring", "reading"}
        BY <1>4 DEF Complete, WakeProducer
  <2>2. Held' \subseteq Held /\ UNCHANGED <<size, closed>>
        BY <1>4 DEF Complete, RemovePending, source, Held
  <2> QED BY <2>1, <2>2, BoundsKept
<1>5. CASE Close
  <2>1. producer' \in {"acquiring", "reading"} => producer \in {"acquiring", "reading"}
        BY <1>5 DEF Close, WakeProducer
  <2>2. Held' \subseteq Held /\ size' = size /\ closed'
        BY <1>5 DEF Close, source, Held
  <2> QED BY <2>1, <2>2, BoundsKept
<1> QED BY <1>1, <1>2, <1>3, <1>4, <1>5, HeldStep

-----------------------------------------------------------------------------
(* The inductive invariant, and what it says *)

SchedulerInv ==
  /\ Shape /\ Kinds
  /\ Tracking /\ Order /\ Identity /\ Pairs
  /\ Future /\ Covered /\ Ending
  /\ Ledger /\ LiveLedger
  /\ Custody /\ Bounds

LEMMA NothingReadYet == Init => Future /\ Covered /\ Ending /\ Kinds
<1> SUFFICES ASSUME Init PROVE Future /\ Covered /\ Ending /\ Kinds
    OBVIOUS
<1>1. Future
      BY DEF Init, Future
<1>2. 0 .. nextOffset - 1 = {}
      BY DEF Init
<1>3. Covered
  <2>1. Known = {} /\ copies = {}
        BY DEF Init, Known
  <2> QED BY <1>2, <2>1 DEF Covered, Tiling
<1>4. Ending
      BY <1>2 DEF Init, Ending, AllDelivered
<1>5. Kinds
      BY DEF Init, Kinds, ProducerStages, PullerStages
<1> QED BY <1>1, <1>3, <1>4, <1>5

LEMMA NothingChargedYet == Init => Ledger /\ LiveLedger /\ Custody /\ Bounds
<1> SUFFICES ASSUME Init PROVE Ledger /\ LiveLedger /\ Custody /\ Bounds
    OBVIOUS
<1> USE SchedulerConstants
<1>1. size \in Sizes /\ attempts = {} /\ live = {} /\ pending = {} /\ charged = {}
      /\ Held = {} /\ producer = "checking"
  <2>1. size \in Sizes
        BY ShapeInit DEF Shape, Sizes
  <2> QED BY <2>1 DEF Init, Held
<1>2. BytesOf(size, {}) = 0 /\ SumFunctionOnSet(size, {}) = 0 /\ Cardinality({}) = 0
      BY <1>1, BytesOfNone, SumEmpty, FS_EmptySet
<1>3. \A l : On(l, {}) = {} /\ Unsent({}) = {}
      BY DEF On, Unsent
<1>4. LedgerTypes
      BY DEF Init, LedgerTypes
<1>5. SettledNow
  <2>1. \A l \in Lanes : laneLoad[l] = 0 /\ laneBytes[l] = 0 /\ laneQueued[l] = 0
        BY DEF Init
  <2>2. totalBytes = 0
        BY DEF Init
  <2> QED BY <1>1, <1>2, <1>3, <2>1, <2>2 DEF SettledNow, Settled
<1>6. LiveLedger
  <2>1. liveBytes = 0
        BY DEF Init
  <2> QED BY <1>1, <1>2, <2>1 DEF LiveLedger, BytesAt
<1>7. Custody
  <2>1. reserved = 0
        BY DEF Init
  <2> QED BY <1>1, <1>2, <2>1 DEF Custody
<1>8. Bounds
  <2>1. ChunkSize \in Nat
        BY ChunkSizeIsMax
  <2>2. BytesAt(Held) = 0 /\ Cardinality(Held) = 0
        BY <1>1, <1>2 DEF BytesAt
  <2> QED BY <1>1, <2>1, <2>2 DEF Bounds
<1> QED BY <1>4, <1>5, <1>6, <1>7, <1>8 DEF Ledger

LEMMA SchedulerInvariance == Spec => []SchedulerInv
<1>1. Init => SchedulerInv
  <2> SUFFICES ASSUME Init PROVE SchedulerInv
      OBVIOUS
  <2>1. Shape /\ Future /\ Covered /\ Ending /\ Kinds /\ Ledger /\ LiveLedger /\ Custody /\ Bounds
        BY ShapeInit, NothingReadYet, NothingChargedYet
  <2>2. Tracking /\ Order /\ Identity /\ Pairs
        BY DEF Init, Tracking, AttemptsAreLive, NothingStranded, Order, Identity, Pairs
  <2> QED BY <2>1, <2>2 DEF SchedulerInv
<1>2. SchedulerInv /\ [Next]_vars => SchedulerInv'
  <2> SUFFICES ASSUME SchedulerInv, [Next]_vars PROVE SchedulerInv'
      OBVIOUS
  <2>1. /\ Shape /\ Kinds /\ Tracking /\ Order /\ Identity /\ Pairs /\ Future /\ Covered
        /\ Ending /\ Ledger /\ LiveLedger /\ Custody /\ Bounds
        BY DEF SchedulerInv
  <2>2. Shape' /\ Kinds' /\ Tracking' /\ Order' /\ Identity' /\ Pairs'
        BY <2>1, ShapeStep, KindsStep, TrackingStep, OrderStep, IdentityStep, PairsStep
  <2>3. Future' /\ Covered'
        BY <2>1, FutureStep, CoveredStep
  <2>4. Ending'
        BY <2>1, <2>3, EndingStep
  <2>5. Ledger' /\ LiveLedger' /\ Custody' /\ Bounds'
        BY <2>1, LedgerStep, LiveLedgerStep, CustodyStep, BoundsStep
  <2> QED BY <2>2, <2>3, <2>4, <2>5 DEF SchedulerInv
<1> QED BY <1>1, <1>2, PTL DEF Spec

LEMMA SettledIsAgreed == ASSUME Ledger, LiveLedger PROVE LedgerAgrees
<1> SUFFICES ASSUME ~closed
             PROVE  /\ \A l \in Lanes :
                         /\ laneLoad[l] = Cardinality(On(l, attempts))
                         /\ laneBytes[l] = Bytes(On(l, attempts))
                         /\ laneQueued[l] = Bytes({a \in On(l, attempts) : ~a.written})
                    /\ totalBytes = Bytes(attempts)
                    /\ liveBytes = BytesAt(live)
    BY DEF LedgerAgrees
<1>1. \A S : Bytes(S) = BytesOf(size, S) /\ Unsent(S) = {a \in S : ~a.written}
      BY DEF Bytes, BytesOf, Unsent
<1>2. SettledNow /\ liveBytes = BytesAt(live)
      BY DEF Ledger, LiveLedger
<1> QED BY <1>1, <1>2 DEF SettledNow, Settled

\* Whatever lanes fail, lose or hold back, the counters that admit and pace dispatches
\* are the sums over the attempts in flight, a chunk is never carried by more than a lone
\* original and one second copy, each retained chunk holds one reservation, and what is
\* retained stays below MaxOutstanding chunks and less than one read above RetainBytes.
THEOREM LedgersAreExact == Spec => []LedgersInv
<1>1. ASSUME SchedulerInv PROVE LedgersInv
  <2>1. Shape /\ Identity /\ Pairs /\ Ledger /\ LiveLedger /\ Custody /\ Bounds
        BY <1>1 DEF SchedulerInv
  <2>2. AttemptInv
        BY <2>1, SettledIsAgreed, PairsAreCounted DEF AttemptInv
  <2>3. pending \cup live = Held /\ (~closed => RetainedBytes = BytesAt(Held))
        BY <2>1, RetainedIs DEF Held
  <2>4. RetentionIsBounded
        BY <2>1, <2>3 DEF RetentionIsBounded, Custody, Bounds
  <2> QED BY <2>2, <2>4 DEF LedgersInv
<1> QED BY <1>1, SchedulerInvariance, PTL

\* Every byte read stays in exactly one retained chunk until the peer has it, and Done
\* closes only when the source has ended and the peer has all of it: for every source,
\* every number of lanes and every order of losses, lane deaths and re-offers.
THEOREM NoByteIsLost == Spec => []StripeInv
<1>1. ASSUME SchedulerInv PROVE StripeInv
  <2>1. /\ Shape /\ Kinds /\ Covered /\ Ending /\ Ledger /\ LiveLedger /\ Custody
        BY <1>1 DEF SchedulerInv
  <2>2. charged \subseteq Offsets
        BY <2>1 DEF Custody, Shape
  <2>3. reserved \in 0..MemUnits
    <3>1. Cardinality(charged) \in Nat
          BY <2>2, OffsetsFinite
    <3>2. reserved \in Nat
          BY <2>1, <3>1 DEF Custody
    <3> QED BY <2>1, <3>2, SchedulerConstants DEF Custody
  <2>4. laneLoad \in [Lanes -> Nat] /\ laneBytes \in [Lanes -> Nat]
        /\ laneQueued \in [Lanes -> Nat] /\ totalBytes \in Nat /\ liveBytes \in Nat
        BY <2>1 DEF Ledger, LedgerTypes, LiveLedger
  <2>5. TypeOK
        BY <2>1, <2>2, <2>3, <2>4 DEF TypeOK, Shape, Kinds, ProducerStages, PullerStages
  <2>6. EveryByteHeldOrAcked /\ DoneMeansDelivered
        BY <2>1, TilesHoldEveryByte, EndingIsDelivery
  <2> QED BY <2>5, <2>6 DEF StripeInv
<1> QED BY <1>1, SchedulerInvariance, PTL
===============================================================================
