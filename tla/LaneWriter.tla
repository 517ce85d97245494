----------------------------- MODULE LaneWriter -----------------------------
(***************************************************************************)
(* One lane's write queue (pep/mpflow.go): the goroutines that enqueue          *)
(* frames, the two channels, the slots shared by both, and the goroutine          *)
(* writeLane that empties them.  Bulk frames come from the lane's one puller,       *)
(* interactive ones from any goroutine of the flow.                                 *)
(***************************************************************************)
EXTENDS Integers, FiniteSets

CONSTANTS
  Puller,          \* the goroutine that enqueues bulk frames
  Speakers,        \* goroutines that enqueue interactive frames
  WriteSlots,      \* memoryLimits.laneWriteQueue
  ControlSlots     \* memoryLimits.laneControlReserve

ASSUME WriterAssumption ==
  /\ {WriteSlots, ControlSlots} \subseteq Nat
  /\ WriteSlots >= 2 /\ ControlSlots \in 1..(WriteSlots - 1)
  /\ IsFiniteSet(Speakers) /\ Puller \notin Speakers

VARIABLES
  producer,        \* goroutine -> away, taking (a slot), putting (with a slot), failed
  slots,           \* len(writeSlots)
  bulkQ, fastQ,    \* len(writeQ), len(writeInteractiveQ)
  writer,          \* writeLane: looking, choosing, popped, writing, stopped
  halted,          \* the flow is done, or the lane's stream is
  overtakes        \* bulk frames taken since an interactive one is waiting

writerVars == <<producer, slots, bulkQ, fastQ, writer, halted, overtakes>>

Producers == {Puller} \cup Speakers

WriterInit ==
  /\ producer = [p \in Producers |-> "away"]
  /\ slots = 0 /\ bulkQ = 0 /\ fastQ = 0
  /\ writer = "looking" /\ halted = FALSE /\ overtakes = 0

-----------------------------------------------------------------------------
\* The queue of a frame, and room in it.
Room(p) == IF p = Puller THEN bulkQ < WriteSlots - ControlSlots ELSE fastQ < WriteSlots

Put(p) ==
  /\ producer' = [producer EXCEPT ![p] = "away"]
  /\ IF p = Puller THEN bulkQ' = bulkQ + 1 /\ UNCHANGED fastQ
                   ELSE fastQ' = fastQ + 1 /\ UNCHANGED bulkQ

MutGaveBack == slots

\* The slot of a frame that was not queued.
GaveBack == slots - 1

EnqueueBegins(p) ==
  /\ producer[p] = "away"
  /\ producer' = [producer EXCEPT ![p] = "taking"]
  /\ UNCHANGED <<slots, bulkQ, fastQ, writer, halted, overtakes>>

EnqueueTakes(p) ==
  /\ producer[p] = "taking" /\ slots < WriteSlots
  /\ slots' = slots + 1
  /\ producer' = [producer EXCEPT ![p] = "putting"]
  /\ UNCHANGED <<bulkQ, fastQ, writer, halted, overtakes>>

EnqueuePuts(p) ==
  /\ producer[p] = "putting" /\ Room(p) /\ Put(p)
  /\ UNCHANGED <<slots, writer, halted, overtakes>>

\* The writer stopped or the flow is done: the frame is not queued.
EnqueueAborts(p) ==
  /\ producer[p] \in {"taking", "putting"} /\ (writer = "stopped" \/ halted)
  /\ producer' = [producer EXCEPT ![p] = "failed"]
  /\ slots' = IF producer[p] = "putting" THEN GaveBack ELSE slots
  /\ UNCHANGED <<bulkQ, fastQ, writer, halted, overtakes>>

\* tryEnqueueFrameClass takes a slot and puts the frame, or does neither.
TryEnqueue(p) ==
  /\ producer[p] = "away" /\ p \in Speakers
  /\ slots < WriteSlots /\ Room(p)
  /\ slots' = slots + 1 /\ Put(p)
  /\ UNCHANGED <<writer, halted, overtakes>>

-----------------------------------------------------------------------------
\* nextLaneFrame: an interactive frame if there is one by the second look, else
\* whatever comes first.
TakesFast ==
  /\ fastQ > 0 /\ fastQ' = fastQ - 1 /\ UNCHANGED bulkQ
  /\ writer' = "popped" /\ overtakes' = 0

TakesBulk ==
  /\ bulkQ > 0 /\ bulkQ' = bulkQ - 1 /\ UNCHANGED fastQ
  /\ writer' = "popped"
  /\ overtakes' = IF fastQ > 0 THEN overtakes + 1 ELSE 0

WriterLooks ==
  /\ writer = "looking"
  /\ \/ TakesFast
     \/ fastQ = 0 /\ writer' = (IF halted THEN "stopped" ELSE "choosing")
        /\ UNCHANGED <<bulkQ, fastQ, overtakes>>
  /\ UNCHANGED <<producer, slots, halted>>

WriterChooses ==
  /\ writer = "choosing"
  /\ \/ TakesFast
     \/ TakesBulk
     \/ halted /\ writer' = "stopped" /\ UNCHANGED <<bulkQ, fastQ, overtakes>>
  /\ UNCHANGED <<producer, slots, halted>>

\* The slot of the frame taken; the receive does not wait.
WriterFrees ==
  /\ writer = "popped"
  /\ slots' = IF slots > 0 THEN slots - 1 ELSE slots
  /\ writer' = "writing"
  /\ UNCHANGED <<producer, bulkQ, fastQ, halted, overtakes>>

\* The frame is written, or the lane fails.
WriterWrites ==
  /\ writer = "writing"
  /\ \/ writer' = "looking" /\ UNCHANGED halted
     \/ writer' = "stopped" /\ halted' = TRUE
  /\ UNCHANGED <<producer, slots, bulkQ, fastQ, overtakes>>

LaneHalts ==
  /\ ~halted /\ halted' = TRUE
  /\ UNCHANGED <<producer, slots, bulkQ, fastQ, writer, overtakes>>

WriterNext ==
  \/ \E p \in Producers : \/ EnqueueBegins(p) \/ EnqueueTakes(p) \/ EnqueuePuts(p)
                          \/ EnqueueAborts(p) \/ TryEnqueue(p)
  \/ WriterLooks \/ WriterChooses \/ WriterFrees \/ WriterWrites \/ LaneHalts

WriterSpec == WriterInit /\ [][WriterNext]_writerVars

-----------------------------------------------------------------------------
Putting == {p \in Producers : producer[p] = "putting"}

WriterTypeOK ==
  /\ producer \in [Producers -> {"away", "taking", "putting", "failed"}]
  /\ {slots, bulkQ, fastQ, overtakes} \subseteq Nat /\ halted \in BOOLEAN
  /\ writer \in {"looking", "choosing", "popped", "writing", "stopped"}

\* Every slot taken is a frame's, queued or about to be, or the one just taken out.
SlotsBalance ==
  slots = bulkQ + fastQ + Cardinality(Putting) + (IF writer = "popped" THEN 1 ELSE 0)

\* Bulk frames fit their own channel, and after a bulk frame overtook an interactive one
\* the writer does not choose again before it has looked.
WriterShape ==
  /\ slots <= WriteSlots /\ bulkQ <= WriteSlots - ControlSlots
  /\ overtakes <= 1 /\ (overtakes = 1 => fastQ > 0 /\ writer # "choosing")

\* The inductive invariant.
WriterIInv == WriterTypeOK /\ SlotsBalance /\ WriterShape

\* Every slot taken is a frame's, queued or about to be, or the one the writer has just
\* taken out, so no path loses a slot and none frees another's: a lane of a live flow
\* never fills up with nothing in it.  A waiting interactive frame is overtaken by one
\* bulk frame at most.  And bulk frames leave the reserved slots to interactive ones, but
\* for the one the puller holds while its own queue is full.
WriterInv ==
  /\ SlotsBalance
  /\ slots <= WriteSlots
  /\ overtakes <= 1
  /\ slots = WriteSlots /\ writer # "popped" =>
       fastQ + Cardinality(Putting \cap Speakers) >= ControlSlots - 1
=============================================================================
