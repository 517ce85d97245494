----------------------------- MODULE ReceivePath -----------------------------
(***************************************************************************)
(* How a flow's frames reach its application                                *)
(* (queqiao/internal/pep/inbound_queue.go and the receive loop of mpflow.go, *)
(* queqiao/internal/multipath/reassembly.go, memlimit/budget.go): lane      *)
(* readers hand frames to an event channel; when it is full they go to a     *)
(* backlog that a pump goroutine drains into the channel; the receive loop   *)
(* inserts each into the reassembler and writes what became contiguous.     *)
(* Backlog and reassembler draw on a budget shared with other flows.        *)
(*                                                                         *)
(* A data frame is its offset and carries one unit; FIN is the frame after  *)
(* the last of them, of no units.  Lanes carry the frames of one stream in   *)
(* any order and repeat them.  The readers of all lanes are one:             *)
(* enqueueInbound holds the mutex.                                           *)
(***************************************************************************)
EXTENDS Integers, FiniteSets, FiniteSetsExt, SequencesExt

CONSTANTS
  StreamUnits,       \* units of the stream
  EventSlots,        \* capacity of the event channel
  MaxReceiveBytes,   \* flowMemoryLimits.maxReceiveBytes
  MaxReceiveFrames,  \* flowMemoryLimits.maxReceiveFrames
  Capacity,          \* the shared receive budget
  OtherFlows,        \* bound: units other flows may hold
  MaxReads           \* bound: frames read from the lanes

ASSUME ReceivePathConstants ==
  /\ StreamUnits \in Nat \ {0} /\ EventSlots \in Nat \ {0} /\ MaxReads \in Nat
  /\ MaxReceiveBytes \in Nat \ {0} /\ MaxReceiveFrames \in Nat \ {0}
  /\ Capacity \in Nat \ {0} /\ OtherFlows \in Nat

VARIABLES
  events,      \* the channel f.events
  queue,       \* inboundBacklog.queue
  inHand,      \* the event the pump took and has not published
  pumping,     \* inboundBacklog.pumping
  cursor,      \* Reassembler.next
  segments,    \* Reassembler.buffer
  finalAt,     \* Reassembler.finalAt, StreamUnits + 1 while nil
  app,         \* what the application was given, in order
  loop,        \* the receive loop: "running", "closed", "failed", "returned"
  ackErr,      \* a failure for run waits in f.ackErr
  finished,    \* f.done is closed
  used,        \* Budget.used
  others,      \* of it, held by other flows
  reads, accepted

backlog     == <<events, queue, inHand, pumping>>
reassembler == <<cursor, segments, finalAt, app, loop>>
counters    == <<reads, accepted>>
receiveVars        == <<backlog, reassembler, ackErr, finished, used, others, counters>>

\* What deliverInbound hands on: data and the FIN.  A reset, an abort and an acknowledgement
\* of data are dealt with by the lane's reader.
Frames  == 0 .. StreamUnits
Size(f) == IF f = StreamUnits THEN 0 ELSE 1
Weight(S) == Cardinality({i \in DOMAIN S : Size(S[i]) > 0})
InFlight == events \o inHand \o queue
Charged  == {f \in segments : Size(f) > 0}

\* Variants named Mut... are faulty readings of the definition that follows them;
\* no specification uses them, a property must fail when one replaces it.
MutGranted(n) == n <= Capacity

\* TryAcquire
Granted(n) == n = 0 \/ n <= Capacity - used

ReceiveInit ==
  /\ events = <<>> /\ queue = <<>> /\ inHand = <<>> /\ pumping = FALSE
  /\ cursor = 0 /\ segments = {} /\ finalAt = StreamUnits + 1 /\ app = <<>> /\ loop = "running"
  /\ ackErr = FALSE /\ finished = FALSE /\ used = 0 /\ others = 0 /\ reads = 0 /\ accepted = {}

-----------------------------------------------------------------------------
(* Lane readers: deliverInbound and enqueueInbound *)

MutViaChannel == Len(events) < EventSlots

\* The fast path, open only while no pump runs.
ViaChannel == ~pumping /\ Len(events) < EventSlots

\* The channel while no pump runs, else the backlog; beyond its bounds or the
\* budget the flow fails.
ReadFrame(f) ==
  LET fits == /\ Weight(queue) + Size(f) <= MaxReceiveBytes
              /\ Len(queue) < MaxReceiveFrames
              /\ Granted(Size(f)) IN
  /\ reads < MaxReads /\ ~finished
  /\ reads' = reads + 1
  /\ \/ /\ ViaChannel
        /\ events' = Append(events, f)
        /\ accepted' = accepted \cup {f}
        /\ UNCHANGED <<queue, pumping, ackErr, used>>
     \/ /\ ~ViaChannel
        /\ fits
        /\ queue' = Append(queue, f)
        /\ pumping' = TRUE
        /\ used' = used + Size(f)
        /\ accepted' = accepted \cup {f}
        /\ UNCHANGED <<events, ackErr>>
     \/ /\ ~ViaChannel
        /\ ~fits
        /\ ackErr' = TRUE
        /\ UNCHANGED <<events, queue, pumping, used, accepted>>
  /\ UNCHANGED <<inHand, reassembler, finished, others>>

-----------------------------------------------------------------------------
(* pumpInbound *)

\* Its charge is returned before the event is published.
PumpTakes ==
  /\ pumping /\ inHand = <<>> /\ queue # <<>>
  /\ inHand' = <<Head(queue)>>
  /\ queue' = Tail(queue)
  /\ used' = used - Size(Head(queue))
  /\ UNCHANGED <<events, pumping, reassembler, ackErr, finished, others, counters>>

MutPumpPublishes ==
  /\ inHand # <<>>
  /\ events' = IF Len(events) < EventSlots THEN events \o inHand ELSE events
  /\ inHand' = <<>>
  /\ UNCHANGED <<queue, pumping, reassembler, ackErr, finished, used, others, counters>>

PumpPublishes ==
  /\ inHand # <<>> /\ Len(events) < EventSlots
  /\ events' = events \o inHand
  /\ inHand' = <<>>
  /\ UNCHANGED <<queue, pumping, reassembler, ackErr, finished, used, others, counters>>

MutPumpRetires ==
  /\ pumping /\ inHand = <<>>
  /\ pumping' = FALSE
  /\ UNCHANGED <<events, queue, inHand, reassembler, ackErr, finished, used, others, counters>>

\* Under the mutex that enqueueInbound holds.
PumpRetires ==
  /\ pumping /\ inHand = <<>> /\ queue = <<>>
  /\ pumping' = FALSE
  /\ UNCHANGED <<events, queue, inHand, reassembler, ackErr, finished, used, others, counters>>

MutPumpCleansUp ==
  /\ inHand # <<>> /\ finished
  /\ queue' = <<>> /\ inHand' = <<>> /\ pumping' = FALSE
  /\ used' = used
  /\ UNCHANGED <<events, reassembler, ackErr, finished, others, counters>>

\* The flow is done while the pump waits for a slot.
PumpCleansUp ==
  /\ inHand # <<>> /\ finished
  /\ queue' = <<>> /\ inHand' = <<>> /\ pumping' = FALSE
  /\ used' = used - Weight(queue)
  /\ UNCHANGED <<events, reassembler, ackErr, finished, others, counters>>

-----------------------------------------------------------------------------
(* The receive loop: Reassembler.Insert *)

\* checkNeighbours: a data frame at or beyond a buffered FIN's offset is not an
\* overlap; one already buffered is a duplicate.
Duplicate(f) == (Size(f) > 0 /\ f < cursor) \/ f \in segments

\* Where the cursor stops when f, at the cursor, is consumed with what is buffered.
Reach(f) == Min({o \in f + Size(f) .. StreamUnits : o \notin segments \/ Size(o) = 0})

MutEnds(f) == f = StreamUnits
MutWritten(f) == <<Reach(f) - 1>>
MutRefund(f) == Cardinality(Charged \cap {f})

\* Consuming f ends the stream, is written out, returns the charges of what was
\* buffered.
Ends(f)    == f = StreamUnits \/ (StreamUnits \in segments /\ Reach(f) = StreamUnits)
Written(f) == [i \in 1 .. Reach(f) - cursor |-> cursor + i - 1]
Refund(f)  == Cardinality(Charged \cap (f .. Reach(f)))

\* consumeContiguous; a FIN that the cursor reaches closes the stream.
Consume(f) ==
  /\ cursor' = Reach(f)
  /\ segments' = segments \ (f .. Reach(f))
  /\ app' = app \o Written(f)
  /\ finalAt' = IF Ends(f) THEN StreamUnits ELSE finalAt
  /\ used' = used - Refund(f)
  /\ loop' = IF Ends(f) THEN "closed" ELSE loop

\* Above the cursor: retained within the window and the shared budget, else the
\* flow fails.
Retain(f) ==
  /\ IF \/ Cardinality(segments) + 1 > MaxReceiveFrames
        \/ Cardinality(Charged) + Size(f) > MaxReceiveBytes
        \/ ~Granted(Size(f))
       THEN /\ loop' = "failed"
            /\ UNCHANGED <<segments, used, finalAt>>
       ELSE /\ segments' = segments \cup {f}
            /\ used' = used + Size(f)
            /\ finalAt' = IF f = StreamUnits THEN StreamUnits ELSE finalAt
            /\ loop' = loop
  /\ UNCHANGED <<cursor, app>>

ReceiveEvent ==
  LET f == Head(events) IN
  /\ loop = "running" /\ events # <<>>
  /\ events' = Tail(events)
  /\ \/ Duplicate(f) /\ UNCHANGED <<reassembler, used>>
     \/ ~Duplicate(f) /\ f = cursor /\ Consume(f)
     \/ ~Duplicate(f) /\ f # cursor /\ Retain(f)
  /\ UNCHANGED <<queue, inHand, pumping, ackErr, finished, others, counters>>

\* After the FIN: replays below it are acknowledged again.
ReceiveReplay ==
  /\ loop = "closed" /\ events # <<>>
  /\ events' = Tail(events)
  /\ UNCHANGED <<queue, inHand, pumping, reassembler, ackErr, finished, used, others, counters>>

\* run ends the flow: after a failure, when both directions are done, or because
\* its context ended.  The readers stop; the loop may still take an event.
FlowEnds ==
  /\ ~finished
  /\ finished' = TRUE
  /\ UNCHANGED <<backlog, reassembler, ackErr, used, others, counters>>

\* The loop returns, and its deferred Close gives back what the gaps held.
LoopReturns ==
  /\ finished \/ loop = "failed"
  /\ loop # "returned"
  /\ loop' = "returned"
  /\ segments' = {}
  /\ used' = used - Cardinality(Charged)
  /\ UNCHANGED <<backlog, cursor, finalAt, app, ackErr, finished, others, counters>>

\* Other flows of the endpoint.
OtherAcquires ==
  /\ others < OtherFlows /\ Granted(1)
  /\ others' = others + 1 /\ used' = used + 1
  /\ UNCHANGED <<backlog, reassembler, ackErr, finished, counters>>

OtherReleases ==
  /\ others > 0
  /\ others' = others - 1 /\ used' = used - 1
  /\ UNCHANGED <<backlog, reassembler, ackErr, finished, counters>>

ReceiveEnded ==
  /\ finished /\ loop = "returned" /\ ~pumping
  /\ UNCHANGED receiveVars

PumpStep == PumpTakes \/ PumpPublishes \/ PumpRetires \/ PumpCleansUp
LoopStep == ReceiveEvent \/ ReceiveReplay

ReceiveNext ==
  \/ \E f \in Frames : ReadFrame(f)
  \/ PumpStep \/ LoopStep \/ LoopReturns \/ FlowEnds \/ OtherAcquires \/ OtherReleases \/ ReceiveEnded

ReceiveSpec == ReceiveInit /\ [][ReceiveNext]_receiveVars

ReceiveFairSpec == ReceiveSpec /\ WF_receiveVars(PumpStep) /\ WF_receiveVars(LoopStep)

-----------------------------------------------------------------------------
(* Properties *)

\* The variables have their types.
ReceiveTypeOK ==
  /\ events \in Seq(Frames) /\ queue \in Seq(Frames) /\ inHand \in Seq(Frames)
  /\ Len(events) <= EventSlots /\ Len(inHand) <= 1 /\ pumping \in BOOLEAN
  /\ cursor \in 0..StreamUnits /\ segments \subseteq Frames /\ finalAt \in {StreamUnits, StreamUnits + 1}
  /\ app \in Seq(Frames) /\ loop \in {"running", "closed", "failed", "returned"}
  /\ ackErr \in BOOLEAN /\ finished \in BOOLEAN /\ used \in 0..Capacity /\ others \in 0..OtherFlows
  /\ reads \in 0..MaxReads /\ accepted \subseteq Frames

\* Ownership of a frame passes from backlog to reassembler without its charge being
\* lost, doubled or kept: the budget is what they and other flows hold.  Release
\* would panic on less, and a leak would starve every flow of the endpoint.  A flow that
\* has ended keeps nothing.
BudgetIsOwned ==
  /\ used = others + Weight(queue) + Cardinality(Charged)
  /\ finished /\ loop = "returned" /\ ~pumping => used = others

\* The receive path in its types and its budget owned (inbound_queue.go:54, reassembly.go:112).
BudgetInv == ReceiveTypeOK /\ BudgetIsOwned

\* A frame a lane reader was told is accepted is delivered or still held, unless
\* the flow ended: the channel, the pump's hand and the backlog drop nothing.
AcceptedIsHeld ==
  \A f \in accepted \cap 0 .. StreamUnits - 1 :
    finished \/ loop # "running" \/ f < cursor \/ f \in segments
      \/ \E i \in 1..Len(InFlight) : InFlight[i] = f

\* Frames reach the loop in the order the readers delivered them, though some took
\* the channel and some the backlog: a lane's final ACK is not overtaken by its FIN.
ReadOrderKept ==
  [][\/ InFlight' = InFlight
     \/ \E f \in Frames : InFlight' = Append(InFlight, f)
     \/ InFlight # <<>> /\ InFlight' = Tail(InFlight)
     \/ finished]_receiveVars

\* The application is given the stream from its start, every unit once, and the
\* stream is reported closed exactly when all of it was delivered, also when the FIN
\* came before the last gap was filled.
DeliveredInOrder ==
  /\ Len(app) = cursor
  /\ \A i \in 1..Len(app) : app[i] = i - 1
  /\ loop = "closed" => cursor = StreamUnits
  /\ cursor = StreamUnits /\ finalAt = StreamUnits => loop # "running" \/ finished

\* Accepted frames do not stay behind a pump that left or a gap that is filled.
AcceptedIsProcessed ==
  (\A f \in Frames : f \in accepted) ~> (loop # "running" \/ ackErr \/ finished)

\* What was accepted is paid for once, held until it is delivered, and delivered in
\* order (inbound_queue.go:54, reassembly.go:112).
ReceiveInv == BudgetInv /\ AcceptedIsHeld /\ DeliveredInOrder

\* What the steps keep: the frames buffered are those beyond the cursor; a pump that is
\* gone has left nothing; a FIN that was taken is buffered while the loop runs, and a
\* loop that returned has let go of everything.
BeyondCursor == \A f \in segments : f > cursor
PumpLeavesNone == ~pumping => queue = <<>> /\ inHand = <<>>
FINIsBuffered == loop = "running" /\ finalAt = StreamUnits => StreamUnits \in segments
ReturnedIsEmpty == loop = "returned" => segments = {}

ReceiveShape == BeyondCursor /\ PumpLeavesNone /\ FINIsBuffered /\ ReturnedIsEmpty

ReceiveIInv == ReceiveInv /\ ReceiveShape
=============================================================================
