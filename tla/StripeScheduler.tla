--------------------------- MODULE StripeScheduler ---------------------------
(***************************************************************************)
(* The self-pacing chunk scheduler of a striped flow                       *)
(* (queqiao/internal/stripe/stripe.go) together with the goroutines that    *)
(* drive it (queqiao/internal/pep/stripedsend.go): the producer that reads  *)
(* the source ahead, one puller per lane, the transports that call Wrote,   *)
(* the acknowledgement watcher and the supervisor that re-offers chunks.    *)
(*                                                                         *)
(* A chunk is named by its byte offset.  Scheduler.pending, a slice kept in *)
(* ascending offset order, is the set of its offsets: the slice is that set *)
(* in ascending order (produce appends at nextOffset, above every chunk it   *)
(* read before).  Every operation runs under Scheduler.mu and is one      *)
(* action; the places where the code releases the mutex separate actions.   *)
(* Time is a flag of an attempt: its deadline has passed or not.            *)
(***************************************************************************)
EXTENDS Integers, FiniteSets, FiniteSetsExt, Functions

CONSTANTS
  Lanes,                 \* identifiers of the lanes that may pull chunks
  SourceBytes,           \* bound: the source yields at most this many bytes
  ReadSizes,             \* byte counts one Read may return
  ReadErrors,            \* what Read may report: subset of {"nil","eof","fail"}
  LaneModes,             \* Reliable(lane): [Lanes -> SUBSET BOOLEAN]
  MortalLanes,           \* the lanes that may die
  LaneWindow, MaxOutstanding, RetainBytes,     \* stripe.Config
  RetransmitTimer,       \* RetransmitAfter answers a non-zero duration
  ReissueBurst,          \* ReliableReissueBurst, 0 is unbounded
  CommitBytes, OutstandingBytes, TotalBytes,   \* Windows answers, 0 is no bound
  MemUnits,              \* chunk reservations the shared budget can grant
  LostEvidence,          \* lostChunkEvidence
  MaxAttempts,           \* bound: dispatches
  EndsEarly,             \* the flow may be torn down before its stream ends
  LossyAttempts,         \* unreliable attempts up to this id may be lost
  SpuriousExpiry         \* a deadline may pass before a copy that will arrive

ChunkSize == Max(ReadSizes)
Offsets   == 0 .. SourceBytes

ASSUME SchedulerConstants ==
  /\ SourceBytes \in Nat /\ MaxAttempts \in Nat /\ LossyAttempts \in Nat
  /\ ReadSizes \subseteq Nat /\ IsFiniteSet(ReadSizes) /\ ReadSizes # {}
  /\ ReadErrors \subseteq {"nil", "eof", "fail"}
  /\ MortalLanes \subseteq Lanes
  /\ LaneModes \in [Lanes -> SUBSET BOOLEAN]
  /\ LaneWindow \in Nat \ {0} /\ MaxOutstanding \in Nat \ {0}
  /\ RetainBytes \in Nat \ {0} /\ MemUnits \in Nat /\ ReissueBurst \in Nat
  /\ CommitBytes \in Nat /\ OutstandingBytes \in Nat /\ TotalBytes \in Nat
  /\ LostEvidence \in Nat
  /\ RetransmitTimer \in BOOLEAN /\ EndsEarly \in BOOLEAN
  /\ SpuriousExpiry \in BOOLEAN

ASSUME LanesAreFinite == IsFiniteSet(Lanes)

VARIABLES
  \* fields of Scheduler and of its canonical chunks
  nextOffset, size, final, urgent, charged, pending, live, attempts,
  laneLoad, laneBytes, laneQueued, totalBytes, liveBytes, nextAttempt,
  eof, srcErr, closed, finished,
  \* the shared budget, the goroutines, the flow's context, and the path
  reserved, producer, puller, dead, cancelled, copies, acked

ledger  == <<laneLoad, laneBytes, laneQueued, totalBytes>>
source  == <<nextOffset, size, final, eof, srcErr>>
memory  == <<charged, reserved>>
path    == <<copies, acked>>
vars    == <<ledger, source, memory, path, urgent, pending, live, attempts,
             liveBytes, nextAttempt, closed, finished, producer, puller, dead,
             cancelled>>

AttemptRecords ==
  [id: 1..MaxAttempts, off: Offsets, lane: Lanes, reliable: BOOLEAN,
   written: BOOLEAN, expired: BOOLEAN]
\* The chunk copies Next returned: held by a puller inside sendChunk, queued at
\* a lane's writer, or written to its transport.
CopyRecords ==
  [id: 1..MaxAttempts, off: Offsets, lane: Lanes, reliable: BOOLEAN,
   stage: {"held", "queued", "written"}]

-----------------------------------------------------------------------------
(* Reading the state *)

EndOf(o)       == o + size[o]
AttemptsOf(o)  == {a \in attempts : a.off = o}
On(l, S)       == {a \in S : a.lane = l}
Bytes(S)       == SumFunction([a \in S |-> size[a.off]])       \* of attempts
BytesAt(O)     == SumFunctionOnSet(size, O)                   \* of chunks
Monus(m, n)    == IF n <= m THEN m - n ELSE 0

RetainedBytes  == liveBytes + BytesAt(pending \ live)
HasUrgent      == \E u \in pending \cap urgent : \A p \in pending : u <= p
Drained        == eof /\ pending = {} /\ live = {}
\* Variants named Mut... are faulty readings of the definition that follows them;
\* no specification uses them, a property must fail when one replaces it.
MutHoldsReliably(l, o) == FALSE

HoldsReliably(l, o) == \E a \in AttemptsOf(o) : a.lane = l /\ a.reliable

MutHasRoom(l, bytes) ==
  /\ TotalBytes = 0 \/ totalBytes + bytes <= TotalBytes
  /\ OutstandingBytes = 0 \/ laneBytes[l] + bytes <= OutstandingBytes
  /\ CommitBytes = 0 \/ laneQueued[l] + bytes <= CommitBytes

HasRoom(l, bytes) ==
  LET want == IF bytes = 0 THEN 1 ELSE bytes IN
  \/ totalBytes = 0
  \/ /\ TotalBytes = 0 \/ totalBytes + want <= TotalBytes
     /\ OutstandingBytes = 0 \/ laneBytes[l] + want <= OutstandingBytes
     /\ \/ laneQueued[l] = 0
        \/ CommitBytes = 0
        \/ laneQueued[l] + want <= CommitBytes

\* What takeReadyLocked would hand this lane: the scan stops at the first
\* fresh chunk without room and skips the ones the lane holds reliably.
Takeable(l) ==
  {o \in pending :
     /\ ~HoldsReliably(l, o)
     /\ \A p \in pending : p <= o => p \in urgent \/ HasRoom(l, size[p])
     /\ \A p \in pending : p <  o => HoldsReliably(l, p)}

MayAsk(l)   == laneLoad[l] < LaneWindow \/ HasUrgent
WorkFor(l)  == MayAsk(l) /\ (Takeable(l) # {} \/ Drained)

\* A puller between its last check in Next and the queueing of its Wait holds
\* Scheduler.mu.
MutexFree == \A l \in Lanes : puller[l] # "parking"

MutNoReadAhead == Cardinality(live) >= MaxOutstanding \/ liveBytes >= RetainBytes

\* produce's wait condition
NoReadAhead ==
  \/ Cardinality(pending) + Cardinality(live) >= MaxOutstanding
  \/ RetainedBytes >= RetainBytes

-----------------------------------------------------------------------------
(* Pieces of the operations *)

Broadcast(p) == [l \in Lanes |-> IF p[l] = "parked" THEN "asking" ELSE p[l]]
MutWakeLanes    == puller' = puller
MutWakeProducer == producer' = producer

WakeLanes    == puller' = Broadcast(puller)
WakeProducer == producer' = IF producer = "parked" THEN "checking" ELSE producer

MutReleaseLanes(S) ==
  /\ laneLoad' = [l \in Lanes |-> Monus(laneLoad[l], Cardinality(On(l, S)))]
  /\ laneQueued' = laneQueued
  /\ laneBytes' = [l \in Lanes |-> Monus(laneBytes[l], Bytes(On(l, S)))]
  /\ totalBytes' = Monus(totalBytes, Bytes(S))

\* releaseLaneLocked for every attempt of S: load, queued bytes of the ones not
\* written, and outstanding bytes, each saturating at zero.
ReleaseLanes(S) ==
  LET freed(l) == Min({laneBytes[l], Bytes(On(l, S))})
      unsent   == {a \in S : ~a.written} IN
  /\ laneLoad'   = [l \in Lanes |-> Monus(laneLoad[l], Cardinality(On(l, S)))]
  /\ laneQueued' = [l \in Lanes |-> Monus(laneQueued[l], Bytes(On(l, unsent)))]
  /\ laneBytes'  = [l \in Lanes |-> laneBytes[l] - freed(l)]
  /\ totalBytes' = Monus(totalBytes, SumFunction([l \in Lanes |-> freed(l)]))

MutRequeueIndex(O) ==
  LET placed == {o \in O : \A p \in pending : p < o} IN
  pending' = pending \cup placed /\ urgent' = urgent \cup placed
MutRequeueCalm(O) == pending' = pending \cup O /\ urgent' = urgent

\* requeueLocked for every chunk of O: one already in the ready set stays as it is.
Requeue(O) ==
  /\ pending' = pending \cup O
  /\ urgent'  = urgent \cup (O \ pending)

MutRemoveNone(o) == pending' = pending /\ urgent' = urgent
MutRemoveFound(o) ==
  LET from == {p \in pending : p >= o}
      hit  == {p \in from : \A q \in from : p <= q} IN
  pending' = pending \ hit /\ urgent' = urgent \ hit

\* removePendingLocked
RemovePending(o) ==
  /\ pending' = pending \ {o}
  /\ urgent'  = urgent \ {o}

MutReleaseChunks(O) ==
  reserved' = reserved - Cardinality(charged \cap O) /\ charged' = charged

\* releaseChunkLocked for every chunk of O
ReleaseChunks(O) ==
  /\ reserved' = reserved - Cardinality(charged \cap O)
  /\ charged'  = charged \ O

MutNowDone == eof' /\ pending' = {}

\* doneLocked, after the step
NowDone == eof' /\ pending' = {} /\ live' = {}

MutEndingChunk(ready, sizes, end) == {o \in ready : \A p \in ready : p <= o}

\* markEOFLocked: the ready chunk that ends at the producer's cursor, if any
EndingChunk(ready, sizes, end) == {o \in ready : o + sizes[o] = end}

MutAttemptOf(c) == {a \in attempts : a.off = c.off /\ a.lane = c.lane}

\* The attempt a returned copy stands for, unless it was retired.
AttemptOf(c) == {a \in AttemptsOf(c.off) : a.id = c.id /\ a.lane = c.lane}

MutTerminal(a) == ~a.reliable

\* retireUnreliableAttemptsLocked: what evidence of loss may end
Terminal(a) == ~a.reliable /\ a.written

-----------------------------------------------------------------------------
Init ==
  /\ nextOffset = 0 /\ size = [o \in Offsets |-> 0]
  /\ final = {} /\ urgent = {} /\ charged = {}
  /\ pending = {} /\ live = {} /\ attempts = {}
  /\ laneLoad = [l \in Lanes |-> 0] /\ laneBytes = [l \in Lanes |-> 0]
  /\ laneQueued = [l \in Lanes |-> 0] /\ totalBytes = 0 /\ liveBytes = 0
  /\ nextAttempt = 0 /\ eof = FALSE /\ srcErr = FALSE
  /\ closed = FALSE /\ finished = FALSE
  /\ reserved = 0 /\ producer = "checking"
  /\ puller = [l \in Lanes |-> "absent"] /\ dead = {} /\ cancelled = FALSE
  /\ copies = {} /\ acked = {}

-----------------------------------------------------------------------------
(* produce *)

\* The loop head: leave on Close, wait while nothing more may be read.
ProducerChecks ==
  /\ producer = "checking" /\ MutexFree
  /\ producer' = IF closed THEN "exited"
                 ELSE IF NoReadAhead THEN "parked" ELSE "acquiring"
  /\ UNCHANGED <<ledger, source, memory, path, urgent, pending, live, attempts,
                 liveBytes, nextAttempt, closed, finished, puller, dead, cancelled>>

MutProducerAcquires ==
  /\ producer = "acquiring" /\ ~closed
  /\ reserved' = reserved + 1
  /\ producer' = "reading"
  /\ UNCHANGED <<ledger, source, charged, path, urgent, pending, live, attempts,
                 liveBytes, nextAttempt, closed, finished, puller, dead, cancelled>>

\* Memory.Acquire grants one chunk, without Scheduler.mu; a cancelled producerCtx
\* wins over capacity.
ProducerAcquires ==
  /\ producer = "acquiring" /\ ~closed /\ reserved < MemUnits
  /\ reserved' = reserved + 1
  /\ producer' = "reading"
  /\ UNCHANGED <<ledger, source, charged, path, urgent, pending, live, attempts,
                 liveBytes, nextAttempt, closed, finished, puller, dead, cancelled>>

\* Memory.Acquire fails: Close cancelled it.
ProducerRefused ==
  /\ producer = "acquiring" /\ MutexFree /\ closed
  /\ producer' = "exited"
  /\ UNCHANGED <<ledger, source, memory, path, urgent, pending, live, attempts,
                 liveBytes, nextAttempt, closed, finished, puller, dead, cancelled>>

\* Read returns n bytes and err, and the result is taken under the mutex.
ProducerReads(n, err) ==
  LET data  == IF n > 0 THEN {nextOffset} ELSE {}
      end   == nextOffset + n
      sizes == [size EXCEPT ![nextOffset] = n]
      ready == pending \cup data
      tail  == EndingChunk(ready, sizes, end)
  IN
  /\ producer = "reading" /\ MutexFree /\ ~closed
  /\ n > 0 => end <= SourceBytes
  /\ n = 0 => err # "nil"
  /\ nextOffset' = end
  /\ size' = sizes
  /\ charged' = charged \cup data
  /\ reserved' = reserved - (IF n > 0 THEN 0 ELSE 1)
  /\ eof' = (err # "nil")
  /\ srcErr' = (err = "fail")
  /\ IF err = "eof" /\ tail = {}
       THEN pending' = ready \cup {end} /\ final' = {end}
       ELSE pending' = ready /\ final' = IF err = "eof" THEN tail ELSE {}
  /\ live' = live
  /\ finished' = (err # "nil" /\ NowDone)
  /\ producer' = IF err = "nil" THEN "checking" ELSE "exited"
  /\ WakeLanes
  /\ UNCHANGED <<ledger, path, urgent, attempts, liveBytes, nextAttempt, closed,
                 dead, cancelled>>

MutProducerDiscards ==
  /\ producer = "reading" /\ MutexFree /\ closed
  /\ reserved' = reserved
  /\ producer' = "exited"
  /\ UNCHANGED <<ledger, source, charged, path, urgent, pending, live, attempts,
                 liveBytes, nextAttempt, closed, finished, puller, dead, cancelled>>

\* Close came while Read ran: the reservation goes back.
ProducerDiscards ==
  /\ producer = "reading" /\ MutexFree /\ closed
  /\ reserved' = reserved - 1
  /\ producer' = "exited"
  /\ UNCHANGED <<ledger, source, charged, path, urgent, pending, live, attempts,
                 liveBytes, nextAttempt, closed, finished, puller, dead, cancelled>>

-----------------------------------------------------------------------------
(* The lane pullers: runLanePuller, Next and sendChunk *)

\* startLanePuller, for a lane the flow began with or one that joined later.
StartPuller(l) ==
  /\ puller[l] = "absent" /\ ~cancelled
  /\ puller' = [puller EXCEPT ![l] = "asking"]
  /\ UNCHANGED <<ledger, source, memory, path, urgent, pending, live, attempts,
                 liveBytes, nextAttempt, closed, finished, producer, dead, cancelled>>

\* Next returns without a chunk: closed, cancelled, or the stream is finished.
NextReturns(l) ==
  /\ puller[l] = "asking" /\ MutexFree
  /\ closed \/ cancelled \/ (MayAsk(l) /\ Takeable(l) = {} /\ Drained)
  /\ puller' = [puller EXCEPT ![l] = "retiring"]
  /\ UNCHANGED <<ledger, source, memory, path, urgent, pending, live, attempts,
                 liveBytes, nextAttempt, closed, finished, producer, dead, cancelled>>

\* Next dispatches the chunk takeReadyLocked picked.
NextTakes(l) ==
  LET id == nextAttempt + 1 IN
  /\ puller[l] = "asking" /\ MutexFree /\ ~closed /\ ~cancelled
  /\ MayAsk(l) /\ nextAttempt < MaxAttempts
  /\ \E o \in Takeable(l), r \in LaneModes[l] :
       /\ pending' = pending \ {o}
       /\ urgent' = urgent \ {o}
       /\ live' = live \cup {o}
       /\ liveBytes' = liveBytes + (IF o \in live THEN 0 ELSE size[o])
       /\ attempts' = attempts \cup
            {[id |-> id, off |-> o, lane |-> l, reliable |-> r,
              written |-> FALSE, expired |-> FALSE]}
       /\ laneLoad' = [laneLoad EXCEPT ![l] = @ + 1]
       /\ laneBytes' = [laneBytes EXCEPT ![l] = @ + size[o]]
       /\ laneQueued' = [laneQueued EXCEPT ![l] = @ + size[o]]
       /\ totalBytes' = totalBytes + size[o]
       /\ copies' = copies \cup
            {[id |-> id, off |-> o, lane |-> l, reliable |-> r, stage |-> "held"]}
  /\ nextAttempt' = id
  /\ WakeProducer
  /\ puller' = [puller EXCEPT ![l] = "sending"]
  /\ UNCHANGED <<source, memory, acked, closed, finished, dead, cancelled>>

\* Next found nothing for this lane.  Between its last check and the queueing of
\* its Wait it still holds the mutex ...
NextDecidesToWait(l) ==
  /\ puller[l] = "asking" /\ MutexFree /\ ~closed /\ ~cancelled /\ ~WorkFor(l)
  /\ puller' = [puller EXCEPT ![l] = "parking"]
  /\ UNCHANGED <<ledger, source, memory, path, urgent, pending, live, attempts,
                 liveBytes, nextAttempt, closed, finished, producer, dead, cancelled>>

\* ... and Wait queues the lane and releases it.
NextWaits(l) ==
  /\ puller[l] = "parking"
  /\ puller' = [puller EXCEPT ![l] = "parked"]
  /\ UNCHANGED <<ledger, source, memory, path, urgent, pending, live, attempts,
                 liveBytes, nextAttempt, closed, finished, producer, dead, cancelled>>

\* A copy that is written and acknowledged can change nothing any more.
Trim(C, A) == {c \in C : c.stage # "written" \/ c.off \notin A}

\* sendChunk queued the frame at the lane's writer, or had nothing to send: an
\* empty range is covered by definition.
SendSucceeds(l) ==
  \E c \in copies :
    /\ c.lane = l /\ c.stage = "held"
    /\ puller' = [puller EXCEPT ![l] = IF l \in dead THEN "retiring" ELSE "asking"]
    /\ IF size[c.off] = 0
         THEN copies' = copies \ {c} /\ acked' = acked \cup {c.off}
         ELSE copies' = (copies \ {c}) \cup {[c EXCEPT !.stage = "queued"]}
              /\ acked' = acked
    /\ UNCHANGED <<ledger, source, memory, urgent, pending, live, attempts,
                   liveBytes, nextAttempt, closed, finished, producer, dead, cancelled>>

\* sendChunk failed; the puller calls Fail and leaves.
SendFails(l) ==
  \E c \in copies :
    LET mine == AttemptOf(c)
        last == mine # {} /\ AttemptsOf(c.off) = mine
    IN
    /\ c.lane = l /\ c.stage = "held" /\ MutexFree
    /\ l \in dead \/ cancelled
    /\ attempts' = attempts \ mine
    /\ ReleaseLanes(mine)
    /\ Requeue(IF last THEN {c.off} ELSE {})
    /\ puller' = [IF mine # {} THEN Broadcast(puller) ELSE puller
                     EXCEPT ![l] = "retiring"]
    /\ copies' = copies \ {c}
    /\ UNCHANGED <<source, memory, acked, live, liveBytes, nextAttempt, closed,
                   finished, producer, dead, cancelled>>

\* RetireLane: the attempts of a lane end, its ledger entries are deleted.
RetireLane(l) ==
  LET mine   == On(l, attempts)
      orphan == {o \in live : AttemptsOf(o) # {} /\ AttemptsOf(o) \subseteq mine}
      freed  == Min({laneBytes[l], Bytes(mine)}) IN
  /\ MutexFree
  /\ attempts' = attempts \ mine
  /\ Requeue(orphan)
  /\ totalBytes' = Monus(totalBytes, freed)
  /\ laneLoad' = [laneLoad EXCEPT ![l] = 0]
  /\ laneBytes' = [laneBytes EXCEPT ![l] = 0]
  /\ laneQueued' = [laneQueued EXCEPT ![l] = 0]

\* The puller's deferred RetireLane.
PullerRetires(l) ==
  /\ puller[l] = "retiring"
  /\ RetireLane(l)
  /\ puller' = [Broadcast(puller) EXCEPT ![l] = "exited"]
  /\ UNCHANGED <<source, memory, path, live, liveBytes, nextAttempt, closed,
                 finished, producer, dead, cancelled>>

\* failLane: the lane dies under whatever its puller is doing.
LaneFails(l) ==
  /\ l \in MortalLanes \ dead /\ puller[l] \notin {"absent", "exited"}
  /\ RetireLane(l)
  /\ dead' = dead \cup {l}
  /\ WakeLanes
  /\ UNCHANGED <<source, memory, path, live, liveBytes, nextAttempt, closed,
                 finished, producer, cancelled>>

-----------------------------------------------------------------------------
(* The lane writers, the path, the watcher, the supervisor, the teardown *)

\* Wrote: the transport took the bytes of one dispatched copy.  The attempt is
\* found by its id; it may be gone.
Wrote(c) ==
  LET mine == {a \in AttemptOf(c) : ~a.written} IN
  /\ c.stage = "queued" /\ MutexFree
  /\ copies' = Trim((copies \ {c}) \cup {[c EXCEPT !.stage = "written"]}, acked)
  /\ attempts' = (attempts \ mine) \cup {[a EXCEPT !.written = TRUE] : a \in mine}
  /\ laneQueued' = [laneQueued EXCEPT ![c.lane] = Monus(@, Bytes(mine))]
  /\ puller' = IF mine # {} THEN Broadcast(puller) ELSE puller
  /\ UNCHANGED <<laneLoad, laneBytes, totalBytes, source, memory, acked, urgent,
                 pending, live, liveBytes, nextAttempt, closed, finished,
                 producer, dead, cancelled>>

\* The peer received one copy and its acknowledgement came back.  A copy for
\* which this never happens is lost.
Deliver(c) ==
  /\ c.stage # "held" /\ c.off \notin acked
  /\ acked' = acked \cup {c.off}
  /\ copies' = Trim(copies, acked')
  /\ UNCHANGED <<ledger, source, memory, urgent, pending, live, attempts, liveBytes,
                 nextAttempt, closed, finished, producer, puller, dead, cancelled>>

\* Complete, called by watchChunkCompletion for an acknowledged chunk.
Complete(o) ==
  LET mine == AttemptsOf(o) IN
  /\ o \in acked /\ o \in live \cup pending /\ MutexFree
  /\ attempts' = attempts \ mine
  /\ ReleaseLanes(mine)
  /\ live' = live \ {o}
  /\ liveBytes' = Monus(liveBytes, IF o \in live THEN size[o] ELSE 0)
  /\ RemovePending(o)
  /\ ReleaseChunks({o})
  /\ UNCHANGED source
  /\ finished' = (finished \/ NowDone)
  /\ WakeProducer
  /\ WakeLanes
  /\ UNCHANGED <<path, nextAttempt, closed, dead, cancelled>>

\* The deadline of an attempt passes.
DeadlinePasses(a) ==
  /\ RetransmitTimer /\ ~a.expired
  /\ SpuriousExpiry \/ a.reliable \/ a.id <= LossyAttempts
  /\ attempts' = (attempts \ {a}) \cup {[a EXCEPT !.expired = TRUE]}
  /\ UNCHANGED <<ledger, source, memory, path, urgent, pending, live, liveBytes,
                 nextAttempt, closed, finished, producer, puller, dead, cancelled>>

\* Chunks a re-offer may consider: carried by somebody and not yet re-offered.
Carried == {o \in live \ pending : AttemptsOf(o) # {}}

\* ReissueExpired, one sweep of superviseChunks: written unreliable attempts past
\* their deadline are retired and their chunks re-offered once none is left; a
\* lone expired reliable attempt gets a new deadline and its chunk a second offer.
ReissueExpired ==
  LET retired == {a \in attempts : a.off \in Carried /\ Terminal(a) /\ a.expired}
      kept(o) == AttemptsOf(o) \ retired
      lost    == {o \in Carried : kept(o) = {}}
      slow    == {o \in Carried : \E a \in kept(o) :
                                    kept(o) = {a} /\ a.reliable /\ a.expired}
      taken   == {o \in slow : \/ ReissueBurst = 0
                              \/ Cardinality({p \in slow : p < o}) < ReissueBurst}
  IN
  /\ RetransmitTimer /\ MutexFree
  /\ retired # {} \/ taken # {}
  /\ attempts' = {IF a.off \in taken THEN [a EXCEPT !.expired = FALSE] ELSE a
                    : a \in attempts \ retired}
  /\ ReleaseLanes(retired)
  /\ Requeue(lost \cup taken)
  /\ puller' = IF lost \cup taken # {} THEN Broadcast(puller) ELSE puller
  /\ UNCHANGED <<source, memory, path, live, liveBytes, nextAttempt, closed,
                 finished, producer, dead, cancelled>>

\* ReissueUnacknowledgedBelow: bytes acknowledged LostEvidence beyond a chunk
\* prove its written unreliable copies lost.
ReissueUnacknowledgedBelow(bound) ==
  LET below   == {o \in Carried : EndOf(o) <= bound}
      retired == {a \in attempts : a.off \in below /\ Terminal(a)}
      lost    == {o \in below : AttemptsOf(o) \subseteq retired}
  IN
  /\ MutexFree /\ retired # {}
  /\ attempts' = attempts \ retired
  /\ ReleaseLanes(retired)
  /\ Requeue(lost)
  /\ puller' = IF lost # {} THEN Broadcast(puller) ELSE puller
  /\ UNCHANGED <<source, memory, path, live, liveBytes, nextAttempt, closed,
                 finished, producer, dead, cancelled>>

\* watchChunkCompletion takes the bound from the highest acknowledged byte.
EvidenceArrives ==
  \E o \in acked : /\ EndOf(o) > LostEvidence
                   /\ ReissueUnacknowledgedBelow(EndOf(o) - LostEvidence)

\* The send context ends.  The AfterFunc of every Next broadcasts, without the
\* mutex.
Cancel ==
  /\ ~cancelled
  /\ finished \/ EndsEarly
  /\ cancelled' = TRUE
  /\ WakeLanes
  /\ UNCHANGED <<ledger, source, memory, path, urgent, pending, live, attempts,
                 liveBytes, nextAttempt, closed, finished, producer, dead>>

\* Close, deferred by sendInnerStriped behind its cancel.
Close ==
  /\ cancelled /\ ~closed /\ MutexFree
  /\ closed' = TRUE
  /\ ReleaseChunks(pending \cup live)
  /\ pending' = {} /\ urgent' = {} /\ live' = {} /\ attempts' = {}
  /\ WakeLanes
  /\ WakeProducer
  /\ UNCHANGED <<ledger, source, path, liveBytes, nextAttempt, finished, dead,
                 cancelled>>

AllExited ==
  /\ producer = "exited"
  /\ \A l \in Lanes : puller[l] \in {"absent", "exited"}

\* Everything has stopped, or the bound on dispatches was reached.
Terminated ==
  /\ (closed /\ AllExited) \/ nextAttempt = MaxAttempts
  /\ UNCHANGED vars

ProducerStep ==
  \/ ProducerChecks \/ ProducerAcquires \/ ProducerRefused \/ ProducerDiscards
  \/ \E n \in ReadSizes \cup {0}, err \in ReadErrors : ProducerReads(n, err)

PullerStep(l) ==
  \/ StartPuller(l) \/ NextReturns(l) \/ NextTakes(l) \/ NextDecidesToWait(l)
  \/ NextWaits(l) \/ SendSucceeds(l) \/ SendFails(l) \/ PullerRetires(l)

Work ==
  \/ ProducerStep
  \/ \E l \in Lanes : PullerStep(l) \/ LaneFails(l)
  \/ \E c \in copies : Wrote(c) \/ Deliver(c)
  \/ \E o \in acked : Complete(o)
  \/ \E a \in attempts : DeadlinePasses(a)
  \/ ReissueExpired \/ EvidenceArrives
  \/ Cancel \/ Close

Next == Work \/ Terminated

Spec == Init /\ [][Next]_vars

-----------------------------------------------------------------------------
(* Properties *)

\* The variables have their types.
TypeOK ==
  /\ nextOffset \in Offsets /\ size \in [Offsets -> Nat]
  /\ final \subseteq Offsets /\ urgent \subseteq Offsets
  /\ charged \subseteq Offsets /\ pending \subseteq Offsets
  /\ live \subseteq Offsets /\ acked \subseteq Offsets
  /\ attempts \subseteq AttemptRecords /\ copies \subseteq CopyRecords
  /\ laneLoad \in [Lanes -> Nat] /\ laneBytes \in [Lanes -> Nat]
  /\ laneQueued \in [Lanes -> Nat] /\ totalBytes \in Nat /\ liveBytes \in Nat
  /\ nextAttempt \in 0..MaxAttempts
  /\ eof \in BOOLEAN /\ srcErr \in BOOLEAN /\ closed \in BOOLEAN
  /\ finished \in BOOLEAN /\ cancelled \in BOOLEAN
  /\ reserved \in 0..MemUnits
  /\ producer \in {"checking", "parked", "acquiring", "reading", "exited"}
  /\ puller \in [Lanes -> {"absent", "asking", "parking", "parked", "sending",
                           "retiring", "exited"}]
  /\ dead \subseteq MortalLanes

\* Fail, RetireLane and the two re-offers end attempts; a chunk whose last attempt
\* ended is back in the ready set, or nobody would ever carry it again.
NothingStranded == \A o \in live : AttemptsOf(o) # {} \/ o \in pending

\* Between its reading and its acknowledgement every byte is in exactly one
\* retained chunk, whatever fails: re-offering duplicates no range and loses none.
EveryByteHeldOrAcked ==
  ~closed => \A b \in 0 .. nextOffset - 1 :
    \E o \in (live \cup pending \cup acked) :
      /\ o <= b /\ b < EndOf(o)
      /\ \A p \in live \cup pending : p # o => b < p \/ EndOf(p) <= b

\* laneLoad, laneBytes, laneQueued, totalBytes and liveBytes are exactly what the
\* attempts in flight add up to, so no saturating subtraction ever saturates and
\* no retired copy keeps an admission charge.
LedgerAgrees ==
  ~closed =>
    /\ \A l \in Lanes :
         LET mine == On(l, attempts) IN
         /\ laneLoad[l] = Cardinality(mine)
         /\ laneBytes[l] = Bytes(mine)
         /\ laneQueued[l] = Bytes({a \in mine : ~a.written})
    /\ totalBytes = Bytes(attempts)
    /\ liveBytes = BytesAt(live)

\* A chunk is on at most two lanes, a lane never carries it twice, and only a
\* lone reliable original is ever offered a second time: what keeps recovery from
\* multiplying traffic.
OneSpeculativeCopy ==
  \A o \in live :
    /\ Cardinality(AttemptsOf(o)) + (IF o \in pending THEN 1 ELSE 0) <= 2
    /\ \A a, b \in AttemptsOf(o) : a.lane = b.lane => a = b
    /\ o \in pending => \A a \in AttemptsOf(o) : a.reliable

\* What is in flight is charged once and carried at most twice (stripe.go:690, 769).
AttemptInv == LedgerAgrees /\ OneSpeculativeCopy

\* Chunks that came back are urgent and stand before every fresh chunk, which is
\* what lets takeReadyLocked stop its scan at the first chunk without room.
RecoveryWorkFirst ==
  /\ pending \cap live = pending \cap urgent
  /\ \A u \in pending \cap urgent, f \in pending \ urgent : u < f

\* One reservation per retained data chunk, plus the one the producer reads into;
\* each is released exactly once, whichever of Complete, Close and the producer
\* comes first.  And a stalled transfer does not buffer the stream: chunks and
\* retained bytes stay bounded although the mutex is released during Acquire and Read.
RetentionIsBounded ==
  /\ charged = {o \in live \cup pending : size[o] > 0}
  /\ reserved = Cardinality(charged) + (IF producer = "reading" THEN 1 ELSE 0)
  /\ Cardinality(pending \cup live) <= MaxOutstanding
  /\ ~closed => RetainedBytes <= RetainBytes - 1 + ChunkSize

\* Done closes only when the source ended and the peer has every byte of it; Final is
\* only ever on the chunk that ends the stream, also when the tail was in flight or
\* re-offered at EOF.
DoneMeansDelivered ==
  /\ finished =>
       /\ eof /\ pending = {} /\ live = {}
       /\ \A b \in 0 .. nextOffset - 1 : \E o \in acked : o <= b /\ b < EndOf(o)
  /\ \A o \in final : eof /\ ~srcErr /\ EndOf(o) = nextOffset

\* The producer sleeps only while it may not read, and no lane sleeps in Next while
\* takeReadyLocked would hand it a chunk or the stream is finished: every step that
\* frees retention signals, every step that makes work or frees space broadcasts.
SleepersHaveNoWork ==
  /\ producer = "parked" => NoReadAhead /\ ~closed
  /\ \A l \in Lanes : puller[l] = "parked" => ~closed /\ ~WorkFor(l)

\* A chunk the peer acknowledged is not dispatched as new work after Complete.
NoFreshDispatchOfAcked ==
  [][\A o \in live' \ live : o \notin acked]_vars

\* An attempt ends only because its chunk was acknowledged, its own lane died or
\* gave up this very dispatch, it was a written unreliable copy, or the flow is
\* torn down, and only the transport that took a dispatch marks it written: a stale
\* callback of a retired attempt never touches its replacement.
CallbacksFindTheirOwn ==
  [][/\ \A a \in attempts :
          (\A b \in attempts' : b.id # a.id) =>
             \/ a.off \in acked
             \/ a.lane \in dead' \/ puller'[a.lane] \in {"retiring", "exited"}
             \/ ~a.reliable /\ a.written
             \/ closed'
     /\ \A a \in attempts, b \in attempts' :
          a.id = b.id /\ ~a.written /\ b.written =>
            \E c \in copies \ copies' : c.id = a.id /\ c.stage = "queued"]_vars

\* However the flow is torn down, also while the producer waits for memory or reads
\* and while a cancellation was missed, nothing stops halfway: when no step is left
\* every goroutine has exited and the endpoint has all its memory back.
TeardownReleasesAll ==
  cancelled /\ ~ENABLED Work => AllExited /\ reserved = 0

\* What is in flight and what is retained is charged once, and both are bounded
\* (releaseLaneLocked, stripe.go:690; retainedBytes, stripe.go:392).
LedgersInv == AttemptInv /\ RetentionIsBounded

\* The scheduler in its types: it loses no byte and calls a stream done only when it is
\* (produce, stripe.go:309; doneLocked).
StripeInv == TypeOK /\ EveryByteHeldOrAcked /\ DoneMeansDelivered

\* Nobody sleeps beside work, and a teardown leaves nobody and nothing behind
\* (Close, stripe.go:1073).
NobodyWaitsInVain == SleepersHaveNoWork /\ TeardownReleasesAll

-----------------------------------------------------------------------------
(* Fairness and liveness *)

\* Goroutines run; a source yields; a live lane's writer reaches every queued
\* frame; what a live reliable lane wrote arrives, and so does an unreliable copy
\* beyond the losses of the path; deadlines pass for copies that will not arrive.
Arrives(c) ==
  /\ c.stage = "written" /\ c.lane \notin dead
  /\ c.reliable \/ c.id > LossyAttempts
  /\ Deliver(c)

GoroutineFairness ==
  /\ WF_vars(ProducerStep)
  /\ \A l \in Lanes : WF_vars(PullerStep(l))
  /\ WF_vars(\E c \in copies : Wrote(c))
  /\ WF_vars(\E o \in acked : Complete(o))
  /\ WF_vars(ReissueExpired)

PathFairness ==
  /\ WF_vars(\E c \in copies : Arrives(c))
  /\ WF_vars(\E a \in attempts : ~a.reliable /\ a.id <= LossyAttempts /\ DeadlinePasses(a))

FairSpec == Spec /\ GoroutineFairness /\ PathFairness /\ WF_vars(Close)

\* Every chunk is eventually acknowledged and Done closes, as long as a lane is
\* left: lost copies, lane failures and full windows delay a stream, never stop it.
StreamDrains == <>(finished \/ cancelled \/ dead = Lanes)
=============================================================================
