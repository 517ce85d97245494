------------------------------- MODULE AckPath -------------------------------
(***************************************************************************)
(* The acknowledgement path of one direction of a flow, which is the clock  *)
(* of its sender: the receive loop that reports arrivals                    *)
(* (acknowledgeArrival), the loop that coalesces and writes ACKs (ackLoop),  *)
(* the sender's record of what the peer holds (acktrack.go), and the pair   *)
(* trackChunk / watchChunkCompletion that turns it into completed chunks    *)
(* (stripedsend.go, mpflow.go).                                             *)
(*                                                                         *)
(* A chunk covers one unit of the stream, [o, o+1), except the empty chunk  *)
(* that may end it, [N, N).  The scheduler (module StripeScheduler) is       *)
(* reduced to: a chunk may be dispatched, more than once, until it is        *)
(* completed.  Waiting out the coalescing delay is not modelled.            *)
(***************************************************************************)
EXTENDS Integers, FiniteSets, FiniteSetsExt

CONSTANTS
  N,               \* data chunks of the stream
  EmptyFinal,      \* the stream ends with an empty chunk
  Pullers,         \* lane pullers
  MaxDispatches,   \* bound: dispatches
  MaxAckRanges,    \* protocol.MaxAckRanges
  LostEvidence,    \* lostChunkEvidence
  MaxLaneDeaths    \* bound: lane deaths

ASSUME AckPathConstants ==
  /\ N \in Nat \ {0} /\ EmptyFinal \in BOOLEAN
  /\ MaxDispatches \in Nat /\ MaxAckRanges \in Nat \ {0}
  /\ LostEvidence \in Nat /\ MaxLaneDeaths \in Nat

Bytes    == 0 .. N - 1
Chunks   == Bytes \cup (IF EmptyFinal THEN {N} ELSE {})
EndOf(o) == IF o = N THEN N ELSE o + 1
Spans    == {s \in (0..N) \X (0..N) : s[1] < s[2]}

VARIABLES
  \* the sender: multipathFlow, ackTracker, and its goroutines
  highestSent, cumulative, ranges, changed, outstanding, done, puller, watcher,
  dispatches, reissueBound, rejected,
  \* the receiver: Reassembler cursor and buffer, and what ackLoop works from
  next, buffered, pendingRanges, ackSequence, gap, repeat, wake, loop,
  \* the path
  data, acks, deaths

sender   == <<highestSent, cumulative, ranges, changed, outstanding, done, puller,
              watcher, dispatches, reissueBound, rejected>>
receiver == <<next, buffered, pendingRanges, ackSequence, gap, repeat, wake, loop>>
links    == <<data, acks, deaths>>
ackVars  == <<sender, receiver, links>>

-----------------------------------------------------------------------------
(* ackTracker: a cumulative point and disjoint spans above it *)

\* The span of R that begins at b, the longest of several, <<b, b>> for none: what a
\* pass in ascending order, which begins lower first, makes of the spans at b.
SpanAt(R, b) == <<b, Max({b} \cup {e \in 0..N : <<b, e>> \in R})>>

\* Variants named Mut... are faulty readings of the definition that follows them;
\* no specification uses them, a property must fail when one replaces it.
MutMerge(R) == R

\* mergeLocked coalesces what overlaps or touches the last merged span (none yet:
\* <<0, 0>>).  t[n] is what the pass has made of the spans that begin below n.
Coalesced(t, r) ==
  IF r[2] = r[1] THEN t
  ELSE IF r[1] <= t.last[2] THEN [t EXCEPT !.last = <<@[1], IF r[2] > @[2] THEN r[2] ELSE @[2]>>]
  ELSE [merged |-> t.merged \cup ({t.last} \cap Spans), last |-> r]

Merge(R) ==
  LET t[n \in 0..N] == IF n = 0 THEN [merged |-> {}, last |-> <<0, 0>>]
                       ELSE Coalesced(t[n - 1], SpanAt(R, n - 1))
  IN  t[N].merged \cup ({t[N].last} \cap Spans)

MutFolded(t, r) ==
  IF r[2] <= t.cumulative \/ r[2] = r[1] THEN t
  ELSE IF r[1] <= t.cumulative + 1 THEN [t EXCEPT !.cumulative = r[2]]
  ELSE [t EXCEPT !.ranges = @ \cup {r}]

\* compactLocked: in ascending order one pass folds every span the moving
\* cumulative point reaches; the repetition in the code then changes nothing.
Folded(t, r) ==
  IF r[2] <= t.cumulative \/ r[2] = r[1] THEN t
  ELSE IF r[1] <= t.cumulative THEN [t EXCEPT !.cumulative = r[2]]
  ELSE [t EXCEPT !.ranges = @ \cup {r}]

Compact(c, R) ==
  LET t[n \in 0..N] == IF n = 0 THEN [cumulative |-> c, ranges |-> {}]
                       ELSE Folded(t[n - 1], SpanAt(R, n - 1))
  IN  t[N]

MutCovered(c, R, start, end) ==
  end <= start \/ end <= c \/ \E r \in R : r[1] <= start /\ start < r[2]

\* coveredLocked, and covers of a snapshot: how far the spans reach from `at`.
Reached(at, r) == IF r[1] > at \/ r[2] <= at THEN at ELSE r[2]

Covered(c, R, start, end) ==
  LET t[n \in 0..N] == IF n = 0 THEN (IF start < c THEN c ELSE start)
                       ELSE Reached(t[n - 1], SpanAt(R, n - 1))
  IN  end <= start \/ end <= c \/ t[N] >= end

\* highest of a snapshot
Highest(c, R) == Max({c} \cup {r[2] : r \in R})

-----------------------------------------------------------------------------
(* What the receiver holds *)

\* ReceivedRanges: the spans held above the cursor, lowest first, truncated.
ReceivedRanges(B) ==
  LET held  == Merge({<<o, o + 1>> : o \in B})
      lower(r) == Cardinality({s \in held : s[1] < r[1]})
  IN {r \in held : lower(r) < MaxAckRanges}

\* The cursor after consumeContiguous reaches b.
Cursor(b, B) == Min({o \in b .. N : o \notin B})

-----------------------------------------------------------------------------
Idle == [pc |-> "idle", off |-> 0]

AckInit ==
  /\ highestSent = 0 /\ cumulative = 0 /\ ranges = {} /\ changed = FALSE
  /\ outstanding = {} /\ done = {} /\ dispatches = 0
  /\ puller = [p \in Pullers |-> Idle]
  /\ watcher = [pc |-> "snapshot", cumulative |-> 0, ranges |-> {},
                completed |-> {}]
  /\ reissueBound = 0 /\ rejected = FALSE
  /\ next = 0 /\ buffered = {} /\ pendingRanges = {} /\ ackSequence = 0
  /\ gap = FALSE /\ repeat = FALSE /\ wake = FALSE
  /\ loop = [pc |-> "waiting", sequence |-> 0, sent |-> 0]
  /\ data = {} /\ acks = {} /\ deaths = 0

-----------------------------------------------------------------------------
(* The pullers: sendChunk and trackChunk *)

MutNoteSent(p) ==
  /\ puller[p].pc = "idle" /\ dispatches < MaxDispatches
  /\ \E o \in Chunks \ done :
       /\ puller' = [puller EXCEPT ![p] = [pc |-> "noted", off |-> o]]
       /\ highestSent' = Max({highestSent, o})
  /\ dispatches' = dispatches + 1
  /\ UNCHANGED <<cumulative, ranges, changed, outstanding, done, watcher,
                 reissueBound, rejected, receiver, links>>

\* Next handed out a chunk and sendChunk ran noteSent.
NoteSent(p) ==
  /\ puller[p].pc = "idle" /\ dispatches < MaxDispatches
  /\ \E o \in Chunks \ done :
       /\ puller' = [puller EXCEPT ![p] = [pc |-> "noted", off |-> o]]
       /\ highestSent' = Max({highestSent, EndOf(o)})
  /\ dispatches' = dispatches + 1
  /\ UNCHANGED <<cumulative, ranges, changed, outstanding, done, watcher,
                 reissueBound, rejected, receiver, links>>

\* The frame is on the lane's queue; an empty chunk sends nothing.
Enqueue(p) ==
  /\ puller[p].pc = "noted"
  /\ puller' = [puller EXCEPT ![p].pc = "queued"]
  /\ data' = data \cup ({puller[p].off} \cap Bytes)
  /\ UNCHANGED <<highestSent, cumulative, ranges, changed, outstanding, done, watcher,
                 dispatches, reissueBound, rejected, receiver, acks, deaths>>

\* trackChunk under chunkMu: one record per offset.  A range already recorded
\* returns at once.
TrackChunk(p) ==
  LET o == puller[p].off IN
  /\ puller[p].pc = "queued"
  /\ outstanding' = outstanding \cup {o}
  /\ puller' = [puller EXCEPT ![p] = IF o \in outstanding THEN Idle ELSE [@ EXCEPT !.pc = "tracked"]]
  /\ UNCHANGED <<highestSent, cumulative, ranges, changed, done, watcher, dispatches,
                 reissueBound, rejected, receiver, links>>

MutReconcile(p) ==
  /\ puller[p].pc = "tracked"
  /\ UNCHANGED changed
  /\ puller' = [puller EXCEPT ![p] = Idle]
  /\ UNCHANGED <<highestSent, cumulative, ranges, outstanding, done, watcher,
                 dispatches, reissueBound, rejected, receiver, links>>

\* The rest of trackChunk: Touch when the range is covered by now.
Reconcile(p) ==
  LET o == puller[p].off IN
  /\ puller[p].pc = "tracked"
  /\ changed' = (changed \/ Covered(cumulative, ranges, o, EndOf(o)))
  /\ puller' = [puller EXCEPT ![p] = Idle]
  /\ UNCHANGED <<highestSent, cumulative, ranges, outstanding, done, watcher,
                 dispatches, reissueBound, rejected, receiver, links>>

-----------------------------------------------------------------------------
(* watchChunkCompletion *)

MutUnguarded ==
  /\ watcher.pc = "snapshot"
  /\ watcher' = [watcher EXCEPT !.pc = "scan", !.cumulative = cumulative,
                                !.ranges = ranges]
  /\ reissueBound' = Highest(cumulative, ranges) - LostEvidence
  /\ UNCHANGED <<highestSent, cumulative, ranges, changed, outstanding, done, puller,
                 dispatches, rejected, receiver, links>>

MutWholePrefix ==
  /\ watcher.pc = "snapshot"
  /\ watcher' = [watcher EXCEPT !.pc = "scan", !.cumulative = cumulative,
                                !.ranges = ranges]
  /\ reissueBound' = Highest(cumulative, ranges)
  /\ UNCHANGED <<highestSent, cumulative, ranges, changed, outstanding, done, puller,
                 dispatches, rejected, receiver, links>>

\* Snapshot, and the bound it gives ReissueUnacknowledgedBelow.
WatcherSnapshots ==
  LET top == Highest(cumulative, ranges) IN
  /\ watcher.pc = "snapshot"
  /\ watcher' = [watcher EXCEPT !.pc = "scan", !.cumulative = cumulative,
                                !.ranges = ranges]
  /\ reissueBound' = IF top > LostEvidence THEN top - LostEvidence ELSE reissueBound
  /\ UNCHANGED <<highestSent, cumulative, ranges, changed, outstanding, done, puller,
                 dispatches, rejected, receiver, links>>

\* The pass over outstandingChunks under chunkMu, by the snapshot.
WatcherScans ==
  LET hit == {o \in outstanding :
                Covered(watcher.cumulative, watcher.ranges, o, EndOf(o))} IN
  /\ watcher.pc = "scan"
  /\ outstanding' = outstanding \ hit
  /\ watcher' = [pc |-> "complete", cumulative |-> 0, ranges |-> {}, completed |-> hit]
  /\ UNCHANGED <<highestSent, cumulative, ranges, changed, done, puller, dispatches,
                 reissueBound, rejected, receiver, links>>

\* Complete for each of them, after chunkMu was released.
WatcherCompletes ==
  /\ watcher.pc = "complete"
  /\ done' = done \cup watcher.completed
  /\ watcher' = [watcher EXCEPT !.pc = "wait", !.completed = {}]
  /\ UNCHANGED <<highestSent, cumulative, ranges, changed, outstanding, puller,
                 dispatches, reissueBound, rejected, receiver, links>>

\* WaitChange returns once the tracker moved since it last returned.
WatcherWakes ==
  /\ watcher.pc = "wait" /\ changed
  /\ watcher' = [watcher EXCEPT !.pc = "snapshot"]
  /\ changed' = FALSE
  /\ UNCHANGED <<highestSent, cumulative, ranges, outstanding, done, puller,
                 dispatches, reissueBound, rejected, receiver, links>>

-----------------------------------------------------------------------------
(* receiveProgressACK *)

\* Advance, when the cumulative point moves.
Advanced(sequence) ==
  IF sequence > cumulative THEN Compact(sequence, ranges)
                           ELSE [cumulative |-> cumulative, ranges |-> ranges]

\* Add, of ranges of which t does not hold all.
Added(t, news) ==
  IF news = {} THEN t ELSE Compact(t.cumulative, Merge(t.ranges \cup news))

\* A range or sequence beyond highestSent, or a range DecodeAckRanges refuses, fails the
\* flow.
ReceiveACK(a) ==
  LET advanced == Advanced(a.sequence)
      news     == {r \in a.ranges :
                     ~Covered(advanced.cumulative, advanced.ranges, r[1], r[2])}
      added    == Added(advanced, news)
      refused  == \/ \E r \in a.ranges : r[2] > highestSent \/ r[1] < a.sequence
                  \/ a.sequence > highestSent
  IN
  /\ acks' = acks \ {a}
  /\ rejected' = (rejected \/ refused)
  /\ IF refused
       THEN UNCHANGED <<cumulative, ranges, changed>>
       ELSE /\ cumulative' = added.cumulative
            /\ ranges' = added.ranges
            /\ changed' = (changed \/ a.sequence > cumulative \/ news # {})
  /\ UNCHANGED <<highestSent, outstanding, done, puller, watcher, dispatches,
                 reissueBound, receiver, data, deaths>>

-----------------------------------------------------------------------------
(* The receive loop *)

\* Insert, then acknowledgeArrival: an advance is scheduled, a gap is reported,
\* and a segment that moved nothing makes the last ACK be repeated.
ReceiveData(o) ==
  LET held   == IF o < next THEN buffered ELSE buffered \cup {o}
      cursor == Cursor(next, held)
      beyond == {b \in held : b >= cursor}
      moved  == cursor > next
  IN
  /\ data' = data \ {o}
  /\ next' = cursor /\ buffered' = beyond
  /\ ackSequence' = Max({ackSequence, cursor})
  /\ pendingRanges' = IF moved \/ beyond # {} THEN ReceivedRanges(beyond)
                      ELSE pendingRanges
  /\ gap' = (gap \/ (~moved /\ beyond # {}))
  /\ repeat' = (repeat \/ (~moved /\ next > 0))
  /\ wake' = (wake \/ moved \/ beyond # {} \/ next > 0)
  /\ UNCHANGED <<loop, sender, acks, deaths>>

-----------------------------------------------------------------------------
(* ackLoop *)

LoopWakes ==
  /\ loop.pc = "waiting" /\ wake
  /\ wake' = FALSE
  /\ loop' = [loop EXCEPT !.pc = "deciding"]
  /\ UNCHANGED <<next, buffered, pendingRanges, ackSequence, gap, repeat, sender, links>>

\* Load the sequence, take the flags, and leave when there is nothing to tell.
LoopDecides ==
  /\ loop.pc = "deciding"
  /\ loop' = IF ackSequence <= loop.sent /\ ~gap /\ ~repeat
               THEN [loop EXCEPT !.pc = "waiting"]
               ELSE [loop EXCEPT !.pc = "writing", !.sequence = ackSequence]
  /\ gap' = FALSE /\ repeat' = FALSE
  /\ UNCHANGED <<next, buffered, pendingRanges, ackSequence, wake, sender, links>>

\* takeReceivedRanges
Taken(R, sequence) == {r \in R : r[1] >= sequence}

\* The acknowledgement of writeACKPreferred: the first lane to take it carries it.
Acknowledgement(sequence) == [sequence |-> sequence, ranges |-> Taken(pendingRanges, sequence)]

\* writeACK succeeded.
LoopWrites ==
  LET ack == Acknowledgement(loop.sequence) IN
  /\ loop.pc = "writing"
  /\ pendingRanges' = ack.ranges
  /\ acks' = acks \cup {ack}
  /\ loop' = [loop EXCEPT !.pc = IF ackSequence <= loop.sequence THEN "waiting"
                                 ELSE "deciding",
                          !.sequence = 0, !.sent = loop.sequence]
  /\ UNCHANGED <<next, buffered, ackSequence, gap, repeat, wake, sender, data, deaths>>

\* writeACK failed on the last lane: when a lane is back, say it again.
LoopFails ==
  /\ loop.pc = "writing" /\ deaths < MaxLaneDeaths
  /\ deaths' = deaths + 1
  /\ pendingRanges' = Taken(pendingRanges, loop.sequence)
  /\ repeat' = TRUE
  /\ loop' = [loop EXCEPT !.pc = "deciding", !.sequence = 0]
  /\ UNCHANGED <<next, buffered, ackSequence, gap, wake, sender, data, acks>>

-----------------------------------------------------------------------------
(* The lanes *)

MutLaneReplaced ==
  /\ deaths < MaxLaneDeaths
  /\ deaths' = deaths + 1
  /\ \E D \in SUBSET data, A \in SUBSET acks : data' = D /\ acks' = A
  /\ UNCHANGED <<sender, receiver>>

\* A lane dies with what it carried and another one starts: startLane repeats the
\* acknowledgement on it.
LaneReplaced ==
  /\ deaths < MaxLaneDeaths
  /\ deaths' = deaths + 1
  /\ \E D \in SUBSET data, A \in SUBSET acks : data' = D /\ acks' = A
  /\ repeat' = (repeat \/ ackSequence > 0)
  /\ wake' = (wake \/ ackSequence > 0)
  /\ UNCHANGED <<next, buffered, pendingRanges, ackSequence, gap, loop, sender>>

\* Every goroutine waits for another one, and nothing is on the path.
AtRest ==
  /\ data = {} /\ acks = {} /\ ~wake
  /\ loop.pc = "waiting" /\ watcher.pc = "wait" /\ ~changed
  /\ \A p \in Pullers : puller[p].pc = "idle"

\* The bound on dispatches is reached and nothing is left to tell.
Quiet == dispatches = MaxDispatches /\ AtRest /\ UNCHANGED ackVars

PullerStep(p) == NoteSent(p) \/ Enqueue(p) \/ TrackChunk(p) \/ Reconcile(p)
WatcherStep   == WatcherSnapshots \/ WatcherScans \/ WatcherCompletes \/ WatcherWakes
AckLoopStep   == LoopWakes \/ LoopDecides \/ LoopWrites

AckNext ==
  \/ \E p \in Pullers : PullerStep(p)
  \/ WatcherStep \/ AckLoopStep \/ LoopFails \/ LaneReplaced
  \/ \E a \in acks : ReceiveACK(a)
  \/ \E o \in data : ReceiveData(o)
  \/ Quiet

AckSpec == AckInit /\ [][AckNext]_ackVars

-----------------------------------------------------------------------------
(* Properties *)

Held == {b \in Bytes : b < next} \cup buffered

Claimed(c, R) == {b \in Bytes : b < c \/ \E r \in R : r[1] <= b /\ b < r[2]}

\* The variables have their types.
AckTypeOK ==
  /\ highestSent \in 0..N /\ cumulative \in 0..N /\ ranges \subseteq Spans
  /\ changed \in BOOLEAN /\ outstanding \subseteq Chunks /\ done \subseteq Chunks
  /\ puller \in [Pullers -> [pc: {"idle", "noted", "queued", "tracked"}, off: Chunks]]
  /\ watcher \in [pc: {"snapshot", "scan", "complete", "wait"},
                  cumulative: 0..N, ranges: SUBSET Spans, completed: SUBSET Chunks]
  /\ dispatches \in 0..MaxDispatches /\ reissueBound \in 0..N /\ rejected \in BOOLEAN
  /\ next \in 0..N /\ buffered \subseteq Bytes /\ pendingRanges \subseteq Spans
  /\ ackSequence \in 0..N /\ gap \in BOOLEAN /\ repeat \in BOOLEAN /\ wake \in BOOLEAN
  /\ loop \in [pc: {"waiting", "deciding", "writing"}, sequence: 0..N, sent: 0..N]
  /\ data \subseteq Bytes /\ acks \subseteq [sequence: 0..N, ranges: SUBSET Spans]
  /\ deaths \in 0..MaxLaneDeaths

\* The tracker claims only bytes the peer holds, and what it answers for any range
\* is exactly membership in what it claims: merging and compacting lose and invent
\* nothing, whatever order reports arrive in.  And it holds the fewest spans that
\* describe the set: they are disjoint, apart, and above the cumulative point.
TrackerIsExact ==
  /\ Claimed(cumulative, ranges) \subseteq Held
  /\ LET claimed == Claimed(cumulative, ranges) IN
     \A start \in 0..N, end \in 0..N : start < end =>
       (Covered(cumulative, ranges, start, end) <=> start .. end - 1 \subseteq claimed)
  /\ \A r \in ranges : r[1] > cumulative
  /\ \A r, s \in ranges : r # s => r[2] < s[1] \/ s[2] < r[1]

\* The tracker in its types, and exact (ackTracker, acktrack.go:80).
TrackerInv == AckTypeOK /\ TrackerIsExact

\* No acknowledgement the receiver writes is one the sender's checks refuse, which
\* would fail the flow: ranges published for one cumulative point go out with
\* another one, late, and name bytes the sender has not finished tracking.
OwnAcksAccepted == ~rejected

\* The sender acts on what the peer really holds: a chunk leaves the scheduler only
\* once all of it arrived, and what ReissueUnacknowledgedBelow is told to distrust
\* lies LostEvidence below a byte that did.
CompletedIsHeld ==
  /\ \A o \in done : o \in Bytes => o \in Held
  /\ reissueBound > 0 => \E b \in Held : reissueBound + LostEvidence <= b + 1

\* When everybody waits, the sender knows the cursor the receiver reached, although
\* ackLoop coalesces arrivals and its wake-up channel holds one signal; and every tracked chunk the receiver has delivered is
\* completed: the race between the ACK, the watcher's pass and trackChunk loses no
\* wake-up, and an acknowledgement that died with its lane is made up for.  (A
\* chunk held behind a gap may have to wait for the gap: startLane repeats nothing
\* while the cursor is at zero.)
NothingLeftAtRest ==
  AtRest =>
    /\ cumulative = next
    /\ \A o \in outstanding : o \in Bytes /\ o >= next

\* The tracker is exact, the peer's reports are accepted and what they complete is held:
\* one account of the stream on both sides (acktrack.go:80, mpflow.go:2732).
AckInv == TrackerInv /\ OwnAcksAccepted /\ CompletedIsHeld
=============================================================================
