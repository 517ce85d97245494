----------------------------- MODULE BulkDemux -----------------------------
(***************************************************************************)
(* How a connection's datagrams reach the flows they belong to               *)
(* (queqiao/internal/pep/codedlane.go and frameconn.go): one goroutine        *)
(* receives and routes by flow; the lanes of a flow share one queue, and       *)
(* frames that come before their flow are held for it.  The table of            *)
(* demultiplexers is global, one per connection; when the connection ends, a   *)
(* cleaner deletes its entry and closes the path.                            *)
(*                                                                         *)
(* One connection.  A lane <<flow, n>> subscribes at most once; a frame is      *)
(* <<flow, n>> too and arrives at most once.  Sizes are left out, so of the       *)
(* two bounds on what is held only the number of frames remains.              *)
(***************************************************************************)
EXTENDS Integers, FiniteSets, Sequences

CONSTANTS
  BulkFlows,       \* flows of the connection
  BulkReaders,     \* bound: lanes, <<flow, n>>
  BulkFrames,      \* bound: datagram frames, <<flow, n>>
  BulkQueueFrames, \* bulkDemux.queueFrames
  HeldLimit        \* bulkDemux.heldFrames

ASSUME BulkDemuxConstants ==
  /\ {BulkQueueFrames, HeldLimit} \subseteq Nat \ {0}
  /\ (BulkReaders \cup BulkFrames) \subseteq (BulkFlows \X Nat)

\* A demultiplexer is made when a lane finds none: the first, and one after the
\* cleaner.  Channels are numbered as they are made.
Demuxes == 1 .. 2

VARIABLES
  path,      \* the coded path: "open", "dying" with its connection, "closed"
  entry,     \* the demultiplexer in bulkDemuxs, 0 for none
  made,      \* demultiplexers made
  routing,   \* those whose run goes on
  flows,     \* bulkDemux.flows: the channel of each subscribed flow, 0 for none
  held,      \* bulkDemux.held, in order of arrival
  expired,   \* of them, frames older than heldFrameLifetime
  chans,     \* each channel made: its frames, the lanes counted, and whether closed
  lane,      \* readLaneBulk or udpFrames: "idle", "found", "reading", "gone"
  using,     \* the demultiplexer a lane found
  reads,     \* the channel it reads
  coming,    \* frames that have not arrived
  spent      \* frames given to a lane, or given up for want of room or for their age

demuxVars == <<path, entry, made, routing, flows, held, expired, chans, lane, using, reads,
               coming, spent>>

DemuxInit ==
  /\ path = "open" /\ entry = 0 /\ made = 0 /\ routing = {}
  /\ flows = [d \in Demuxes |-> [f \in BulkFlows |-> 0]]
  /\ held = [d \in Demuxes |-> <<>>] /\ expired = {}
  /\ chans = <<>>
  /\ lane = [r \in BulkReaders |-> "idle"]
  /\ using = [r \in BulkReaders |-> 0] /\ reads = [r \in BulkReaders |-> 0]
  /\ coming = BulkFrames /\ spent = {}

-----------------------------------------------------------------------------
(* Lanes *)

\* connBulkDemux, under bulkDemuxMu: the entry, or a new demultiplexer.
FindDemux(r) ==
  /\ lane[r] = "idle" /\ lane' = [lane EXCEPT ![r] = "found"]
  /\ IF entry # 0
       THEN using' = [using EXCEPT ![r] = entry] /\ UNCHANGED <<entry, made, routing>>
       ELSE /\ made < 2 /\ made' = made + 1 /\ entry' = made + 1
            /\ routing' = routing \cup {made + 1} /\ using' = [using EXCEPT ![r] = made + 1]
  /\ UNCHANGED <<path, flows, held, expired, chans, reads, coming, spent>>

\* Those of the frames in s that are in S, in their order.
Among(S, s) ==
  LET kept[i \in 0 .. Len(s)] ==
        IF i = 0 THEN <<>>
        ELSE IF s[i] \in S THEN Append(kept[i - 1], s[i]) ELSE kept[i - 1]
  IN  kept[Len(s)]

OfFlow(f) == {m \in BulkFrames : m[1] = f}

MutWaiting(d, f) == <<>>

Waiting(d, f) == Among(OfFlow(f), held[d])

\* subscribe, under the demultiplexer's mutex: the first lane of a flow makes the
\* queue and is given what was held; the others share it.
Subscribe(r) ==
  LET d == using[r]  f == r[1]  early == Waiting(d, f)
      kept == SubSeq(early, 1, IF Len(early) < BulkQueueFrames THEN Len(early)
                                                               ELSE BulkQueueFrames) IN
  /\ lane[r] = "found" /\ lane' = [lane EXCEPT ![r] = "reading"]
  /\ IF flows[d][f] = 0
       THEN /\ chans' = Append(chans, [frames |-> kept, lanes |-> 1, closed |-> FALSE])
            /\ flows' = [flows EXCEPT ![d][f] = Len(chans) + 1]
            /\ reads' = [reads EXCEPT ![r] = Len(chans) + 1]
            /\ held' = [held EXCEPT ![d] = Among(BulkFrames \ OfFlow(f), @)]
            /\ expired' = {h \in expired : h[1] # f}
            /\ spent' = spent \cup {early[i] : i \in Len(kept) + 1 .. Len(early)}
       ELSE /\ chans' = [chans EXCEPT ![flows[d][f]].lanes = @ + 1]
            /\ reads' = [reads EXCEPT ![r] = flows[d][f]]
            /\ UNCHANGED <<flows, held, expired, spent>>
  /\ UNCHANGED <<path, entry, made, routing, using, coming>>

Take(r) ==
  /\ lane[r] = "reading" /\ chans[reads[r]].frames # <<>>
  /\ spent' = spent \cup {Head(chans[reads[r]].frames)}
  /\ chans' = [chans EXCEPT ![reads[r]].frames = Tail(@)]
  /\ UNCHANGED <<path, entry, made, routing, flows, held, expired, lane, using, reads, coming>>

MutReleased(d, f) ==
  /\ flows' = [flows EXCEPT ![d][f] = 0] /\ chans' = [chans EXCEPT ![flows[d][f]].closed = TRUE]

\* release: the last lane of a flow closes its queue.
Released(d, f) ==
  LET c == flows[d][f] IN
  IF chans[c].lanes > 1
    THEN chans' = [chans EXCEPT ![c].lanes = @ - 1] /\ UNCHANGED flows
    ELSE /\ chans' = [chans EXCEPT ![c].lanes = 0, ![c].closed = TRUE]
         /\ flows' = [flows EXCEPT ![d][f] = 0]

\* A lane ends with its flow or its framing, or finds its queue closed and empty.
\* releaseBulk looks its path up; without an entry there is nothing to release.
Leave(r) ==
  /\ lane[r] = "reading" /\ lane' = [lane EXCEPT ![r] = "gone"]
  /\ IF entry # 0 /\ flows[entry][r[1]] # 0
       THEN Released(entry, r[1])
       ELSE UNCHANGED <<flows, chans>>
  /\ UNCHANGED <<path, entry, made, routing, held, expired, using, reads, coming, spent>>

-----------------------------------------------------------------------------
(* run *)

\* holdLocked: what is too old goes first; beyond the limit the frame is dropped.
Hold(d, m) ==
  LET young == Among(BulkFrames \ expired, held[d])
      old   == {held[d][i] : i \in DOMAIN held[d]} \cap expired IN
  /\ expired' = expired \ old
  /\ IF Len(young) < HeldLimit
       THEN held' = [held EXCEPT ![d] = Append(young, m)] /\ spent' = spent \cup old
       ELSE held' = [held EXCEPT ![d] = young] /\ spent' = spent \cup old \cup {m}
  /\ UNCHANGED chans

MutRoute(d, m) == Hold(d, m)

\* The send happens under the mutex that release closes under, and never blocks.
Route(d, m) ==
  IF flows[d][m[1]] = 0 THEN Hold(d, m)
  ELSE LET c == flows[d][m[1]] IN
       /\ IF Len(chans[c].frames) < BulkQueueFrames
            THEN chans' = [chans EXCEPT ![c].frames = Append(@, m)] /\ UNCHANGED spent
            ELSE spent' = spent \cup {m} /\ UNCHANGED chans
       /\ UNCHANGED <<held, expired>>

\* What the path repaired before it closed is still received.
Receive(d, m) ==
  /\ d \in routing /\ m \in coming /\ coming' = coming \ {m}
  /\ Route(d, m)
  /\ UNCHANGED <<path, entry, made, routing, flows, lane, using, reads>>

\* Receive fails: every queue is closed, and run returns.
RunEnds(d) ==
  /\ d \in routing /\ path # "open" /\ routing' = routing \ {d}
  /\ chans' = [c \in DOMAIN chans |->
                 IF \E f \in BulkFlows : flows[d][f] = c THEN [chans[c] EXCEPT !.closed = TRUE]
                                                       ELSE chans[c]]
  /\ flows' = [flows EXCEPT ![d] = [f \in BulkFlows |-> 0]]
  /\ UNCHANGED <<path, entry, made, held, expired, lane, using, reads, coming, spent>>

Age ==
  /\ \E d \in Demuxes : held[d] # <<>>
  /\ expired' = UNION {{held[d][i] : i \in DOMAIN held[d]} : d \in Demuxes}
  /\ expired' # expired
  /\ UNCHANGED <<path, entry, made, routing, flows, held, chans, lane, using, reads, coming,
                 spent>>

-----------------------------------------------------------------------------
(* The connection and its cleaner (connBulkPath) *)

ConnectionEnds ==
  /\ path = "open" /\ path' = "dying"
  /\ UNCHANGED <<entry, made, routing, flows, held, expired, chans, lane, using, reads, coming,
                 spent>>

CleanerRuns ==
  /\ path = "dying" /\ path' = "closed" /\ entry' = 0
  /\ UNCHANGED <<made, routing, flows, held, expired, chans, lane, using, reads, coming, spent>>

-----------------------------------------------------------------------------
DemuxNext ==
  \/ \E r \in BulkReaders : FindDemux(r) \/ Subscribe(r) \/ Take(r) \/ Leave(r)
  \/ \E d \in Demuxes : RunEnds(d) \/ (\E m \in BulkFrames : Receive(d, m))
  \/ Age \/ ConnectionEnds \/ CleanerRuns

DemuxSpec == DemuxInit /\ [][DemuxNext]_demuxVars

-----------------------------------------------------------------------------
(* Properties *)

Readers(c) == {r \in BulkReaders : lane[r] = "reading" /\ reads[r] = c}

\* Until the cleaner has run, a flow's queue is open as long as one of its lanes
\* reads it and gone with the last: a lane that leaves takes it from no other and
\* leaves none behind (subscribe, release, codedlane.go:204).
SharesAreHeld ==
  path # "closed" =>
    \A d \in routing :
      /\ \A f \in BulkFlows : LET c == flows[d][f] IN
           c # 0 => ~chans[c].closed /\ Readers(c) # {} /\ chans[c].lanes = Cardinality(Readers(c))
      /\ \A r \in BulkReaders :
           lane[r] = "reading" /\ using[r] = d => flows[d][r[1]] = reads[r]

\* Every frame that arrived was taken, or is in a queue, or waits for a flow that
\* is not there yet, or was dropped for want of room or for its age: none is lost
\* between arrival and subscription, and none waits beside its own queue
\* (holdLocked and subscribe, codedlane.go:128).
FramesFindTheirFlow ==
  LET waiting == UNION {{held[d][i] : i \in DOMAIN held[d]} : d \in Demuxes}
      queued  == UNION {{chans[c].frames[i] : i \in DOMAIN chans[c].frames} : c \in DOMAIN chans} IN
  /\ BulkFrames \ coming = spent \cup queued \cup waiting
  /\ \A d \in Demuxes : /\ Len(held[d]) <= HeldLimit
                        /\ \A i \in DOMAIN held[d] : flows[d][held[d][i][1]] = 0

\* The queues of the demultiplexer are their lanes' and no frame is lost on the way
\* into one (codedlane.go:128 and 204).
DemuxInv == SharesAreHeld /\ FramesFindTheirFlow
=============================================================================
