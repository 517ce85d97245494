----------------------------- MODULE Lanes_proofs -----------------------------
(***************************************************************************)
(* First the write queue of a lane, for any number of producers and any sizes of *)
(* the queue and of its reserve: the balance of the slots alone is not         *)
(* inductive: the receive that frees a slot does not wait, so the proof needs   *)
(* that the frame the writer holds still owns one; and that an interactive      *)
(* frame is overtaken once at most rests on the writer's looking before it      *)
(* chooses (WriterShape).                                                    *)
(*                                                                         *)
(* Then the opening of flows, for any clients, flows and limits.  A place goes  *)
(* back where it came from only if it is known who took it: the proof adds to   *)
(* OpenInv that each pool is counted over a finite set of holders, and that a   *)
(* stream is open for nobody but the attempt its flow is at.                  *)
(*                                                                         *)
(* Then the outages of a flow's lanes, for any lanes, waiters and grace.  That    *)
(* nobody gives up early needs that a deadline has a waiter as long as the flow   *)
(* lives (OutagesHaveWaiters): time does not move on beside a healthy lane while  *)
(* one waits, so a deadline left over from an earlier outage is not joined.       *)
(*                                                                         *)
(* Then the frames on a lane's stream, for any number of writers and frames.     *)
(* That the peer decodes whole frames needs where the stream stands (FramesAre-  *)
(* Whole): until a frame is cut off it is pairs of halves, and after an odd one   *)
(* the lock's holder is inside that very frame; what was cut off stays so.        *)
(*                                                                         *)
(* Last the acknowledgements, for any stream, pullers and number of reported ranges.  *)
(* The passes over the tracker's spans are recursive functions over byte positions;  *)
(* what they yield is proved for every set of spans (MergeIsExact, CompactIsExact,   *)
(* CoveredIsExact).  That what the sender believes is held needs what is told on the *)
(* way: pending ranges, reports on the path and the watcher's copy (ClaimsAreHeld);   *)
(* that its checks refuse no report needs that nothing is held that was not noted as  *)
(* sent (HeldWasSent).                                                        *)
(***************************************************************************)
EXTENDS LaneWriter, FlowOpen, LaneLife, LaneWire, AckPath, SumTheorems, FiniteSetTheorems,
        SequenceTheorems, TLAPS

\* The producers with a slot and no place yet can be counted.
LEMMA PuttingIsFinite ==
  /\ IsFiniteSet(Producers)
  /\ IsFiniteSet(Putting) /\ Cardinality(Putting) \in Nat
<1>1. IsFiniteSet(Producers)
  BY WriterAssumption, FS_Singleton, FS_Union DEF Producers
<1>2. Putting \in SUBSET Producers
  BY DEF Putting
<1> QED
  BY <1>1, <1>2, FS_Subset, FS_CardinalityType

\* The goroutine p comes to the stage s of its enqueueing.
Moves(p, s) == producer' = [producer EXCEPT ![p] = s]

\* One producer gets a slot, or gives up its own: the count follows.
LEMMA PuttingMoves ==
  ASSUME WriterTypeOK, NEW p \in Producers, NEW s, Moves(p, s)
  PROVE  /\ s = "putting" /\ producer[p] # "putting" =>
              Cardinality(Putting') = Cardinality(Putting) + 1
         /\ s # "putting" /\ producer[p] = "putting" =>
              Cardinality(Putting') = Cardinality(Putting) - 1 /\ Cardinality(Putting) > 0
         /\ s # "putting" /\ producer[p] # "putting" => Putting' = Putting
<1>1. CASE s = "putting" /\ producer[p] # "putting"
  <2>1. Putting' = Putting \cup {p} /\ p \notin Putting
    BY <1>1 DEF Putting, Moves, WriterTypeOK
  <2> QED BY <1>1, <2>1, PuttingIsFinite, FS_AddElement
<1>2. CASE s # "putting" /\ producer[p] = "putting"
  <2>1. Putting' = Putting \ {p} /\ p \in Putting
    BY <1>2 DEF Putting, Moves, WriterTypeOK
  <2>2. Cardinality(Putting) # 0
    BY <2>1, PuttingIsFinite, FS_EmptySet
  <2>3. Cardinality(Putting \ {p}) = Cardinality(Putting) - 1
    BY <2>1, PuttingIsFinite, FS_RemoveElement
  <2> QED BY <1>2, <2>1, <2>2, <2>3, PuttingIsFinite
<1>3. CASE s # "putting" /\ producer[p] # "putting"
  BY <1>3 DEF Putting, Moves, WriterTypeOK
<1> QED BY <1>1, <1>2, <1>3

\* A lane begins with an empty queue.
THEOREM WriterInitInv == WriterInit => WriterIInv
<1> SUFFICES ASSUME WriterInit PROVE WriterIInv
  OBVIOUS
<1>1. Putting = {}
  BY DEF WriterInit, Putting
<1>2. Cardinality(Putting) = 0
  BY <1>1, FS_EmptySet
<1>3. WriterTypeOK
  <2>1. producer \in [Producers -> {"away", "taking", "putting", "failed"}]
    BY DEF WriterInit
  <2>2. {slots, bulkQ, fastQ, overtakes} \subseteq Nat
    BY DEF WriterInit
  <2>3. halted \in BOOLEAN
    BY DEF WriterInit
  <2>4. writer \in {"looking", "choosing", "popped", "writing", "stopped"}
    BY DEF WriterInit
  <2> QED BY <2>1, <2>2, <2>3, <2>4 DEF WriterTypeOK
<1>4. SlotsBalance /\ WriterShape
  BY <1>2, WriterAssumption DEF WriterInit, SlotsBalance, WriterShape
<1> QED
  BY <1>3, <1>4 DEF WriterIInv

\* What a goroutine that enqueues a frame does keeps the invariant.
LEMMA ProducerStep ==
  ASSUME WriterIInv, NEW p \in Producers,
         \/ EnqueueBegins(p) \/ EnqueueTakes(p) \/ EnqueuePuts(p)
         \/ EnqueueAborts(p) \/ TryEnqueue(p)
  PROVE  WriterIInv'
<1> DEFINE count == Cardinality(Putting)
<1> USE WriterAssumption DEF WriterIInv
<1>1. count \in Nat
  BY PuttingIsFinite
<1>2. CASE EnqueueBegins(p)
  <2>0. Moves(p, "taking")
    BY <1>2 DEF EnqueueBegins, Moves
  <2>1. count' = count
    BY <1>2, <2>0, PuttingMoves DEF EnqueueBegins
  <2> QED BY <1>2, <2>1 DEF EnqueueBegins, WriterTypeOK, SlotsBalance, WriterShape
<1>3. CASE EnqueueTakes(p)
  <2>0. Moves(p, "putting")
    BY <1>3 DEF EnqueueTakes, Moves
  <2>1. count' = count + 1
    BY <1>3, <2>0, PuttingMoves DEF EnqueueTakes
  <2> QED BY <1>1, <1>3, <2>1 DEF EnqueueTakes, WriterTypeOK, SlotsBalance, WriterShape
<1>4. CASE EnqueuePuts(p)
  <2>0. Moves(p, "away")
    BY <1>4 DEF EnqueuePuts, Put, Moves
  <2>1. count' = count - 1 /\ count > 0
    BY <1>4, <2>0, PuttingMoves DEF EnqueuePuts
  <2>2. WriterTypeOK'
    BY <1>4 DEF EnqueuePuts, Put, WriterTypeOK
  <2>3. SlotsBalance'
    BY <1>1, <1>4, <2>1 DEF EnqueuePuts, Put, WriterTypeOK, SlotsBalance
  <2>4. WriterShape'
    BY <1>4 DEF EnqueuePuts, Put, Room, WriterTypeOK, WriterShape
  <2> QED BY <2>2, <2>3, <2>4
<1>5. CASE EnqueueAborts(p)
  <2>0. Moves(p, "failed")
    BY <1>5 DEF EnqueueAborts, Moves
  <2>1. CASE producer[p] = "putting"
    <3>1. count' = count - 1 /\ count > 0
      BY <2>0, <2>1, PuttingMoves
    <3>2. slots > 0 /\ slots' = slots - 1
      BY <1>1, <1>5, <2>1, <3>1 DEF EnqueueAborts, GaveBack, WriterTypeOK, SlotsBalance
    <3> QED BY <1>1, <1>5, <3>1, <3>2
            DEF EnqueueAborts, WriterTypeOK, SlotsBalance, WriterShape
  <2>2. CASE producer[p] # "putting"
    <3>1. count' = count
      BY <2>0, <2>2, PuttingMoves
    <3> QED BY <1>5, <2>2, <3>1 DEF EnqueueAborts, WriterTypeOK, SlotsBalance, WriterShape
  <2> QED BY <2>1, <2>2
<1>6. CASE TryEnqueue(p)
  <2>0. Moves(p, "away")
    BY <1>6 DEF TryEnqueue, Put, Moves
  <2>1. count' = count
    BY <1>6, <2>0, PuttingMoves DEF TryEnqueue
  <2>2. WriterTypeOK'
    BY <1>6 DEF TryEnqueue, Put, WriterTypeOK
  <2>3. SlotsBalance'
    BY <1>1, <1>6, <2>1 DEF TryEnqueue, Put, WriterTypeOK, SlotsBalance
  <2>4. WriterShape'
    BY <1>6 DEF TryEnqueue, Put, Room, WriterTypeOK, WriterShape
  <2> QED BY <2>2, <2>3, <2>4
<1> QED BY <1>2, <1>3, <1>4, <1>5, <1>6

\* So does what writeLane does, and the end of the lane.
LEMMA WriterStep ==
  ASSUME WriterIInv,
         WriterLooks \/ WriterChooses \/ WriterFrees \/ WriterWrites \/ LaneHalts
  PROVE  WriterIInv'
<1> DEFINE count == Cardinality(Putting)
<1> USE WriterAssumption DEF WriterIInv
<1>1. count \in Nat
  BY PuttingIsFinite
<1>2. producer' = producer => count' = count
  BY DEF Putting
<1>3. CASE WriterLooks
  BY <1>1, <1>2, <1>3 DEF WriterLooks, TakesFast, WriterTypeOK, SlotsBalance, WriterShape
<1>4. CASE WriterChooses
  <2>1. CASE TakesFast
    BY <1>1, <1>2, <1>4, <2>1
    DEF WriterChooses, TakesFast, WriterTypeOK, SlotsBalance, WriterShape
  <2>2. CASE TakesBulk
    BY <1>1, <1>2, <1>4, <2>2
    DEF WriterChooses, TakesBulk, WriterTypeOK, SlotsBalance, WriterShape
  <2>3. CASE writer' = "stopped" /\ UNCHANGED <<bulkQ, fastQ, overtakes>>
    BY <1>1, <1>2, <1>4, <2>3 DEF WriterChooses, WriterTypeOK, SlotsBalance, WriterShape
  <2> QED BY <1>4, <2>1, <2>2, <2>3 DEF WriterChooses
<1>5. CASE WriterFrees
  <2>1. slots > 0
    BY <1>1, <1>5 DEF WriterFrees, WriterTypeOK, SlotsBalance
  <2> QED BY <1>1, <1>2, <1>5, <2>1
          DEF WriterFrees, WriterTypeOK, SlotsBalance, WriterShape
<1>6. CASE WriterWrites
  BY <1>1, <1>2, <1>6 DEF WriterWrites, WriterTypeOK, SlotsBalance, WriterShape
<1>7. CASE LaneHalts
  BY <1>1, <1>2, <1>7 DEF LaneHalts, WriterTypeOK, SlotsBalance, WriterShape
<1> QED BY <1>3, <1>4, <1>5, <1>6, <1>7

\* The reserve: when every slot is taken, bulk frames have at most their channel's and
\* the one their puller waits with.
LEMMA ReserveIsKept == WriterIInv => WriterInv
<1> SUFFICES ASSUME WriterIInv, slots = WriteSlots, writer # "popped"
             PROVE  fastQ + Cardinality(Putting \cap Speakers) >= ControlSlots - 1
  BY DEF WriterIInv, WriterInv, WriterShape
<1> USE PuttingIsFinite
<1>1. Putting \ {Puller} = Putting \cap Speakers
  BY WriterAssumption DEF Putting, Producers
<1>2. Cardinality(Putting) - 1 <= Cardinality(Putting \cap Speakers)
  <2>1. Cardinality(Putting \ {Puller}) = IF Puller \in Putting THEN Cardinality(Putting) - 1
                                                               ELSE Cardinality(Putting)
    BY FS_RemoveElement
  <2> QED BY <1>1, <2>1
<1>3. Cardinality(Putting \cap Speakers) \in Nat
  BY FS_Intersection, FS_CardinalityType
<1> QED BY <1>2, <1>3, WriterAssumption
        DEF WriterIInv, WriterTypeOK, SlotsBalance, WriterShape

\* In every run of any number of producers no slot of a lane's write queue is lost or
\* freed twice, one bulk frame at most overtakes a waiting interactive one, and bulk
\* frames leave the reserve (mpflow.go:2063).
THEOREM LaneQueueIsSafe == WriterSpec => []WriterInv
<1>1. WriterIInv /\ [WriterNext]_writerVars => WriterIInv'
  <2> SUFFICES ASSUME WriterIInv, [WriterNext]_writerVars PROVE WriterIInv'
    OBVIOUS
  <2>1. CASE UNCHANGED writerVars
    BY <2>1 DEF writerVars, WriterIInv, WriterTypeOK, SlotsBalance, WriterShape, Putting
  <2>2. CASE WriterNext
    BY <2>2, ProducerStep, WriterStep DEF WriterNext
  <2> QED BY <2>1, <2>2
<1> QED BY WriterInitInv, <1>1, ReserveIsKept, PTL DEF WriterSpec

-----------------------------------------------------------------------------
(* The opening of flows *)

OpenTypeOK ==
  /\ sessionMax \in Nat \ {0}
  /\ openDial \in [OpenFlows -> {"idle", "opening", "waiting", "running", "over"}]
  /\ openAttempt \in [OpenFlows -> Nat] /\ slot \in [OpenFlows -> {"none", "reserved", "shared"}]
  /\ reservedUsed \in [OpenClients -> Nat] /\ sharedUsed \in Nat
  /\ pendingUsed \in [OpenClients -> Nat]
  /\ stream \in [OpenSessions -> {"none", "open", "closed"}]
  /\ handler \in [OpenSessions -> {"none", "reading", "dialing", "checking", "answering", "running",
                                   "gone"}]
  /\ semaphore \in Nat
  /\ destination \subseteq OpenSessions /\ sessions \subseteq OpenSessions
  /\ tombstones \subseteq OpenSessions

SharedFlows == {f \in OpenFlows : slot[f] = "shared"}
PendingFlows(c) == {f \in OpenFlows : f[1] = c /\ openDial[f] \in {"opening", "waiting"}}
HandledSessions == {x \in OpenSessions : Handled(x)}

\* The counts, of finitely many whatever the number of flows and sessions.
SlotsCounted ==
  /\ \A c \in OpenClients :
       /\ IsFiniteSet(Took(c, "reserved"))
       /\ reservedUsed[c] = Cardinality(Took(c, "reserved")) /\ reservedUsed[c] <= Reserve
  /\ IsFiniteSet(SharedFlows) /\ sharedUsed = Cardinality(SharedFlows) /\ sharedUsed <= SharedMax

PendingCounted == \A c \in OpenClients :
  IsFiniteSet(PendingFlows(c)) /\ pendingUsed[c] = Cardinality(PendingFlows(c))

PlacesCounted == IsFiniteSet(HandledSessions) /\ semaphore = Cardinality(HandledSessions)

\* Who has a slot, an open stream, an entry, a connection.
SlotsAreOwned ==
  \A f \in OpenFlows : slot[f] # "none" <=> openDial[f] \in {"opening", "waiting", "running"}

StreamsAreOwned == \A x \in OpenSessions : stream[x] = "open" =>
  openAttempt[x[1]] = x[2] /\ openDial[x[1]] \in {"waiting", "running"}

EntriesAreOwned ==
  /\ \A x \in sessions : handler[x] \in {"answering", "running"} \/ x \in tombstones
  /\ \A x \in destination : handler[x] \in {"checking", "answering", "running"}

OpenIInv ==
  /\ OpenTypeOK /\ SlotsCounted /\ PendingCounted /\ PlacesCounted
  /\ SlotsAreOwned /\ StreamsAreOwned /\ EntriesAreOwned

LEMMA OpenIInvIsEnough == OpenIInv => OpenInv
BY DEF OpenIInv, OpenInv, SlotsCounted, PendingCounted, PlacesCounted, SlotsAreOwned, StreamsAreOwned,
       EntriesAreOwned, SharedFlows, PendingFlows, HandledSessions

\* The parts of the limit: what is reserved for the clients is at most half of it.
LEMMA LimitParts ==
  ASSUME sessionMax \in Nat \ {0}
  PROVE  Reserve \in Nat /\ SharedMax \in Nat
<1> DEFINE n == Cardinality(OpenClients)
           r == sessionMax \div (2 * n)
<1>1. n \in Nat /\ n # 0
  <2>1. OpenClients # {}
    BY OpenAssumption DEF OpenClients
  <2> QED BY <2>1, OpenAssumption, FS_CardinalityType, FS_EmptySet
<1> HIDE DEF n
<1>2. r \in Nat /\ r * (2 * n) <= sessionMax
  <2>1. 2 * n \in Nat /\ 2 * n > 0
    BY <1>1
  <2> DEFINE m == 2 * n
  <2> HIDE DEF m
  <2>2. sessionMax \div m \in Nat /\ (sessionMax \div m) * m <= sessionMax
    <3>1. m \in Nat /\ m > 0 /\ sessionMax \in Nat
      BY <2>1 DEF m
    <3> QED BY <3>1
  <2> QED BY <2>2 DEF m
<1>3. r * n \in Nat /\ r * n <= r * (2 * n)
  <2> HIDE DEF r
  <2>1. r * n \in Nat
    BY <1>1, <1>2
  <2>2. r * (2 * n) = r * n + r * n
    BY <1>1, <1>2
  <2> QED BY <2>1, <2>2
<1>4. Reserve = r /\ SharedMax = sessionMax - r * n
  BY DEF Reserve, SharedMax, n
<1>5. r * (2 * n) \in Nat
  <2> HIDE DEF r
  <2> QED BY <1>1, <1>2
<1> HIDE DEF r
<1>6. sessionMax - r * n \in Nat
  <2> DEFINE a == r * n
             b == r * (2 * n)
  <2>1. a \in Nat /\ b \in Nat /\ a <= b /\ b <= sessionMax /\ sessionMax \in Nat
    BY <1>2, <1>3, <1>5
  <2> HIDE DEF a, b
  <2>2. sessionMax - a \in Nat
    BY <2>1
  <2> QED BY <2>2 DEF a
<1> QED BY <1>2, <1>4, <1>6

LEMMA OpenInitInv == OpenInit => OpenIInv
<1> SUFFICES ASSUME OpenInit PROVE OpenIInv
  OBVIOUS
<1>1. sessionMax \in Nat \ {0}
  BY OpenAssumption DEF OpenInit
<1>2. OpenTypeOK
  BY <1>1 DEF OpenInit, OpenTypeOK
<1>3. /\ \A c : Took(c, "reserved") = {} /\ PendingFlows(c) = {}
      /\ SharedFlows = {} /\ HandledSessions = {}
  BY DEF OpenInit, Took, PendingFlows, SharedFlows, HandledSessions, Handled
<1>4. SlotsCounted
  BY <1>1, <1>3, LimitParts, FS_EmptySet DEF OpenInit, SlotsCounted
<1>5. PendingCounted /\ PlacesCounted
  BY <1>3, FS_EmptySet DEF OpenInit, PendingCounted, PlacesCounted
<1>6. SlotsAreOwned /\ StreamsAreOwned /\ EntriesAreOwned
  BY DEF OpenInit, SlotsAreOwned, StreamsAreOwned, EntriesAreOwned
<1> QED BY <1>2, <1>4, <1>5, <1>6 DEF OpenIInv

-----------------------------------------------------------------------------
\* A flow without a slot takes one: its pool counts one more.
LEMMA TakingCounts ==
  ASSUME OpenTypeOK, SlotsCounted, NEW f \in OpenFlows, slot[f] = "none", TakesSlot(f),
         UNCHANGED sessionMax
  PROVE  /\ SlotsCounted'
         /\ \E s \in {"reserved", "shared"} : slot' = [slot EXCEPT ![f] = s]
         /\ reservedUsed' \in [OpenClients -> Nat] /\ sharedUsed' \in Nat
<1> DEFINE d == f[1]
<1>0. d \in OpenClients /\ Reserve \in Nat /\ SharedMax \in Nat
  BY LimitParts DEF OpenClients, OpenTypeOK
<1>a. Reserve' = Reserve /\ SharedMax' = SharedMax
  BY DEF Reserve, SharedMax
<1>1. CASE /\ reservedUsed[d] < Reserve /\ slot' = [slot EXCEPT ![f] = "reserved"]
           /\ reservedUsed' = [reservedUsed EXCEPT ![d] = @ + 1] /\ UNCHANGED sharedUsed
  <2>1. /\ reservedUsed' \in [OpenClients -> Nat]
        /\ \A c \in OpenClients : reservedUsed'[c] = IF c = d THEN reservedUsed[c] + 1 ELSE reservedUsed[c]
    BY <1>0, <1>1 DEF OpenTypeOK
  <2>2. SharedFlows' = SharedFlows
    BY <1>1 DEF SharedFlows, OpenTypeOK
  <2>3. \A c \in OpenClients : Took(c, "reserved")' =
          IF c = d THEN Took(c, "reserved") \cup {f} ELSE Took(c, "reserved")
    BY <1>1 DEF Took, OpenTypeOK
  <2>4. f \notin Took(d, "reserved")
    BY DEF Took
  <2>5. \A c \in OpenClients : IsFiniteSet(Took(c, "reserved")')
          /\ reservedUsed'[c] = Cardinality(Took(c, "reserved")') /\ reservedUsed'[c] <= Reserve
    <3> SUFFICES ASSUME NEW c \in OpenClients
                 PROVE  IsFiniteSet(Took(c, "reserved")')
                        /\ reservedUsed'[c] = Cardinality(Took(c, "reserved")') /\ reservedUsed'[c] <= Reserve
      OBVIOUS
    <3>1. CASE c = d
      <4>1. IsFiniteSet(Took(c, "reserved")) /\ reservedUsed[c] = Cardinality(Took(c, "reserved"))
        BY DEF SlotsCounted
      <4>2. Took(c, "reserved")' = Took(c, "reserved") \cup {f} /\ f \notin Took(c, "reserved")
        BY <2>3, <2>4, <3>1
      <4>3. /\ IsFiniteSet(Took(c, "reserved") \cup {f})
            /\ Cardinality(Took(c, "reserved") \cup {f}) = Cardinality(Took(c, "reserved")) + 1
        BY <4>1, <4>2, FS_AddElement
      <4>4. reservedUsed[c] \in Nat /\ reservedUsed[c] < Reserve
        BY <1>1, <3>1 DEF OpenTypeOK
      <4>5. reservedUsed'[c] = reservedUsed[c] + 1
        BY <2>1, <3>1
      <4>6. reservedUsed'[c] = Cardinality(Took(c, "reserved")')
        <5>1. Cardinality(Took(c, "reserved")') = Cardinality(Took(c, "reserved")) + 1
          BY <4>2, <4>3
        <5> QED BY <4>1, <4>5, <5>1
      <4>7. reservedUsed'[c] <= Reserve
        BY <1>0, <4>4, <4>5
      <4>8. IsFiniteSet(Took(c, "reserved")')
        BY <4>2, <4>3
      <4> QED BY <4>6, <4>7, <4>8
    <3>2. CASE c # d
      BY <2>1, <2>3, <3>2 DEF SlotsCounted
    <3> QED BY <3>1, <3>2
  <2>6. SlotsCounted'
    BY <1>1, <1>a, <2>2, <2>5 DEF SlotsCounted
  <2> QED BY <1>1, <2>1, <2>6 DEF OpenTypeOK
<1>2. CASE /\ sharedUsed < SharedMax /\ slot' = [slot EXCEPT ![f] = "shared"]
           /\ sharedUsed' = sharedUsed + 1 /\ UNCHANGED reservedUsed
  <2>1. SharedFlows' = SharedFlows \cup {f} /\ f \notin SharedFlows
    BY <1>2 DEF SharedFlows, OpenTypeOK
  <2>2. \A c \in OpenClients : Took(c, "reserved")' = Took(c, "reserved")
    BY <1>2 DEF Took, OpenTypeOK
  <2>3. IsFiniteSet(SharedFlows') /\ Cardinality(SharedFlows') = Cardinality(SharedFlows) + 1
    BY <2>1, FS_AddElement DEF SlotsCounted
  <2>4. sharedUsed' \in Nat /\ sharedUsed' <= SharedMax /\ sharedUsed' = Cardinality(SharedFlows')
    BY <1>0, <1>2, <2>3 DEF SlotsCounted, OpenTypeOK
  <2>5. SlotsCounted'
    BY <1>2, <1>a, <2>2, <2>3, <2>4 DEF SlotsCounted
  <2> QED BY <1>2, <2>4, <2>5 DEF OpenTypeOK
<1> QED BY <1>1, <1>2 DEF TakesSlot

\* A flow with a slot gives it back to the pool it came from.
LEMMA ReturningCounts ==
  ASSUME OpenTypeOK, SlotsCounted, NEW f \in OpenFlows, slot[f] # "none", ReturnsSlot(f),
         UNCHANGED sessionMax
  PROVE  /\ SlotsCounted'
         /\ slot' = [slot EXCEPT ![f] = "none"]
         /\ reservedUsed' \in [OpenClients -> Nat] /\ sharedUsed' \in Nat
<1> DEFINE d == f[1]
<1>0. d \in OpenClients /\ Reserve \in Nat /\ SharedMax \in Nat
  BY LimitParts DEF OpenClients, OpenTypeOK
<1>a. Reserve' = Reserve /\ SharedMax' = SharedMax
  BY DEF Reserve, SharedMax
<1>b. slot' = [slot EXCEPT ![f] = "none"]
  BY DEF ReturnsSlot
<1>1. CASE slot[f] = "reserved"
  <2>0. reservedUsed' = [reservedUsed EXCEPT ![d] = @ - 1] /\ UNCHANGED sharedUsed
    BY <1>1 DEF ReturnsSlot
  <2>2. SharedFlows' = SharedFlows
    BY <1>1, <1>b DEF SharedFlows, OpenTypeOK
  <2>3. \A c \in OpenClients : Took(c, "reserved")' =
          IF c = d THEN Took(c, "reserved") \ {f} ELSE Took(c, "reserved")
    BY <1>b DEF Took, OpenTypeOK
  <2>4. f \in Took(d, "reserved")
    BY <1>1 DEF Took
  <2>1. reservedUsed[d] \in Nat /\ reservedUsed[d] # 0 /\ IsFiniteSet(Took(d, "reserved"))
        /\ reservedUsed[d] = Cardinality(Took(d, "reserved"))
    BY <1>0, <2>4, FS_EmptySet DEF SlotsCounted, OpenTypeOK
  <2>5. /\ reservedUsed' \in [OpenClients -> Nat]
        /\ \A c \in OpenClients : reservedUsed'[c] = IF c = d THEN reservedUsed[c] - 1 ELSE reservedUsed[c]
    <3>1. reservedUsed[d] - 1 \in Nat
      BY <2>1
    <3> QED BY <1>0, <2>0, <3>1 DEF OpenTypeOK
  <2>6. \A c \in OpenClients : IsFiniteSet(Took(c, "reserved")')
          /\ reservedUsed'[c] = Cardinality(Took(c, "reserved")') /\ reservedUsed'[c] <= Reserve
    <3> SUFFICES ASSUME NEW c \in OpenClients
                 PROVE  IsFiniteSet(Took(c, "reserved")')
                        /\ reservedUsed'[c] = Cardinality(Took(c, "reserved")') /\ reservedUsed'[c] <= Reserve
      OBVIOUS
    <3>1. CASE c = d
      <4>2. Took(c, "reserved")' = Took(c, "reserved") \ {f}
        BY <2>3, <3>1
      <4>3. /\ IsFiniteSet(Took(d, "reserved") \ {f})
            /\ Cardinality(Took(d, "reserved") \ {f}) = Cardinality(Took(d, "reserved")) - 1
        BY <2>1, <2>4, FS_RemoveElement
      <4>4. reservedUsed[c] <= Reserve
        BY DEF SlotsCounted
      <4>5. reservedUsed'[c] = reservedUsed[c] - 1
        BY <2>5, <3>1
      <4>6. reservedUsed'[c] = Cardinality(Took(c, "reserved")')
        <5>1. Cardinality(Took(c, "reserved")') = reservedUsed[d] - 1
          BY <2>1, <3>1, <4>2, <4>3
        <5> QED BY <3>1, <4>5, <5>1
      <4>7. reservedUsed'[c] <= Reserve
        BY <1>0, <2>1, <3>1, <4>4, <4>5
      <4>8. IsFiniteSet(Took(c, "reserved")')
        BY <3>1, <4>2, <4>3
      <4> QED BY <4>6, <4>7, <4>8
    <3>2. CASE c # d
      BY <2>3, <2>5, <3>2 DEF SlotsCounted
    <3> QED BY <3>1, <3>2
  <2>7. SlotsCounted'
    BY <1>a, <2>0, <2>2, <2>6 DEF SlotsCounted
  <2> QED BY <1>b, <2>0, <2>5, <2>7 DEF OpenTypeOK
<1>2. CASE slot[f] = "shared"
  <2>0. sharedUsed' = sharedUsed - 1 /\ UNCHANGED reservedUsed
    BY <1>2 DEF ReturnsSlot
  <2>1. SharedFlows' = SharedFlows \ {f} /\ f \in SharedFlows
    BY <1>2, <1>b DEF SharedFlows, OpenTypeOK
  <2>2. \A c \in OpenClients : Took(c, "reserved")' = Took(c, "reserved")
    BY <1>2, <1>b DEF Took, OpenTypeOK
  <2>3. IsFiniteSet(SharedFlows') /\ Cardinality(SharedFlows') = Cardinality(SharedFlows) - 1
    BY <2>1, FS_RemoveElement DEF SlotsCounted
  <2>4. sharedUsed # 0
    BY <2>1, FS_EmptySet DEF SlotsCounted
  <2>5. sharedUsed' \in Nat /\ sharedUsed' <= SharedMax /\ sharedUsed' = Cardinality(SharedFlows')
    BY <1>0, <2>0, <2>3, <2>4 DEF SlotsCounted, OpenTypeOK
  <2>6. SlotsCounted'
    BY <1>a, <2>0, <2>2, <2>3, <2>5 DEF SlotsCounted
  <2> QED BY <1>b, <2>0, <2>5, <2>6 DEF OpenTypeOK
<1> QED BY <1>1, <1>2 DEF OpenTypeOK


-----------------------------------------------------------------------------
\* A dial moves to n, and the pending opens of its client count that.
DialMoves(f, n) == openDial' = [openDial EXCEPT ![f] = n]

LEMMA PendingStays ==
  ASSUME OpenTypeOK, PendingCounted, NEW f \in OpenFlows, NEW n, DialMoves(f, n),
         openDial[f] \in {"opening", "waiting"} <=> n \in {"opening", "waiting"},
         UNCHANGED pendingUsed
  PROVE  PendingCounted'
<1>1. \A c \in OpenClients : PendingFlows(c)' = PendingFlows(c)
  BY DEF PendingFlows, DialMoves, OpenTypeOK
<1> QED BY <1>1 DEF PendingCounted

LEMMA PendingGrows ==
  ASSUME OpenTypeOK, PendingCounted, NEW f \in OpenFlows, DialMoves(f, "opening"),
         openDial[f] = "idle", pendingUsed' = [pendingUsed EXCEPT ![f[1]] = @ + 1]
  PROVE  PendingCounted' /\ pendingUsed' \in [OpenClients -> Nat]
<1> DEFINE d == f[1]
<1>0. d \in OpenClients
  BY DEF OpenClients
<1>1. /\ pendingUsed' \in [OpenClients -> Nat]
      /\ \A c \in OpenClients : pendingUsed'[c] = IF c = d THEN pendingUsed[c] + 1 ELSE pendingUsed[c]
  BY <1>0 DEF OpenTypeOK
<1>2. \A c \in OpenClients :
        PendingFlows(c)' = IF c = d THEN PendingFlows(c) \cup {f} ELSE PendingFlows(c)
  BY DEF PendingFlows, DialMoves, OpenTypeOK
<1>3. f \notin PendingFlows(d)
  BY DEF PendingFlows
<1>4. ASSUME NEW c \in OpenClients
      PROVE  IsFiniteSet(PendingFlows(c)') /\ pendingUsed'[c] = Cardinality(PendingFlows(c)')
  <2>1. CASE c = d
    <3>1. IsFiniteSet(PendingFlows(d)) /\ pendingUsed[d] = Cardinality(PendingFlows(d))
      BY <1>0 DEF PendingCounted
    <3>2. /\ IsFiniteSet(PendingFlows(d) \cup {f})
          /\ Cardinality(PendingFlows(d) \cup {f}) = pendingUsed[d] + 1
      BY <1>3, <3>1, FS_AddElement
    <3>3. PendingFlows(c)' = PendingFlows(d) \cup {f} /\ pendingUsed'[c] = pendingUsed[d] + 1
      BY <1>1, <1>2, <2>1
    <3> QED BY <3>2, <3>3
  <2>2. CASE c # d
    BY <1>1, <1>2, <2>2 DEF PendingCounted
  <2> QED BY <2>1, <2>2
<1> QED BY <1>1, <1>4 DEF PendingCounted

LEMMA PendingShrinks ==
  ASSUME OpenTypeOK, PendingCounted, NEW f \in OpenFlows, NEW n, DialMoves(f, n),
         openDial[f] \in {"opening", "waiting"}, n \notin {"opening", "waiting"},
         pendingUsed' = [pendingUsed EXCEPT ![f[1]] = @ - 1]
  PROVE  PendingCounted' /\ pendingUsed' \in [OpenClients -> Nat]
<1> DEFINE d == f[1]
<1>0. d \in OpenClients
  BY DEF OpenClients
<1>3. f \in PendingFlows(d)
  BY DEF PendingFlows
<1>4. /\ IsFiniteSet(PendingFlows(d)) /\ pendingUsed[d] = Cardinality(PendingFlows(d))
      /\ pendingUsed[d] \in Nat /\ pendingUsed[d] # 0
  BY <1>0, <1>3, FS_EmptySet DEF PendingCounted, OpenTypeOK
<1>1. /\ pendingUsed' \in [OpenClients -> Nat]
      /\ \A c \in OpenClients : pendingUsed'[c] = IF c = d THEN pendingUsed[c] - 1 ELSE pendingUsed[c]
  <2>1. pendingUsed[d] - 1 \in Nat
    BY <1>4
  <2> QED BY <1>0, <2>1 DEF OpenTypeOK
<1>2. \A c \in OpenClients :
        PendingFlows(c)' = IF c = d THEN PendingFlows(c) \ {f} ELSE PendingFlows(c)
  BY DEF PendingFlows, DialMoves, OpenTypeOK
<1>5. ASSUME NEW c \in OpenClients
      PROVE  IsFiniteSet(PendingFlows(c)') /\ pendingUsed'[c] = Cardinality(PendingFlows(c)')
  <2>1. CASE c = d
    <3>1. /\ IsFiniteSet(PendingFlows(d) \ {f})
          /\ Cardinality(PendingFlows(d) \ {f}) = pendingUsed[d] - 1
      BY <1>3, <1>4, FS_RemoveElement
    <3>2. PendingFlows(c)' = PendingFlows(d) \ {f} /\ pendingUsed'[c] = pendingUsed[d] - 1
      BY <1>1, <1>2, <2>1
    <3> QED BY <3>1, <3>2
  <2>2. CASE c # d
    BY <1>1, <1>2, <2>2 DEF PendingCounted
  <2> QED BY <2>1, <2>2
<1> QED BY <1>1, <1>5 DEF PendingCounted

-----------------------------------------------------------------------------
\* What a step of the client leaves of the server, and the reverse.
LEMMA ServerUntouched ==
  ASSUME PlacesCounted, EntriesAreOwned, UNCHANGED openServerVars
  PROVE  PlacesCounted' /\ EntriesAreOwned'
BY DEF PlacesCounted, EntriesAreOwned, openServerVars, HandledSessions, Handled

LEMMA ClientUntouched ==
  ASSUME SlotsCounted, PendingCounted, SlotsAreOwned, StreamsAreOwned,
         UNCHANGED <<sessionMax, openClientVars, stream>>
  PROVE  SlotsCounted' /\ PendingCounted' /\ SlotsAreOwned' /\ StreamsAreOwned'
<1>1. SlotsCounted'
  BY DEF SlotsCounted, Took, SharedFlows, Reserve, SharedMax, openClientVars
<1>2. PendingCounted'
  BY DEF PendingCounted, PendingFlows, openClientVars
<1> QED BY <1>1, <1>2 DEF SlotsAreOwned, StreamsAreOwned, openClientVars

LEMMA SlotsUntouched ==
  ASSUME SlotsCounted, UNCHANGED <<sessionMax, slot, reservedUsed, sharedUsed>>
  PROVE  SlotsCounted'
BY DEF SlotsCounted, Took, SharedFlows, Reserve, SharedMax

\* A session with an open stream is the one its flow is at.
LEMMA OpenStreams ==
  ASSUME StreamsAreOwned, NEW x \in OpenSessions, stream[x] = "open"
  PROVE  x[1] \in OpenFlows /\ x = Session(x[1]) /\ openDial[x[1]] \in {"waiting", "running"}
BY OpenAssumption DEF StreamsAreOwned, Session

\* A dial that gives up, with its slot and its pending place.
LEMMA GivingUp ==
  ASSUME OpenTypeOK, SlotsCounted, PendingCounted, SlotsAreOwned, NEW f \in OpenFlows,
         openDial[f] \in {"opening", "waiting"}, GivesUp(f), UNCHANGED sessionMax
  PROVE  /\ SlotsCounted' /\ PendingCounted' /\ SlotsAreOwned'
         /\ openDial' = [openDial EXCEPT ![f] = "over"] /\ slot' = [slot EXCEPT ![f] = "none"]
         /\ reservedUsed' \in [OpenClients -> Nat] /\ sharedUsed' \in Nat
         /\ pendingUsed' \in [OpenClients -> Nat] /\ openAttempt' = openAttempt
<1>1. openDial' = [openDial EXCEPT ![f] = "over"] /\ openAttempt' = openAttempt
  BY DEF GivesUp
<1>2. slot[f] # "none"
  BY DEF SlotsAreOwned
<1>3. /\ SlotsCounted' /\ slot' = [slot EXCEPT ![f] = "none"]
      /\ reservedUsed' \in [OpenClients -> Nat] /\ sharedUsed' \in Nat
  BY <1>2, ReturningCounts DEF GivesUp
<1>4. PendingCounted' /\ pendingUsed' \in [OpenClients -> Nat]
  <2>1. DialMoves(f, "over") /\ pendingUsed' = [pendingUsed EXCEPT ![f[1]] = @ - 1]
    BY DEF DialMoves, GivesUp
  <2> QED BY <2>1, PendingShrinks
<1>5. SlotsAreOwned'
  BY <1>1, <1>3 DEF SlotsAreOwned, OpenTypeOK
<1> QED BY <1>1, <1>3, <1>4, <1>5

\* An attempt that failed is followed by the next one, or the dial gives up.
LEMMA Retrying ==
  ASSUME OpenTypeOK, SlotsCounted, PendingCounted, SlotsAreOwned, NEW f \in OpenFlows,
         openDial[f] \in {"opening", "waiting"}, Retries(f), UNCHANGED sessionMax
  PROVE  /\ SlotsCounted' /\ PendingCounted' /\ SlotsAreOwned'
         /\ \E n \in {"opening", "over"} : openDial' = [openDial EXCEPT ![f] = n]
         /\ slot' \in [OpenFlows -> {"none", "reserved", "shared"}]
         /\ reservedUsed' \in [OpenClients -> Nat] /\ sharedUsed' \in Nat
         /\ pendingUsed' \in [OpenClients -> Nat]
         /\ openAttempt' \in [OpenFlows -> Nat]
         /\ \A g \in OpenFlows : g # f => openAttempt'[g] = openAttempt[g]
<1>1. CASE GivesUp(f)
  BY <1>1, GivingUp DEF OpenTypeOK
<1>2. CASE /\ openDial' = [openDial EXCEPT ![f] = "opening"]
           /\ openAttempt' = [openAttempt EXCEPT ![f] = @ + 1]
           /\ UNCHANGED <<slot, reservedUsed, sharedUsed, pendingUsed>>
  <2>1. SlotsCounted'
    BY <1>2, SlotsUntouched
  <2>2. PendingCounted'
    <3>1. DialMoves(f, "opening") /\ pendingUsed' = pendingUsed
      BY <1>2 DEF DialMoves
    <3> QED BY <3>1, PendingStays
  <2>3. SlotsAreOwned'
    BY <1>2 DEF SlotsAreOwned, OpenTypeOK
  <2> QED BY <1>2, <2>1, <2>2, <2>3 DEF OpenTypeOK
<1> QED BY <1>1, <1>2 DEF Retries


-----------------------------------------------------------------------------
\* The steps of the client.
LEMMA DialStep ==
  ASSUME OpenIInv, UNCHANGED sessionMax, NEW f \in OpenFlows,
         DialBegins(f) \/ DialSendsOpen(f) \/ DialFails(f) \/ DialProceeds(f) \/ FlowFinishes(f)
  PROVE  OpenIInv'
<1> USE DEF OpenIInv
<1>0. Session(f) = <<f, openAttempt[f]>> /\ openServerVars' = openServerVars
  BY DEF Session, DialBegins, DialSendsOpen, DialFails, DialProceeds, FlowFinishes, openServerVars
<1>a. PlacesCounted' /\ EntriesAreOwned'
  BY <1>0, ServerUntouched
<1>b. /\ sessionMax' \in Nat \ {0}
      /\ handler' \in [OpenSessions -> {"none", "reading", "dialing", "checking", "answering", "running",
                                        "gone"}]
      /\ semaphore' \in Nat /\ destination' \subseteq OpenSessions /\ sessions' \subseteq OpenSessions
      /\ tombstones' \subseteq OpenSessions
  BY <1>0 DEF OpenTypeOK, openServerVars
\* A step that closes the flow's stream, or has none to close, leaves every other alone.
<1>c. ASSUME \A g \in OpenFlows \ {f} : openDial'[g] = openDial[g] /\ openAttempt'[g] = openAttempt[g],
             stream' = Closed(f) \/ (stream' = stream /\ openDial[f] \in {"idle", "opening"})
      PROVE  StreamsAreOwned' /\ stream' \in [OpenSessions -> {"none", "open", "closed"}]
  <2>1. stream' \in [OpenSessions -> {"none", "open", "closed"}]
    BY <1>c DEF Closed, OpenTypeOK
  <2>2. ASSUME NEW x \in OpenSessions, stream'[x] = "open"
        PROVE  openAttempt'[x[1]] = x[2] /\ openDial'[x[1]] \in {"waiting", "running"}
    <3>1. stream[x] = "open" /\ (stream' = Closed(f) => x # Session(f))
      BY <1>c, <2>2 DEF Closed, OpenTypeOK
    <3>2. x[1] \in OpenFlows /\ x = Session(x[1]) /\ openDial[x[1]] \in {"waiting", "running"}
      BY <3>1, OpenStreams
    <3>3. x[1] # f
      BY <1>c, <3>1, <3>2
    <3> QED BY <1>c, <3>1, <3>2, <3>3 DEF StreamsAreOwned
  <2> QED BY <2>1, <2>2 DEF StreamsAreOwned
<1>1. CASE DialBegins(f)
  <2>1. openDial[f] = "idle" /\ stream' = stream /\ slot[f] = "none"
    BY <1>1 DEF DialBegins, SlotsAreOwned
  <2>2. CASE /\ TakesSlot(f) /\ pendingUsed' = [pendingUsed EXCEPT ![f[1]] = @ + 1]
             /\ openDial' = [openDial EXCEPT ![f] = "opening"]
             /\ openAttempt' = [openAttempt EXCEPT ![f] = 1]
    <3>1. /\ SlotsCounted' /\ \E s \in {"reserved", "shared"} : slot' = [slot EXCEPT ![f] = s]
          /\ reservedUsed' \in [OpenClients -> Nat] /\ sharedUsed' \in Nat
      BY <2>1, <2>2, TakingCounts
    <3>2. PendingCounted' /\ pendingUsed' \in [OpenClients -> Nat]
      <4>1. DialMoves(f, "opening")
        BY <2>2 DEF DialMoves
      <4> QED BY <2>1, <2>2, <4>1, PendingGrows
    <3>3. StreamsAreOwned' /\ stream' \in [OpenSessions -> {"none", "open", "closed"}]
      BY <1>c, <2>1, <2>2 DEF OpenTypeOK
    <3>4. SlotsAreOwned'
      BY <2>2, <3>1 DEF SlotsAreOwned, OpenTypeOK
    <3>5. OpenTypeOK'
      BY <1>b, <2>2, <3>1, <3>2, <3>3 DEF OpenTypeOK
    <3> QED BY <1>a, <3>1, <3>2, <3>3, <3>4, <3>5
  <2>3. CASE /\ openDial' = [openDial EXCEPT ![f] = "over"]
             /\ UNCHANGED <<openAttempt, slot, reservedUsed, sharedUsed, pendingUsed>>
    <3>1. SlotsCounted'
      BY <2>3, SlotsUntouched
    <3>2. PendingCounted'
      <4>1. DialMoves(f, "over")
        BY <2>3 DEF DialMoves
      <4> QED BY <2>1, <2>3, <4>1, PendingStays
    <3>3. StreamsAreOwned' /\ stream' \in [OpenSessions -> {"none", "open", "closed"}]
      BY <1>c, <2>1, <2>3 DEF OpenTypeOK
    <3>4. SlotsAreOwned'
      BY <2>1, <2>3 DEF SlotsAreOwned, OpenTypeOK
    <3>5. OpenTypeOK'
      BY <1>b, <2>3, <3>3 DEF OpenTypeOK
    <3> QED BY <1>a, <3>1, <3>2, <3>3, <3>4, <3>5
  <2> QED BY <1>1, <2>2, <2>3 DEF DialBegins
<1>2. CASE DialSendsOpen(f)
  <2>1. /\ openDial[f] = "opening" /\ openDial' = [openDial EXCEPT ![f] = "waiting"]
        /\ stream' = [stream EXCEPT ![Session(f)] = "open"]
        /\ UNCHANGED <<openAttempt, slot, reservedUsed, sharedUsed, pendingUsed>>
    BY <1>2 DEF DialSendsOpen
  <2>2. SlotsCounted'
    BY <2>1, SlotsUntouched
  <2>3. PendingCounted'
    <3>1. DialMoves(f, "waiting")
      BY <2>1 DEF DialMoves
    <3> QED BY <2>1, <3>1, PendingStays
  <2>4. StreamsAreOwned'
    <3> SUFFICES ASSUME NEW x \in OpenSessions, stream'[x] = "open"
                 PROVE  openAttempt'[x[1]] = x[2] /\ openDial'[x[1]] \in {"waiting", "running"}
      BY DEF StreamsAreOwned
    <3>1. CASE x = Session(f)
      BY <1>0, <2>1, <3>1 DEF OpenTypeOK
    <3>2. CASE x # Session(f)
      <4>1. stream[x] = "open"
        BY <2>1, <3>2 DEF OpenTypeOK
      <4>2. x[1] \in OpenFlows /\ openDial[x[1]] \in {"waiting", "running"}
        BY <4>1, OpenStreams
      <4> QED BY <2>1, <4>1, <4>2 DEF StreamsAreOwned, OpenTypeOK
    <3> QED BY <3>1, <3>2
  <2>5. SlotsAreOwned'
    BY <2>1 DEF SlotsAreOwned, OpenTypeOK
  <2>6. OpenTypeOK'
    BY <1>b, <2>1 DEF OpenTypeOK
  <2> QED BY <1>a, <2>2, <2>3, <2>4, <2>5, <2>6
<1>3. CASE DialFails(f)
  <2>1. openDial[f] = "opening" /\ Retries(f) /\ stream' = stream
    BY <1>3 DEF DialFails
  <2>2. /\ SlotsCounted' /\ PendingCounted' /\ SlotsAreOwned'
        /\ \E n \in {"opening", "over"} : openDial' = [openDial EXCEPT ![f] = n]
        /\ slot' \in [OpenFlows -> {"none", "reserved", "shared"}]
        /\ reservedUsed' \in [OpenClients -> Nat] /\ sharedUsed' \in Nat
        /\ pendingUsed' \in [OpenClients -> Nat] /\ openAttempt' \in [OpenFlows -> Nat]
        /\ \A g \in OpenFlows : g # f => openAttempt'[g] = openAttempt[g]
    BY <2>1, Retrying
  <2>3. StreamsAreOwned' /\ stream' \in [OpenSessions -> {"none", "open", "closed"}]
    BY <1>c, <2>1, <2>2 DEF OpenTypeOK
  <2>4. openDial' \in [OpenFlows -> {"idle", "opening", "waiting", "running", "over"}]
    BY <2>2 DEF OpenTypeOK
  <2>5. OpenTypeOK'
    BY <1>b, <2>2, <2>3, <2>4 DEF OpenTypeOK
  <2> QED BY <1>a, <2>2, <2>3, <2>5
<1>4. CASE DialProceeds(f)
  <2>1. CASE openDial[f] = "waiting" /\ Succeeds(f)
    <3>1. /\ openDial' = [openDial EXCEPT ![f] = "running"]
          /\ pendingUsed' = [pendingUsed EXCEPT ![f[1]] = @ - 1]
          /\ UNCHANGED <<openAttempt, slot, reservedUsed, sharedUsed, stream>>
      BY <2>1 DEF Succeeds
    <3>2. SlotsCounted'
      BY <3>1, SlotsUntouched
    <3>3. PendingCounted' /\ pendingUsed' \in [OpenClients -> Nat]
      <4>1. DialMoves(f, "running")
        BY <3>1 DEF DialMoves
      <4> QED BY <2>1, <3>1, <4>1, PendingShrinks
    <3>4. StreamsAreOwned'
      BY <3>1, OpenStreams DEF StreamsAreOwned, OpenTypeOK
    <3>5. SlotsAreOwned'
      BY <2>1, <3>1 DEF SlotsAreOwned, OpenTypeOK
    <3>6. OpenTypeOK'
      BY <1>b, <3>1, <3>3 DEF OpenTypeOK
    <3> QED BY <1>a, <3>2, <3>3, <3>4, <3>5, <3>6
  <2>2. CASE openDial[f] = "waiting" /\ Retries(f) /\ stream' = Closed(f)
    <3>2. /\ SlotsCounted' /\ PendingCounted' /\ SlotsAreOwned'
          /\ \E n \in {"opening", "over"} : openDial' = [openDial EXCEPT ![f] = n]
          /\ slot' \in [OpenFlows -> {"none", "reserved", "shared"}]
          /\ reservedUsed' \in [OpenClients -> Nat] /\ sharedUsed' \in Nat
          /\ pendingUsed' \in [OpenClients -> Nat] /\ openAttempt' \in [OpenFlows -> Nat]
          /\ \A g \in OpenFlows : g # f => openAttempt'[g] = openAttempt[g]
      BY <2>2, Retrying
    <3>3. StreamsAreOwned' /\ stream' \in [OpenSessions -> {"none", "open", "closed"}]
      BY <1>c, <2>2, <3>2 DEF OpenTypeOK
    <3>4. openDial' \in [OpenFlows -> {"idle", "opening", "waiting", "running", "over"}]
      BY <3>2 DEF OpenTypeOK
    <3>5. OpenTypeOK'
      BY <1>b, <3>2, <3>3, <3>4 DEF OpenTypeOK
    <3> QED BY <1>a, <3>2, <3>3, <3>5
  <2>3. openDial[f] = "waiting" /\ (GivesUp(f) => Retries(f))
    BY <1>4 DEF DialProceeds, Retries
  <2> QED BY <1>4, <2>1, <2>2, <2>3 DEF DialProceeds
<1>5. CASE FlowFinishes(f)
  <2>1. /\ openDial[f] = "running" /\ openDial' = [openDial EXCEPT ![f] = "over"]
        /\ ReturnsSlot(f) /\ stream' = Closed(f) /\ UNCHANGED <<openAttempt, pendingUsed>>
    BY <1>5 DEF FlowFinishes
  <2>2. /\ SlotsCounted' /\ slot' = [slot EXCEPT ![f] = "none"]
        /\ reservedUsed' \in [OpenClients -> Nat] /\ sharedUsed' \in Nat
    BY <2>1, ReturningCounts DEF SlotsAreOwned
  <2>3. PendingCounted'
    <3>1. DialMoves(f, "over")
      BY <2>1 DEF DialMoves
    <3> QED BY <2>1, <3>1, PendingStays
  <2>4. StreamsAreOwned' /\ stream' \in [OpenSessions -> {"none", "open", "closed"}]
    BY <1>c, <2>1 DEF OpenTypeOK
  <2>5. SlotsAreOwned'
    BY <2>1, <2>2 DEF SlotsAreOwned, OpenTypeOK
  <2>6. OpenTypeOK'
    BY <1>b, <2>1, <2>2, <2>4 DEF OpenTypeOK
  <2> QED BY <1>a, <2>2, <2>3, <2>4, <2>5, <2>6
<1> QED BY <1>1, <1>2, <1>3, <1>4, <1>5

-----------------------------------------------------------------------------
\* A handler that stays a handler, or one that begins, or one that is gone.
LEMMA PlaceKept ==
  ASSUME OpenTypeOK, PlacesCounted, NEW x \in OpenSessions, NEW h,
         handler' = [handler EXCEPT ![x] = h], Handled(x) <=> h \notin {"none", "gone"},
         UNCHANGED semaphore
  PROVE  PlacesCounted'
<1>1. HandledSessions' = HandledSessions
  BY DEF HandledSessions, Handled, OpenTypeOK
<1> QED BY <1>1 DEF PlacesCounted

LEMMA PlaceTaken ==
  ASSUME OpenTypeOK, PlacesCounted, NEW x \in OpenSessions, handler[x] = "none",
         handler' = [handler EXCEPT ![x] = "reading"], semaphore' = semaphore + 1
  PROVE  PlacesCounted' /\ semaphore' \in Nat
<1>1. HandledSessions' = HandledSessions \cup {x} /\ x \notin HandledSessions
  BY DEF HandledSessions, Handled, OpenTypeOK
<1>2. /\ IsFiniteSet(HandledSessions')
      /\ Cardinality(HandledSessions') = Cardinality(HandledSessions) + 1
  BY <1>1, FS_AddElement DEF PlacesCounted
<1> QED BY <1>2 DEF PlacesCounted, OpenTypeOK

LEMMA PlaceReturned ==
  ASSUME OpenTypeOK, PlacesCounted, NEW x \in OpenSessions, Handled(x), Returning(x)
  PROVE  PlacesCounted' /\ semaphore' \in Nat
<1>1. HandledSessions' = HandledSessions \ {x} /\ x \in HandledSessions
  BY DEF HandledSessions, Handled, Returning, OpenTypeOK
<1>2. /\ IsFiniteSet(HandledSessions')
      /\ Cardinality(HandledSessions') = Cardinality(HandledSessions) - 1
  BY <1>1, FS_RemoveElement DEF PlacesCounted
<1>3. semaphore \in Nat /\ semaphore # 0
  BY <1>1, FS_EmptySet DEF PlacesCounted, OpenTypeOK
<1>4. semaphore' = semaphore - 1
  BY DEF Returning
<1> QED BY <1>2, <1>3, <1>4 DEF PlacesCounted

\* The steps of the server.
LEMMA ServerStep ==
  ASSUME OpenIInv, UNCHANGED sessionMax, NEW x \in OpenSessions,
         \/ ServerAccepts(x) \/ ServerReads(x) \/ ServerDials(x) \/ ServerRegisters(x)
         \/ ServerAnswers(x) \/ ServerFinishes(x) \/ ServerForgets(x)
  PROVE  OpenIInv'
<1> USE DEF OpenIInv
<1>0. UNCHANGED <<sessionMax, openClientVars, stream>>
  BY DEF ServerAccepts, ServerReads, ServerDials, ServerRegisters, ServerAnswers, ServerFinishes,
         ServerForgets
<1>a. SlotsCounted' /\ PendingCounted' /\ SlotsAreOwned' /\ StreamsAreOwned'
  BY <1>0, ClientUntouched
<1>b. ASSUME \E h \in {"none", "reading", "dialing", "checking", "answering", "running", "gone"} :
                handler' = [handler EXCEPT ![x] = h],
             semaphore' \in Nat, destination' \subseteq destination \cup {x},
             sessions' \subseteq sessions \cup {x}, tombstones' \subseteq tombstones \cup {x}
      PROVE  OpenTypeOK'
  BY <1>0, <1>b DEF OpenTypeOK, openClientVars
<1>1. CASE ServerAccepts(x)
  <2>1. CASE semaphore' = semaphore + 1 /\ handler' = [handler EXCEPT ![x] = "reading"]
    <3>1. PlacesCounted' /\ semaphore' \in Nat
      BY <1>1, <2>1, PlaceTaken DEF ServerAccepts
    <3>2. EntriesAreOwned' /\ OpenTypeOK'
      BY <1>1, <1>b, <2>1, <3>1 DEF ServerAccepts, EntriesAreOwned, OpenTypeOK
    <3> QED BY <1>a, <3>1, <3>2
  <2>2. CASE semaphore' = semaphore /\ handler' = [handler EXCEPT ![x] = "gone"]
    <3>1. PlacesCounted'
      BY <1>1, <2>2, PlaceKept DEF ServerAccepts, Handled
    <3>2. EntriesAreOwned' /\ OpenTypeOK'
      BY <1>1, <1>b, <2>2, <3>1 DEF ServerAccepts, EntriesAreOwned, OpenTypeOK
    <3> QED BY <1>a, <3>1, <3>2
  <2> QED BY <1>1, <2>1, <2>2 DEF ServerAccepts
\* A handler that moves on without returning.
<1>c. ASSUME NEW g \in {"reading", "dialing", "checking", "answering"}, handler[x] = g,
             NEW h \in {"dialing", "checking", "answering", "running"},
             handler' = [handler EXCEPT ![x] = h], semaphore' = semaphore, tombstones' = tombstones,
             <<g, h>> \in {<<"reading", "dialing">>, <<"dialing", "checking">>,
                           <<"checking", "answering">>, <<"answering", "running">>},
             destination' = destination \/ (h = "checking" /\ destination' = destination \cup {x}),
             sessions' = sessions \/ (h = "answering" /\ sessions' = sessions \cup {x})
      PROVE  OpenIInv'
  <2>1. PlacesCounted'
    BY <1>c, PlaceKept DEF Handled
  <2>2. EntriesAreOwned'
    BY <1>c DEF EntriesAreOwned, OpenTypeOK
  <2>3. OpenTypeOK'
    BY <1>b, <1>c DEF OpenTypeOK
  <2> QED BY <1>a, <2>1, <2>2, <2>3
\* A handler that returns, and its entry with it unless a timer has it.
<1>d. ASSUME Handled(x), Returning(x),
             \/ handler[x] \in {"reading", "dialing", "checking"} /\ UNCHANGED <<sessions, tombstones>>
             \/ sessions' = Unregistered(x) /\ UNCHANGED tombstones
             \/ tombstones' = tombstones \cup {x} /\ UNCHANGED sessions
      PROVE  OpenIInv'
  <2>1. PlacesCounted' /\ semaphore' \in Nat
    BY <1>d, PlaceReturned
  <2>2. handler' = [handler EXCEPT ![x] = "gone"] /\ destination' = destination \ {x}
    BY <1>d DEF Returning
  <2>3. EntriesAreOwned'
    BY <1>d, <2>2 DEF EntriesAreOwned, OpenTypeOK, Unregistered
  <2>4. OpenTypeOK'
    BY <1>b, <1>d, <2>1, <2>2 DEF Unregistered
  <2> QED BY <1>a, <2>1, <2>3, <2>4
<1>2. CASE ServerReads(x)
  BY <1>2, <1>c, <1>d DEF ServerReads, Handled
<1>3. CASE ServerDials(x)
  BY <1>3, <1>c, <1>d DEF ServerDials, Refuses, Handled
<1>4. CASE ServerRegisters(x)
  BY <1>4, <1>c, <1>d DEF ServerRegisters, Refuses, Handled
<1>5. CASE ServerAnswers(x)
  BY <1>5, <1>c, <1>d DEF ServerAnswers, Handled
<1>6. CASE ServerFinishes(x)
  BY <1>6, <1>d DEF ServerFinishes, Handled
<1>7. CASE ServerForgets(x)
  <2>1. /\ x \in tombstones /\ tombstones' = tombstones \ {x} /\ sessions' = sessions \ {x}
        /\ UNCHANGED <<handler, destination, semaphore>>
    BY <1>7 DEF ServerForgets, Unregistered
  <2>2. PlacesCounted'
    BY <2>1 DEF PlacesCounted, HandledSessions, Handled
  <2>3. EntriesAreOwned'
    BY <2>1 DEF EntriesAreOwned
  <2>4. OpenTypeOK'
    BY <1>0, <2>1 DEF OpenTypeOK, openClientVars
  <2> QED BY <1>a, <2>2, <2>3, <2>4
<1> QED BY <1>1, <1>2, <1>3, <1>4, <1>5, <1>6, <1>7

\* The session slots, pending places and server places, the registry's entries and the
\* destinations are each held by somebody who gives them back, on every failing path of
\* DialConn and handleSession, whatever the limits (client.go:291, server.go:422).
THEOREM EveryPlaceComesBack == OpenSpec => []OpenInv
<1>1. OpenInit => OpenIInv
  BY OpenInitInv
<1>2. OpenIInv /\ [OpenNext]_openVars => OpenIInv'
  <2> SUFFICES ASSUME OpenIInv, [OpenNext]_openVars PROVE OpenIInv'
    OBVIOUS
  <2>1. CASE OpenNext
    BY <2>1, DialStep, ServerStep DEF OpenNext
  <2>2. CASE UNCHANGED openVars
    <3>1. /\ SlotsCounted' /\ PendingCounted' /\ SlotsAreOwned' /\ StreamsAreOwned'
          /\ PlacesCounted' /\ EntriesAreOwned'
      BY <2>2, ClientUntouched, ServerUntouched DEF OpenIInv, openVars
    <3>2. OpenTypeOK'
      BY <2>2 DEF OpenIInv, OpenTypeOK, openVars, openClientVars, openServerVars
    <3> QED BY <3>1, <3>2 DEF OpenIInv
  <2> QED BY <2>1, <2>2
<1>3. OpenIInv => OpenInv
  BY OpenIInvIsEnough
<1> QED BY <1>1, <1>2, <1>3, PTL DEF OpenSpec

-----------------------------------------------------------------------------
(* The outages of a flow's lanes *)

LifeTypeOK ==
  /\ endpoint \in {"client", "server"}
  /\ laneIs \in [AllLanes -> {"unused", "dialing", "parked", "staged", "ready", "failed", "gone"}]
  /\ laneOpen \subseteq AllLanes
  /\ ended \in BOOLEAN /\ resumeRefused \in BOOLEAN /\ abandoned \in BOOLEAN
  /\ waiting \in [LaneWaiters -> {"away", "looking", "asleep"} \cup GaveUp]
  /\ until \in [LaneWaiters -> Nat] /\ {deadline, lifeClock, lastSeen} \subseteq Nat
  /\ lastSeen <= lifeClock
  /\ manager \in {"idle", "stall", "tick", "gone"}

\* Only the client's flow has a manager, and it is abandoned only by one that returned.
ManagersEnd ==
  /\ manager # "gone" => endpoint = "client"
  /\ abandoned => manager = "gone" /\ endpoint = "client"

\* Who was told of a refusal or of the manager's end was told the truth.
VerdictsHold == \A w \in LaneWaiters :
  /\ waiting[w] = "refused" => resumeRefused
  /\ waiting[w] = "abandoned" => abandoned

\* While the flow lives, a deadline is somebody's: time does not move on beside a healthy
\* lane while one is pending.
OutagesHaveWaiters ==
  ~ended /\ deadline # 0 => \E w \in LaneWaiters : waiting[w] \in {"asleep"} \cup GaveUp

\* And whoever waits, or would join the outage, is granted a whole grace without a lane.
OutagesLastAGrace ==
  /\ deadline <= lifeClock + Grace
  /\ ~ended /\ deadline # 0 => deadline >= lastSeen + Grace
  /\ \A w \in LaneWaiters :
       /\ ~ended /\ waiting[w] = "asleep" => until[w] >= lastSeen + Grace
       /\ ~ended /\ waiting[w] = "timeout" => lifeClock >= lastSeen + Grace

LanesAreOpen ==
  /\ \A l \in laneOpen : laneIs[l] \in {"ready", "staged", "parked"}
  /\ ~ended => \A l \in AllLanes : laneIs[l] \in {"ready", "staged"} => l \in laneOpen

LifeIInv ==
  /\ LifeTypeOK /\ ManagersEnd /\ VerdictsHold /\ OutagesHaveWaiters /\ OutagesLastAGrace
  /\ LanesAreOpen

LEMMA LifeIInvIsEnough == LifeIInv => LifeInv
<1> SUFFICES ASSUME LifeIInv PROVE LifeInv
  OBVIOUS
<1>1. \A w \in LaneWaiters : waiting[w] = "timeout" => lifeClock - lastSeen >= Grace \/ ended
  BY LifeAssumption DEF LifeIInv, LifeTypeOK, OutagesLastAGrace
<1>2. ~ended => Healthy \subseteq laneOpen
  BY DEF LifeIInv, LanesAreOpen, Healthy
<1> QED
  BY <1>1, <1>2 DEF LifeIInv, LifeInv, OutagesLastAGrace, VerdictsHold, ManagersEnd, LanesAreOpen

LEMMA LifeInitInv == LifeInit => LifeIInv
<1> SUFFICES ASSUME LifeInit PROVE LifeIInv
  OBVIOUS
<1>1. LifeTypeOK
  <2>1. /\ laneIs \in [AllLanes -> {"unused", "dialing", "parked", "staged", "ready", "failed", "gone"}]
        /\ laneOpen \subseteq AllLanes /\ until \in [LaneWaiters -> Nat]
    BY DEF LifeInit, AllLanes
  <2>2. waiting \in [LaneWaiters -> {"away", "looking", "asleep"} \cup GaveUp]
    BY DEF LifeInit
  <2>3. manager \in {"idle", "stall", "tick", "gone"} /\ endpoint \in {"client", "server"}
    BY DEF LifeInit
  <2>4. ended \in BOOLEAN /\ resumeRefused \in BOOLEAN /\ abandoned \in BOOLEAN
    BY DEF LifeInit
  <2>5. {deadline, lifeClock, lastSeen} \subseteq Nat /\ lastSeen <= lifeClock
    BY DEF LifeInit
  <2> QED BY <2>1, <2>2, <2>3, <2>4, <2>5 DEF LifeTypeOK
<1>2. ManagersEnd /\ VerdictsHold /\ OutagesHaveWaiters /\ LanesAreOpen
  BY DEF LifeInit, ManagersEnd, VerdictsHold, OutagesHaveWaiters, LanesAreOpen, AllLanes
<1>3. OutagesLastAGrace
  BY LifeAssumption DEF LifeInit, OutagesLastAGrace
<1> QED BY <1>1, <1>2, <1>3 DEF LifeIInv

-----------------------------------------------------------------------------
\* A lane that starts ends the outage, and leaves the waiters what they have.
LEMMA OutageEnds ==
  ASSUME LifeIInv, deadline' \in {0, deadline},
         UNCHANGED <<endpoint, waiting, until, lifeClock, lastSeen, resumeRefused>>,
         ended' \in BOOLEAN, ended => ended', abandoned' \in BOOLEAN, abandoned => abandoned',
         manager' \in {"idle", "stall", "tick", "gone"}, manager = "gone" => manager' = "gone",
         abandoned' => abandoned \/ (manager # "gone" /\ manager' = "gone"),
         laneIs' \in [AllLanes -> {"unused", "dialing", "parked", "staged", "ready", "failed", "gone"}],
         laneOpen' \subseteq AllLanes, LanesAreOpen'
  PROVE  LifeIInv'
<1> USE DEF LifeIInv
<1>1. LifeTypeOK'
  BY DEF LifeTypeOK
<1>2. ManagersEnd' /\ VerdictsHold'
  BY DEF ManagersEnd, VerdictsHold, LifeTypeOK
<1>3. OutagesHaveWaiters'
  BY DEF OutagesHaveWaiters, LifeTypeOK
<1>4. OutagesLastAGrace'
  BY LifeAssumption DEF OutagesLastAGrace, LifeTypeOK
<1> QED BY <1>1, <1>2, <1>3, <1>4

\* One waiter changes its state, and perhaps the deadline, while the lanes stay.
LEMMA WaiterStep ==
  ASSUME LifeIInv, NEW w \in LaneWaiters,
         \/ WaitBegins(w) \/ WaitBudget(w) \/ WaitTicks(w) \/ WaitExpires(w) \/ WaitStops(w)
  PROVE  LifeIInv'
<1> USE DEF LifeIInv
<1>1. /\ UNCHANGED <<endpoint, laneIs, laneOpen, ended, lifeClock, lastSeen, resumeRefused, abandoned,
                     manager>>
      /\ Grace \in Nat /\ Grace > 0
  BY LifeAssumption DEF WaitBegins, WaitBudget, WaitTicks, WaitExpires, WaitStops, laneState, timeState,
       verdicts, managerState
<1>2. LanesAreOpen' /\ ManagersEnd'
  BY <1>1 DEF LanesAreOpen, ManagersEnd
<1>3. CASE WaitBegins(w)
  <2>1. /\ waiting[w] = "away" /\ until' = until
        /\ deadline' = 0 \/ deadline' = deadline
        /\ \/ waiting' = waiting
           \/ waiting' = [waiting EXCEPT ![w] = "refused"] /\ resumeRefused
           \/ waiting' = [waiting EXCEPT ![w] = "abandoned"] /\ abandoned
           \/ waiting' = [waiting EXCEPT ![w] = "looking"]
    BY <1>3 DEF WaitBegins, OutageOver, FirstLook
  <2>2. LifeTypeOK'
    BY <1>1, <2>1 DEF LifeTypeOK, GaveUp
  <2>3. VerdictsHold'
    BY <1>1, <2>1 DEF VerdictsHold, LifeTypeOK
  <2>4. OutagesHaveWaiters'
    BY <1>1, <2>1 DEF OutagesHaveWaiters, LifeTypeOK, GaveUp
  <2>5. OutagesLastAGrace'
    BY <1>1, <2>1 DEF OutagesLastAGrace, LifeTypeOK
  <2> QED BY <1>2, <2>2, <2>3, <2>4, <2>5
<1>4. CASE WaitBudget(w)
  <2>1. CASE /\ deadline # 0 /\ deadline' = deadline /\ deadline > lifeClock
             /\ waiting' = [waiting EXCEPT ![w] = "asleep"]
             /\ until' = [until EXCEPT ![w] = deadline]
    <3>1. LifeTypeOK'
      BY <1>1, <2>1 DEF LifeTypeOK
    <3>2. VerdictsHold' /\ OutagesHaveWaiters'
      BY <1>1, <2>1 DEF VerdictsHold, OutagesHaveWaiters, LifeTypeOK
    <3>3. OutagesLastAGrace'
      BY <1>1, <2>1 DEF OutagesLastAGrace, LifeTypeOK
    <3> QED BY <1>2, <3>1, <3>2, <3>3
  <2>2. CASE /\ deadline # 0 /\ deadline' = deadline /\ ~(deadline > lifeClock)
             /\ waiting' = [waiting EXCEPT ![w] = "timeout"] /\ until' = until
    <3>1. LifeTypeOK'
      BY <1>1, <2>2 DEF LifeTypeOK, GaveUp
    <3>2. VerdictsHold' /\ OutagesHaveWaiters'
      BY <1>1, <2>2 DEF VerdictsHold, OutagesHaveWaiters, LifeTypeOK, GaveUp
    <3>3. OutagesLastAGrace'
      BY <1>1, <2>2 DEF OutagesLastAGrace, LifeTypeOK
    <3> QED BY <1>2, <3>1, <3>2, <3>3
  <2>3. CASE /\ deadline' = lifeClock + Grace
             /\ waiting' = [waiting EXCEPT ![w] = "asleep"]
             /\ until' = [until EXCEPT ![w] = lifeClock + Grace]
    <3>1. LifeTypeOK'
      BY <1>1, <2>3 DEF LifeTypeOK
    <3>2. VerdictsHold' /\ OutagesHaveWaiters'
      BY <1>1, <2>3 DEF VerdictsHold, OutagesHaveWaiters, LifeTypeOK
    <3>3. OutagesLastAGrace'
      BY <1>1, <2>3 DEF OutagesLastAGrace, LifeTypeOK
    <3> QED BY <1>2, <3>1, <3>2, <3>3
  <2> QED BY <1>4, <2>1, <2>2, <2>3 DEF WaitBudget
<1>5. CASE WaitTicks(w)
  <2>1. /\ waiting[w] = "asleep" /\ until' = [until EXCEPT ![w] = 0]
        /\ \/ waiting' = [waiting EXCEPT ![w] = "away"] /\ deadline' = 0
           \/ /\ waiting' = [waiting EXCEPT ![w] = "refused"] /\ resumeRefused
              /\ deadline' = deadline
           \/ /\ waiting' = [waiting EXCEPT ![w] = "abandoned"] /\ abandoned
              /\ deadline' = deadline
    BY <1>5 DEF WaitTicks, OutageOver, Noticed
  <2>2. LifeTypeOK'
    BY <1>1, <2>1 DEF LifeTypeOK, GaveUp
  <2>3. VerdictsHold' /\ OutagesHaveWaiters'
    BY <1>1, <2>1 DEF VerdictsHold, OutagesHaveWaiters, LifeTypeOK, GaveUp
  <2>4. OutagesLastAGrace'
    BY <1>1, <2>1 DEF OutagesLastAGrace, LifeTypeOK
  <2> QED BY <1>2, <2>2, <2>3, <2>4
<1>6. CASE WaitExpires(w)
  <2>1. /\ waiting[w] = "asleep" /\ lifeClock >= until[w] /\ until' = [until EXCEPT ![w] = 0]
        /\ waiting' = [waiting EXCEPT ![w] = "timeout"] /\ deadline' = deadline
    BY <1>6 DEF WaitExpires
  <2>2. LifeTypeOK'
    BY <1>1, <2>1 DEF LifeTypeOK, GaveUp
  <2>3. VerdictsHold' /\ OutagesHaveWaiters'
    BY <1>1, <2>1 DEF VerdictsHold, OutagesHaveWaiters, LifeTypeOK, GaveUp
  <2>4. OutagesLastAGrace'
    BY <1>1, <2>1 DEF OutagesLastAGrace, LifeTypeOK
  <2> QED BY <1>2, <2>2, <2>3, <2>4
<1>7. CASE WaitStops(w)
  <2>1. /\ ended /\ until' = [until EXCEPT ![w] = 0]
        /\ waiting' = [waiting EXCEPT ![w] = "away"] /\ deadline' = deadline
    BY <1>7 DEF WaitStops
  <2>2. LifeTypeOK'
    BY <1>1, <2>1 DEF LifeTypeOK
  <2>3. VerdictsHold' /\ OutagesHaveWaiters'
    BY <1>1, <2>1 DEF VerdictsHold, OutagesHaveWaiters, LifeTypeOK
  <2>4. OutagesLastAGrace'
    BY <1>1, <2>1 DEF OutagesLastAGrace, LifeTypeOK
  <2> QED BY <1>2, <2>2, <2>3, <2>4
<1> QED BY <1>3, <1>4, <1>5, <1>6, <1>7

\* Time moves on beside a pending deadline only when no lane is healthy.
LEMMA TimeStep == LifeIInv /\ LifeTick => LifeIInv'
<1> SUFFICES ASSUME LifeIInv, LifeTick PROVE LifeIInv'
  OBVIOUS
<1> USE DEF LifeIInv
<1>1. /\ UNCHANGED <<endpoint, laneIs, laneOpen, ended, waiting, until, deadline, resumeRefused, abandoned,
                     manager>>
      /\ Grace \in Nat /\ Grace > 0 /\ lifeClock' = lifeClock + 1 /\ ~ended
      /\ lastSeen' = IF Healthy # {} THEN lifeClock + 1 ELSE lastSeen
  BY LifeAssumption DEF LifeTick, laneState, waitState, verdicts, managerState
<1>2. ASSUME NEW w \in LaneWaiters
      PROVE  waiting[w] \notin GaveUp /\ (waiting[w] = "asleep" => Healthy = {})
  BY DEF LifeTick, Noticed
<1>3. deadline # 0 => Healthy = {}
  BY <1>1, <1>2 DEF OutagesHaveWaiters
<1>4. LifeTypeOK'
  BY <1>1 DEF LifeTypeOK
<1>5. OutagesLastAGrace'
  <2>1. deadline' <= lifeClock' + Grace
    BY <1>1 DEF OutagesLastAGrace, LifeTypeOK
  <2>2. deadline' # 0 => deadline' >= lastSeen' + Grace
    BY <1>1, <1>3 DEF OutagesLastAGrace
  <2>3. \A w \in LaneWaiters :
          /\ waiting'[w] = "asleep" => until'[w] >= lastSeen' + Grace
          /\ waiting'[w] # "timeout"
    BY <1>1, <1>2 DEF OutagesLastAGrace, GaveUp
  <2> QED BY <2>1, <2>2, <2>3 DEF OutagesLastAGrace
<1>6. ManagersEnd' /\ VerdictsHold' /\ OutagesHaveWaiters' /\ LanesAreOpen'
  BY <1>1 DEF ManagersEnd, VerdictsHold, OutagesHaveWaiters, LanesAreOpen
<1> QED BY <1>4, <1>5, <1>6

\* A JOIN extends the outage it finds.
LEMMA JoinArrivesStep ==
  ASSUME LifeIInv, NEW l \in AllLanes, JoinArrives(l)
  PROVE  LifeIInv'
<1> USE DEF LifeIInv
<1>1. /\ UNCHANGED <<endpoint, ended, waiting, until, lifeClock, lastSeen, resumeRefused, abandoned, manager>>
      /\ laneIs[l] = "unused" /\ laneIs' = [laneIs EXCEPT ![l] = "staged"]
      /\ laneOpen' = laneOpen \cup {l}
      /\ deadline' = deadline \/ (deadline # 0 /\ deadline' = lifeClock + Grace)
      /\ Grace \in Nat /\ Grace > 0
  BY LifeAssumption DEF JoinArrives, Extended, timeState, verdicts, managerState
<1>2. LifeTypeOK'
  BY <1>1 DEF LifeTypeOK
<1>3. LanesAreOpen'
  BY <1>1 DEF LanesAreOpen, LifeTypeOK
<1>4. OutagesLastAGrace'
  BY <1>1 DEF OutagesLastAGrace, LifeTypeOK
<1>5. ManagersEnd' /\ VerdictsHold' /\ OutagesHaveWaiters'
  BY <1>1 DEF ManagersEnd, VerdictsHold, OutagesHaveWaiters
<1> QED BY <1>2, <1>3, <1>4, <1>5

-----------------------------------------------------------------------------
\* The steps that move a lane, end the flow or move the manager.
LEMMA LaneStep ==
  ASSUME LifeIInv, NEW l \in AllLanes,
         LaneFails(l) \/ AckClears(l) \/ JoinReturns(l) \/ JoinSettles(l)
  PROVE  LifeIInv'
<1>1. /\ UNCHANGED <<endpoint, waiting, until, lifeClock, lastSeen, resumeRefused, abandoned, ended, manager>>
      /\ deadline' \in {0, deadline}
  BY DEF LaneFails, AckClears, JoinReturns, JoinSettles, Started, waitState, timeState, verdicts, managerState
<1>2. /\ laneIs' \in [AllLanes -> {"unused", "dialing", "parked", "staged", "ready", "failed", "gone"}]
      /\ laneOpen' \subseteq AllLanes
  BY DEF LifeIInv, LifeTypeOK, LaneFails, AckClears, JoinReturns, JoinSettles, Started
<1>3. LanesAreOpen'
  BY <1>1 DEF LifeIInv, LifeTypeOK, LanesAreOpen, LaneFails, AckClears, JoinReturns, JoinSettles, Started
<1> QED BY <1>1, <1>2, <1>3, OutageEnds DEF LifeIInv, LifeTypeOK

LEMMA EndStep ==
  ASSUME LifeIInv, FlowEnds \/ StallLooks \/ \E w \in LaneWaiters : FlowFails(w)
  PROVE  LifeIInv'
<1>1. /\ UNCHANGED <<endpoint, laneIs, waiting, until, deadline, lifeClock, lastSeen, resumeRefused, abandoned,
                     manager>>
      /\ \/ ended' = TRUE /\ laneOpen' \subseteq laneOpen
         \/ ended' = ended /\ laneOpen' = laneOpen
  BY DEF FlowEnds, StallLooks, FlowFails, Closes, waitState, timeState, verdicts, managerState
<1>2. LanesAreOpen'
  BY <1>1 DEF LifeIInv, LanesAreOpen
<1>3. /\ laneIs' \in [AllLanes -> {"unused", "dialing", "parked", "staged", "ready", "failed", "gone"}]
      /\ laneOpen' \subseteq AllLanes /\ deadline' \in {0, deadline}
  BY <1>1 DEF LifeIInv, LifeTypeOK
<1>4. ended' \in BOOLEAN /\ (ended => ended')
  BY <1>1 DEF LifeIInv, LifeTypeOK
<1>5. /\ abandoned' \in BOOLEAN /\ (abandoned => abandoned')
      /\ abandoned' => abandoned \/ (manager # "gone" /\ manager' = "gone")
  BY <1>1 DEF LifeIInv, LifeTypeOK
<1>6. manager' \in {"idle", "stall", "tick", "gone"} /\ (manager = "gone" => manager' = "gone")
  BY <1>1 DEF LifeIInv, LifeTypeOK
<1> QED BY <1>1, <1>2, <1>3, <1>4, <1>5, <1>6, OutageEnds

LEMMA ManagerStep ==
  ASSUME LifeIInv,
         \/ ManagerSeesEnd \/ ManagerHearsStall \/ ManagerRecovers \/ ManagerForgets \/ RoundFails
  PROVE  LifeIInv'
<1>1. /\ UNCHANGED <<endpoint, laneIs, laneOpen, ended, waiting, until, deadline, lifeClock, lastSeen,
                     resumeRefused>>
      /\ manager # "gone" /\ manager' \in {"idle", "stall", "tick", "gone"}
      /\ abandoned' = abandoned \/ (abandoned' = TRUE /\ manager' = "gone")
  BY DEF ManagerSeesEnd, ManagerHearsStall, ManagerRecovers, ManagerForgets, RoundFails, ManagerReturns,
         laneState, waitState, timeState, verdicts, LifeIInv, LifeTypeOK
<1>2. LanesAreOpen'
  BY <1>1 DEF LifeIInv, LanesAreOpen
<1>3. /\ laneIs' \in [AllLanes -> {"unused", "dialing", "parked", "staged", "ready", "failed", "gone"}]
      /\ laneOpen' \subseteq AllLanes /\ deadline' \in {0, deadline}
  BY <1>1 DEF LifeIInv, LifeTypeOK
<1>4. ended' \in BOOLEAN /\ (ended => ended')
  BY <1>1 DEF LifeIInv, LifeTypeOK
<1>5. /\ abandoned' \in BOOLEAN /\ (abandoned => abandoned')
      /\ abandoned' => abandoned \/ (manager # "gone" /\ manager' = "gone")
  <2>1. CASE abandoned' = abandoned
    BY <2>1 DEF LifeIInv, LifeTypeOK
  <2>2. CASE abandoned' = TRUE /\ manager' = "gone" /\ manager # "gone"
    BY <2>2
  <2> QED BY <1>1, <2>1, <2>2
<1>6. manager' \in {"idle", "stall", "tick", "gone"} /\ (manager = "gone" => manager' = "gone")
  BY <1>1 DEF LifeIInv, LifeTypeOK
<1> QED BY <1>1, <1>2, <1>3, <1>4, <1>5, <1>6, OutageEnds

\* A lane is installed, or a dial begins.
LEMMA InstallStep ==
  ASSUME LifeIInv, ManagerDrains \/ ManagerIsolates \/ RoundWins
  PROVE  LifeIInv'
<1>1. /\ UNCHANGED <<endpoint, waiting, until, lifeClock, lastSeen, resumeRefused, abandoned, ended>>
      /\ manager # "gone" /\ manager' \in {manager, "idle"} /\ deadline' \in {0, deadline}
  BY DEF ManagerDrains, ManagerIsolates, RoundWins, Installed, Started, laneState, waitState, timeState,
         verdicts
<1>2. \/ laneIs' = laneIs /\ laneOpen' = laneOpen
      \/ \E l \in AllLanes :
           /\ laneIs[l] \in {"unused", "parked"}
           /\ \/ laneIs' = [laneIs EXCEPT ![l] = "ready"] /\ laneOpen' = laneOpen \cup {l}
              \/ laneIs' = [laneIs EXCEPT ![l] = "gone"] /\ laneOpen' = laneOpen \ {l}
              \/ /\ laneIs[l] = "unused" /\ laneIs' = [laneIs EXCEPT ![l] = "dialing"]
                 /\ laneOpen' = laneOpen
  BY DEF ManagerDrains, ManagerIsolates, RoundWins, Installed, Started, laneState, AllLanes
<1>3. /\ laneIs' \in [AllLanes -> {"unused", "dialing", "parked", "staged", "ready", "failed", "gone"}]
      /\ laneOpen' \subseteq AllLanes
  BY <1>2 DEF LifeIInv, LifeTypeOK
<1>4. LanesAreOpen'
  BY <1>1, <1>2 DEF LifeIInv, LifeTypeOK, LanesAreOpen
<1> QED BY <1>1, <1>3, <1>4, OutageEnds DEF LifeIInv, LifeTypeOK

\* The peer's refusals are remembered.
LEMMA RefusalStep ==
  ASSUME LifeIInv, RoundIsRefused \/ RoundFindsItFull
  PROVE  LifeIInv'
<1> USE DEF LifeIInv
<1>1. /\ UNCHANGED <<endpoint, laneIs, laneOpen, ended, waiting, until, deadline, lifeClock, lastSeen>>
      /\ manager # "gone" /\ manager' \in {"idle", "gone"}
      /\ abandoned' = abandoned \/ (abandoned' = TRUE /\ manager' = "gone")
      /\ resumeRefused' \in BOOLEAN /\ (resumeRefused => resumeRefused')
  BY DEF RoundIsRefused, RoundFindsItFull, ManagerReturns, laneState, waitState, timeState, verdicts,
         LifeTypeOK
<1>2. LifeTypeOK'
  BY <1>1 DEF LifeTypeOK
<1>3. ManagersEnd' /\ VerdictsHold'
  BY <1>1 DEF ManagersEnd, VerdictsHold, LifeTypeOK
<1>4. OutagesHaveWaiters' /\ OutagesLastAGrace' /\ LanesAreOpen'
  BY <1>1 DEF OutagesHaveWaiters, OutagesLastAGrace, LanesAreOpen
<1> QED BY <1>2, <1>3, <1>4

\* The grace belongs to the outage, however many wait, whatever the grace and the number of
\* lanes: nobody gives a flow up earlier, no outage is granted more, a verdict is true when
\* it is given, and closed lanes are not taken for healthy ones (mpflow.go:2214).
THEOREM NobodyGivesUpEarly == LifeSpec => []LifeInv
<1>1. LifeInit => LifeIInv
  BY LifeInitInv
<1>2. LifeIInv /\ [LifeNext]_lifeVars => LifeIInv'
  <2> SUFFICES ASSUME LifeIInv, [LifeNext]_lifeVars PROVE LifeIInv'
    OBVIOUS
  <2>1. CASE LifeNext
    BY <2>1, TimeStep, WaiterStep, JoinArrivesStep, LaneStep, EndStep, ManagerStep, InstallStep, RefusalStep
       DEF LifeNext
  <2>2. CASE UNCHANGED lifeVars
    BY <2>2 DEF lifeVars, LifeIInv, LifeTypeOK, ManagersEnd, VerdictsHold, OutagesHaveWaiters,
                OutagesLastAGrace, LanesAreOpen
  <2> QED BY <2>1, <2>2
<1>3. LifeIInv => LifeInv
  BY LifeIInvIsEnough
<1> QED BY <1>1, <1>2, <1>3, PTL DEF LifeSpec

-----------------------------------------------------------------------------
(* The frames on a lane's stream *)

OnStream(n, h) == \E i \in 1..Len(wireStream) : wireStream[i] = <<n, h>>

WireTypeOK ==
  /\ unconfirmed \in BOOLEAN /\ safetyCopy \in BOOLEAN /\ fin \in BOOLEAN
  /\ kinds \in Seq({"data", "control"})
  /\ pen \in [WireWriters -> [is : {"resting", "waiting", "writing", "failing"}, frame : Nat,
                              half : {0, 1}]]
  /\ holder \in WireWriters \cup {"none"}
  /\ wireStream \in Seq(Nat \X {1, 2})
  /\ sentCoded \subseteq 1..Len(kinds) /\ finished \subseteq 1..Len(kinds)
  /\ decoded \in Seq(Nat)

\* The lock is the writing writer's, and a frame belongs to one writer until it is done.
PensAreTheirs == \A w \in WireWriters :
  /\ pen[w].is = "writing" <=> holder = w
  /\ pen[w].is = "resting" => pen[w].frame = 0 /\ pen[w].half = 0
  /\ pen[w].is = "waiting" => pen[w].half = 0
  /\ pen[w].is # "resting" =>
       /\ pen[w].frame \in 1..Len(kinds) /\ pen[w].frame \notin finished
       /\ \A v \in WireWriters : pen[v].is # "resting" /\ pen[v].frame = pen[w].frame => v = w

\* The stream has each half once, and of an unfinished frame what its writer wrote.
HalvesAreWritten ==
  /\ \A i, j \in 1..Len(wireStream) : wireStream[i] = wireStream[j] => i = j
  /\ \A i \in 1..Len(wireStream) : wireStream[i][1] \in 1..Len(kinds)
  /\ \A w \in WireWriters : pen[w].is # "resting" =>
       /\ OnStream(pen[w].frame, 1) <=> pen[w].half = 1
       /\ ~OnStream(pen[w].frame, 2)

SentIsSomewhere == \A n \in finished :
  (OnStream(n, 1) /\ OnStream(n, 2)) \/ (n \in sentCoded /\ kinds[n] = "data")

\* The coded path is first used with a copy, and the copy is finished, or on its way.
CopyIsKept == unconfirmed =>
  /\ safetyCopy => sentCoded = {}
  /\ ~safetyCopy /\ ~fin =>
       \/ \E n \in finished \cap sentCoded : OnStream(n, 1) /\ OnStream(n, 2)
       \/ \E w \in WireWriters : pen[w].is # "resting" /\ pen[w].frame \in sentCoded

\* A frame that was cut off and that nobody goes on with.
CutOff(n) ==
  /\ OnStream(n, 1) /\ ~OnStream(n, 2)
  /\ \A w \in WireWriters : ~(pen[w].is = "writing" /\ pen[w].frame = n)

\* Until there is one, the stream is pairs of halves, and the lock's holder is inside the last.
FramesAreWhole == (\A n \in 1..Len(kinds) : ~CutOff(n)) =>
  /\ \A k \in Nat : 2 * k + 2 <= Len(wireStream) => wireStream[2*k + 1][1] = wireStream[2*k + 2][1]
  /\ \E k \in Nat :
       \/ Len(wireStream) = 2 * k /\ \A w \in WireWriters : holder = w => pen[w].half = 0
       \/ /\ Len(wireStream) = 2 * k + 1 /\ holder # "none" /\ pen[holder].half = 1
          /\ pen[holder].frame = wireStream[2 * k + 1][1]

DecodedIsRead ==
  /\ 2 * Len(decoded) <= Len(wireStream)
  /\ \A k \in Nat : k < Len(decoded) =>
       decoded[k + 1] = IF wireStream[2*k + 1][1] = wireStream[2*k + 2][1]
                          THEN wireStream[2*k + 1][1] ELSE 0

WireIInv ==
  /\ WireTypeOK /\ PensAreTheirs /\ HalvesAreWritten /\ SentIsSomewhere /\ CopyIsKept /\ FramesAreWhole
  /\ DecodedIsRead

-----------------------------------------------------------------------------
\* How many halves of a frame there are.
LEMMA HalvesCounted ==
  ASSUME WireTypeOK, HalvesAreWritten, NEW n, OnStream(n, 1)
  PROVE  /\ OnStream(n, 2) => Cardinality(Halves(n)) = 2
         /\ ~OnStream(n, 2) => Cardinality(Halves(n)) = 1
<1>0. \A i \in 1..Len(wireStream) : /\ wireStream[i] = <<wireStream[i][1], wireStream[i][2]>>
                                    /\ wireStream[i][2] \in {1, 2}
  BY ElementOfSeq DEF WireTypeOK
<1>1. PICK i \in 1..Len(wireStream) : wireStream[i] = <<n, 1>>
  BY DEF OnStream
<1>2. CASE OnStream(n, 2)
  <2>1. PICK j \in 1..Len(wireStream) : wireStream[j] = <<n, 2>>
    BY <1>2 DEF OnStream
  <2>2. i # j
    BY <1>1, <2>1
  <2>3. Halves(n) = {i} \cup {j}
    <3>1. i \in Halves(n) /\ j \in Halves(n)
      BY <1>1, <2>1 DEF Halves
    <3>2. ASSUME NEW k \in Halves(n) PROVE k \in {i} \cup {j}
      <4>1. k \in 1..Len(wireStream) /\ wireStream[k][1] = n
        BY DEF Halves
      <4>2. wireStream[k] = <<n, 1>> \/ wireStream[k] = <<n, 2>>
        BY <1>0, <4>1
      <4> QED BY <1>1, <2>1, <4>1, <4>2 DEF HalvesAreWritten
    <3> QED BY <3>1, <3>2
  <2>4. IsFiniteSet({i}) /\ Cardinality({i}) = 1
    BY FS_Singleton
  <2>5. Cardinality({i} \cup {j}) = Cardinality({i}) + 1
    <3>1. j \notin {i}
      BY <2>2
    <3> QED BY ONLY <2>4, <3>1, FS_AddElement
  <2> QED BY <1>2, <2>3, <2>4, <2>5
<1>3. CASE ~OnStream(n, 2)
  <2>1. Halves(n) = {i}
    <3>1. i \in Halves(n)
      BY <1>1 DEF Halves
    <3>2. ASSUME NEW k \in Halves(n) PROVE k = i
      <4>1. k \in 1..Len(wireStream) /\ wireStream[k][1] = n
        BY DEF Halves
      <4>2. wireStream[k] = <<n, 1>>
        BY <1>0, <1>3, <4>1 DEF OnStream
      <4> QED BY <1>1, <4>1, <4>2 DEF HalvesAreWritten
    <3> QED BY <3>1, <3>2
  <2> QED BY <1>3, <2>1, FS_Singleton
<1> QED BY <1>2, <1>3

LEMMA WireIInvIsEnough == WireIInv => WireInv
<1> SUFFICES ASSUME WireIInv PROVE WireInv
  OBVIOUS
<1> USE DEF WireIInv
<1>0. \A i \in 1..Len(wireStream) : /\ wireStream[i] = <<wireStream[i][1], wireStream[i][2]>>
                                    /\ wireStream[i][1] \in 1..Len(kinds) /\ wireStream[i][2] \in {1, 2}
  BY ElementOfSeq DEF WireTypeOK, HalvesAreWritten
<1>b. \A i, j \in 1..Len(wireStream) :
        wireStream[i][1] = wireStream[j][1] /\ wireStream[i][2] = wireStream[j][2] => i = j
  <2> SUFFICES ASSUME NEW i \in 1..Len(wireStream), NEW j \in 1..Len(wireStream),
                      wireStream[i][1] = wireStream[j][1], wireStream[i][2] = wireStream[j][2]
               PROVE  i = j
    OBVIOUS
  <2>1. wireStream[i] = wireStream[j]
    BY <1>0
  <2> QED BY <2>1 DEF HalvesAreWritten
<1>a. Len(wireStream) \in Nat /\ Len(decoded) \in Nat /\ Len(kinds) \in Nat
  BY LenProperties DEF WireTypeOK
<1>1. ASSUME Torn = {}, NEW k \in 1..Len(decoded)
      PROVE  decoded[k] # 0
  <2>1. \A n \in 1..Len(kinds) : ~CutOff(n)
    <3> SUFFICES ASSUME NEW n \in 1..Len(kinds), CutOff(n) PROVE FALSE
      OBVIOUS
    <3>1. Cardinality(Halves(n)) = 1
      BY HalvesCounted DEF CutOff
    <3> QED BY <1>1, <3>1 DEF CutOff, Torn
  <2> DEFINE m == k - 1
  <2>2. m \in Nat /\ m < Len(decoded) /\ k = m + 1
    BY <1>a
  <2> HIDE DEF m
  <2>3. 2 * m + 2 <= Len(wireStream) /\ 2 * m + 1 \in 1..Len(wireStream)
    BY <1>a, <2>2 DEF DecodedIsRead
  <2>4. wireStream[2*m + 1][1] = wireStream[2*m + 2][1]
    BY <2>1, <2>2, <2>3 DEF FramesAreWhole
  <2>5. decoded[k] = wireStream[2*m + 1][1]
    BY <2>2, <2>4 DEF DecodedIsRead
  <2> QED BY <1>0, <2>3, <2>5
<1>2. ASSUME NEW i \in 1..Len(decoded), NEW j \in 1..Len(decoded), decoded[i] = decoded[j],
             decoded[i] # 0, i # j
      PROVE  FALSE
  <2> DEFINE p == i - 1
             q == j - 1
  <2>1. p \in Nat /\ q \in Nat /\ p # q /\ i = p + 1 /\ j = q + 1 /\ p < Len(decoded) /\ q < Len(decoded)
    BY <1>a, <1>2
  <2> HIDE DEF p, q
  <2> DEFINE a == 2 * p + 1
             b == 2 * p + 2
             c == 2 * q + 1
  <2>2. /\ a \in 1..Len(wireStream) /\ b \in 1..Len(wireStream) /\ c \in 1..Len(wireStream)
        /\ a # b /\ a # c /\ b # c
    BY <1>a, <2>1 DEF DecodedIsRead
  <2>3. wireStream[a][1] = wireStream[b][1] /\ wireStream[a][1] = wireStream[c][1]
    BY <1>2, <2>1 DEF DecodedIsRead
  <2> HIDE DEF a, b, c
  <2>4. wireStream[a][2] # wireStream[b][2] /\ wireStream[a][2] # wireStream[c][2]
        /\ wireStream[b][2] # wireStream[c][2]
    BY <1>b, <2>2, <2>3
  <2> QED BY <1>0, <2>2, <2>4
<1>3. \A n \in finished : Cardinality(Halves(n)) = 2 \/ (n \in sentCoded /\ kinds[n] = "data")
  BY HalvesCounted DEF SentIsSomewhere
<1>4. ASSUME unconfirmed, finished \cap sentCoded # {}, ~fin
      PROVE  \/ \E n \in finished \cap sentCoded : Cardinality(Halves(n)) = 2
             \/ \E w \in WireWriters : pen[w].frame \in sentCoded
  BY <1>4, HalvesCounted DEF CopyIsKept
<1>5. Torn = {} => 0 \notin {decoded[i] : i \in 1..Len(decoded)}
  BY <1>1
<1>6. \A i, j \in 1..Len(decoded) : decoded[i] = decoded[j] /\ decoded[i] # 0 => i = j
  BY <1>2
<1> QED BY <1>3, <1>4, <1>5, <1>6 DEF WireInv

LEMMA WireInitInv == WireInit => WireIInv
<1> SUFFICES ASSUME WireInit PROVE WireIInv
  OBVIOUS
<1>1. Len(wireStream) = 0 /\ Len(decoded) = 0
  BY EmptySeq DEF WireInit
<1>2. WireTypeOK
  <2>1. kinds \in Seq({"data", "control"}) /\ wireStream \in Seq(Nat \X {1, 2}) /\ decoded \in Seq(Nat)
    BY EmptySeq DEF WireInit
  <2>2. pen \in [WireWriters -> [is : {"resting", "waiting", "writing", "failing"}, frame : Nat,
                              half : {0, 1}]]
    BY DEF WireInit, WireResting
  <2> QED BY <2>1, <2>2 DEF WireInit, WireTypeOK
<1>3. PensAreTheirs
  BY WireAssumption DEF WireInit, PensAreTheirs, WireResting
<1>4. HalvesAreWritten /\ SentIsSomewhere /\ CopyIsKept
  BY <1>1 DEF WireInit, HalvesAreWritten, SentIsSomewhere, CopyIsKept, WireResting
<1>5. FramesAreWhole
  <2>1. \A k \in Nat : ~(2 * k + 2 <= Len(wireStream))
    BY <1>1
  <2>2. Len(wireStream) = 2 * 0 /\ \A w \in WireWriters : holder = w => pen[w].half = 0
    BY <1>1 DEF WireInit, WireResting
  <2> QED BY <2>1, <2>2 DEF FramesAreWhole
<1>6. DecodedIsRead
  BY <1>1 DEF DecodedIsRead
<1> QED BY <1>2, <1>3, <1>4, <1>5, <1>6 DEF WireIInv

-----------------------------------------------------------------------------
\* A step that writes nothing leaves what is on the stream, and so what was cut off stays.
LEMMA StreamKept ==
  ASSUME FramesAreWhole, DecodedIsRead, UNCHANGED <<wireStream, decoded>>,
         Len(kinds) \in Nat, Len(kinds') \in Nat, Len(kinds) <= Len(kinds'),
         \A n \in 1..Len(kinds) : CutOff(n) => CutOff(n)',
         \/ UNCHANGED holder /\ (holder # "none" => pen'[holder] = pen[holder])
         \/ holder = "none" /\ holder' # "none" /\ pen'[holder'].half = 0
         \/ /\ holder # "none" /\ holder' = "none" /\ pen[holder].frame \in 1..Len(kinds)
            /\ \A n : n = pen[holder].frame /\ pen[holder].half = 1 => CutOff(n)',
         "none" \notin WireWriters
  PROVE  /\ \A n, h : OnStream(n, h)' <=> OnStream(n, h)
         /\ FramesAreWhole' /\ DecodedIsRead'
<1>1. \A n, h : OnStream(n, h)' <=> OnStream(n, h)
  BY DEF OnStream
<1>2. DecodedIsRead'
  BY DEF DecodedIsRead
<1>3. FramesAreWhole'
  <2> SUFFICES ASSUME \A n \in 1..Len(kinds') : ~CutOff(n)'
               PROVE
      /\ \A k \in Nat : 2 * k + 2 <= Len(wireStream) => wireStream[2*k + 1][1] = wireStream[2*k + 2][1]
      /\ \E k \in Nat :
           \/ Len(wireStream) = 2 * k /\ \A w \in WireWriters : holder' = w => pen'[w].half = 0
           \/ /\ Len(wireStream) = 2 * k + 1 /\ holder' # "none" /\ pen'[holder'].half = 1
              /\ pen'[holder'].frame = wireStream[2 * k + 1][1]
    BY DEF FramesAreWhole
  <2>1. \A n \in 1..Len(kinds) : ~CutOff(n) /\ ~CutOff(n)'
    OBVIOUS
  <2>2. \A k \in Nat : 2 * k + 2 <= Len(wireStream) => wireStream[2*k + 1][1] = wireStream[2*k + 2][1]
    BY <2>1 DEF FramesAreWhole
  <2>3. PICK k \in Nat :
          \/ Len(wireStream) = 2 * k /\ \A w \in WireWriters : holder = w => pen[w].half = 0
          \/ /\ Len(wireStream) = 2 * k + 1 /\ holder # "none" /\ pen[holder].half = 1
             /\ pen[holder].frame = wireStream[2 * k + 1][1]
    BY <2>1 DEF FramesAreWhole
  <2>4. \/ Len(wireStream) = 2 * k /\ \A w \in WireWriters : holder' = w => pen'[w].half = 0
        \/ /\ Len(wireStream) = 2 * k + 1 /\ holder' # "none" /\ pen'[holder'].half = 1
           /\ pen'[holder'].frame = wireStream[2 * k + 1][1]
    <3>1. CASE UNCHANGED holder /\ (holder # "none" => pen'[holder] = pen[holder])
      BY <2>3, <3>1
    <3>2. CASE holder = "none" /\ holder' # "none" /\ pen'[holder'].half = 0
      BY <2>3, <3>2
    <3>3. CASE /\ holder # "none" /\ holder' = "none" /\ pen[holder].frame \in 1..Len(kinds)
               /\ \A n : n = pen[holder].frame /\ pen[holder].half = 1 => CutOff(n)'
      BY <2>1, <2>3, <3>3
    <3> QED BY <3>1, <3>2, <3>3
  <2> QED BY <2>2, <2>4
<1> QED BY <1>1, <1>2, <1>3

LEMMA BeginsStep ==
  ASSUME WireIInv, NEW w \in WireWriters, WireBegins(w)
  PROVE  WireIInv'
<1> USE DEF WireIInv
<1> DEFINE n == Len(kinds) + 1
           waits == pen' = [pen EXCEPT ![w] = [is |-> "waiting", frame |-> n, half |-> 0]]
<1>0. /\ pen[w].is = "resting" /\ holder # w
      /\ UNCHANGED <<unconfirmed, holder, wireStream, fin, decoded>>
  BY DEF WireBegins, WireResting, PensAreTheirs
<1>1. PICK kind \in {"data", "control"} :
        /\ kinds' = Append(kinds, kind)
        /\ \/ waits /\ UNCHANGED <<sentCoded, safetyCopy, finished>>
           \/ /\ kind = "data"
              /\ \E taken \in BOOLEAN :
                   /\ sentCoded' = IF taken THEN sentCoded \cup {n} ELSE sentCoded
                   /\ IF NeedsCopy \/ ~taken THEN waits /\ UNCHANGED finished
                                             ELSE finished' = finished \cup {n} /\ UNCHANGED pen
                   /\ safetyCopy' = (safetyCopy /\ ~(taken /\ NeedsCopy))
  BY DEF WireBegins, Becomes
<1>2. /\ Len(kinds) \in Nat /\ Len(kinds') = n /\ kinds' \in Seq({"data", "control"})
      /\ \A m \in 1..Len(kinds) : kinds'[m] = kinds[m]
      /\ kinds'[n] = kind
  BY <1>1, AppendProperties, LenProperties DEF WireTypeOK
<1>3. /\ \A v \in WireWriters : v # w => pen'[v] = pen[v]
      /\ pen'[w] = pen[w] \/ pen'[w] = [is |-> "waiting", frame |-> n, half |-> 0]
      /\ pen' \in [WireWriters -> [is : {"resting", "waiting", "writing", "failing"}, frame : Nat,
                                   half : {0, 1}]]
  <2>1. pen' = pen \/ waits
    BY <1>1
  <2>2. CASE pen' = pen
    BY <2>2 DEF WireTypeOK
  <2>3. CASE waits
    <3>1. n \in Nat
      BY <1>2
    <3> HIDE DEF n
    <3> QED BY <2>3, <3>1 DEF WireTypeOK
  <2> QED BY <2>1, <2>2, <2>3
<1>4. \A m \in 1..Len(kinds) : CutOff(m) => CutOff(m)'
  BY <1>0, <1>3 DEF CutOff, OnStream
<1>5. /\ \A m, h : OnStream(m, h)' <=> OnStream(m, h)
      /\ FramesAreWhole' /\ DecodedIsRead'
  <2>1. holder # "none" => pen'[holder] = pen[holder]
    BY <1>0, <1>3 DEF WireTypeOK
  <2> QED BY <1>0, <1>2, <1>4, <2>1, StreamKept, WireAssumption
<1>6. \/ sentCoded' = sentCoded /\ finished' = finished /\ waits
      \/ sentCoded' = sentCoded \cup {n} /\ finished' = finished /\ waits /\ kind = "data"
      \/ /\ sentCoded' = sentCoded \cup {n} /\ finished' = finished \cup {n} /\ pen' = pen
         /\ kind = "data"
  BY <1>1
<1>7. WireTypeOK'
  <2>1. safetyCopy' \in BOOLEAN
    BY <1>1 DEF WireTypeOK
  <2>2. sentCoded' \subseteq 1..n /\ finished' \subseteq 1..n
    <3>1. \A S : S \subseteq 1..Len(kinds) => S \subseteq 1..n /\ S \cup {n} \subseteq 1..n
      <4>1. 1..Len(kinds) \subseteq 1..n /\ n \in 1..n
        BY <1>2
      <4> QED BY <4>1
    <3> QED BY <1>6, <3>1 DEF WireTypeOK
  <2> QED BY <1>0, <1>2, <1>3, <2>1, <2>2 DEF WireTypeOK
<1>8. PensAreTheirs'
  <2>1. ASSUME NEW v \in WireWriters, pen[v].is # "resting"
        PROVE  pen[v].frame \in 1..Len(kinds) /\ pen[v].frame # n /\ pen[v].frame \notin finished'
    BY <1>2, <1>6, <2>1 DEF PensAreTheirs
  <2>2. pen' = pen \/ (waits /\ n \notin finished')
    BY <1>2, <1>6 DEF WireTypeOK
  <2>3. CASE pen' = pen
    BY <1>0, <1>2, <2>1, <2>3 DEF PensAreTheirs
  <2>4. CASE waits /\ n \notin finished'
    <3>1. /\ pen'[w].is = "waiting" /\ pen'[w].frame = n /\ pen'[w].half = 0
          /\ \A v \in WireWriters : v # w => pen'[v] = pen[v]
      BY <2>4 DEF WireTypeOK
    <3> QED BY <1>0, <1>2, <2>1, <2>4, <3>1 DEF PensAreTheirs
  <2> QED BY <2>2, <2>3, <2>4
<1>9. HalvesAreWritten'
  <2>1. ~OnStream(n, 1) /\ ~OnStream(n, 2)
    BY <1>2 DEF OnStream, HalvesAreWritten
  <2>2. \A v \in WireWriters : pen'[v].is # "resting" =>
          /\ OnStream(pen'[v].frame, 1) <=> pen'[v].half = 1
          /\ ~OnStream(pen'[v].frame, 2)
    BY <1>0, <1>3, <2>1 DEF HalvesAreWritten
  <2> QED BY <1>0, <1>2, <1>5, <2>2 DEF HalvesAreWritten
<1>10. SentIsSomewhere'
  BY <1>2, <1>5, <1>6 DEF SentIsSomewhere, WireTypeOK
<1>11. CopyIsKept'
  <2> SUFFICES ASSUME unconfirmed
               PROVE  /\ safetyCopy' => sentCoded' = {}
                      /\ ~safetyCopy' /\ ~fin =>
                           \/ \E m \in finished' \cap sentCoded' : OnStream(m, 1) /\ OnStream(m, 2)
                           \/ \E v \in WireWriters : pen'[v].is # "resting" /\ pen'[v].frame \in sentCoded'
    BY <1>0, <1>5 DEF CopyIsKept
  <2>1. CASE safetyCopy'
    <3>1. safetyCopy /\ sentCoded' = sentCoded
      BY <1>1, <2>1 DEF NeedsCopy
    <3> QED BY <2>1, <3>1 DEF CopyIsKept
  <2>2. CASE ~safetyCopy' /\ safetyCopy
    <3>1. sentCoded' = sentCoded \cup {n} /\ waits
      BY <1>1, <2>2 DEF NeedsCopy
    <3>2. pen'[w].is # "resting" /\ pen'[w].frame \in sentCoded'
      BY <3>1 DEF WireTypeOK
    <3> QED BY <2>2, <3>2
  <2>3. CASE ~safetyCopy
    <3>1. sentCoded \subseteq sentCoded' /\ finished \subseteq finished'
      BY <1>6
    <3>2. \A v \in WireWriters : pen[v].is # "resting" => pen'[v] = pen[v]
      BY <1>0, <1>3
    <3>3. safetyCopy' = FALSE
      BY <1>1, <2>3 DEF WireTypeOK
    <3>4. CASE fin
      BY <3>3, <3>4
    <3>5. CASE \E m \in finished \cap sentCoded : OnStream(m, 1) /\ OnStream(m, 2)
      BY <3>1, <3>3, <3>5
    <3>6. CASE \E v \in WireWriters : pen[v].is # "resting" /\ pen[v].frame \in sentCoded
      BY <3>1, <3>2, <3>3, <3>6
    <3> QED BY <2>3, <3>4, <3>5, <3>6 DEF CopyIsKept
  <2> QED BY <2>1, <2>2, <2>3 DEF WireTypeOK
<1> QED BY <1>5, <1>7, <1>8, <1>9, <1>10, <1>11

LEMMA ConfirmedStep == WireIInv /\ OpenConfirmed => WireIInv'
<1> SUFFICES ASSUME WireIInv, OpenConfirmed PROVE WireIInv'
  OBVIOUS
<1> USE DEF WireIInv
<1>1. /\ unconfirmed' = FALSE
      /\ UNCHANGED <<safetyCopy, kinds, pen, holder, wireStream, fin, sentCoded, finished, decoded>>
  BY DEF OpenConfirmed
<1>2. WireTypeOK'
  BY <1>1 DEF WireTypeOK
<1>3. PensAreTheirs' /\ HalvesAreWritten' /\ SentIsSomewhere' /\ CopyIsKept' /\ DecodedIsRead'
  BY <1>1 DEF PensAreTheirs, HalvesAreWritten, SentIsSomewhere, CopyIsKept, DecodedIsRead, OnStream
<1>4. FramesAreWhole'
  BY <1>1 DEF FramesAreWhole, CutOff, OnStream
<1> QED BY <1>2, <1>3, <1>4

LEMMA ReadsStep == WireIInv /\ PeerReads => WireIInv'
<1> SUFFICES ASSUME WireIInv, PeerReads PROVE WireIInv'
  OBVIOUS
<1> USE DEF WireIInv
<1> DEFINE at == 2 * Len(decoded)
           read == IF wireStream[at + 1][1] = wireStream[at + 2][1] THEN wireStream[at + 1][1] ELSE 0
<1>1. /\ UNCHANGED <<unconfirmed, safetyCopy, kinds, pen, holder, wireStream, fin, sentCoded, finished>>
      /\ at + 2 <= Len(wireStream) /\ decoded' = Append(decoded, read)
  <2>1. Len(decoded) \in Nat
    BY LenProperties DEF WireTypeOK
  <2> QED BY <2>1 DEF PeerReads
<1>2. read \in Nat /\ Len(decoded) \in Nat /\ Len(wireStream) \in Nat
  <2>1. Len(decoded) \in Nat /\ Len(wireStream) \in Nat
    BY LenProperties DEF WireTypeOK
  <2>2. at + 1 \in 1..Len(wireStream)
    BY <1>1, <2>1
  <2>3. wireStream[at + 1][1] \in Nat
    BY <2>2, ElementOfSeq DEF WireTypeOK
  <2> QED BY <2>1, <2>3
<1>3. /\ decoded' \in Seq(Nat) /\ Len(decoded') = Len(decoded) + 1
      /\ \A i \in 1..Len(decoded) : decoded'[i] = decoded[i]
      /\ decoded'[Len(decoded) + 1] = read
  <2> HIDE DEF read
  <2> QED BY <1>1, <1>2, AppendProperties DEF WireTypeOK
<1>4. DecodedIsRead'
  <2>1. 2 * Len(decoded') <= Len(wireStream)
    BY <1>1, <1>2, <1>3
  <2>2. ASSUME NEW k \in Nat, k < Len(decoded')
        PROVE  decoded'[k + 1] = IF wireStream[2*k + 1][1] = wireStream[2*k + 2][1]
                                   THEN wireStream[2*k + 1][1] ELSE 0
    <3>1. CASE k < Len(decoded)
      <4>1. k + 1 \in 1..Len(decoded)
        BY <1>2, <3>1
      <4> QED BY <1>3, <3>1, <4>1 DEF DecodedIsRead
    <3>2. CASE k = Len(decoded)
      BY <1>3, <3>2
    <3> QED BY <1>2, <1>3, <2>2, <3>1, <3>2
  <2> QED BY <1>1, <2>1, <2>2 DEF DecodedIsRead
<1>5. WireTypeOK'
  BY <1>1, <1>3 DEF WireTypeOK
<1>6. PensAreTheirs' /\ HalvesAreWritten' /\ SentIsSomewhere' /\ CopyIsKept'
  BY <1>1 DEF PensAreTheirs, HalvesAreWritten, SentIsSomewhere, CopyIsKept, OnStream
<1>7. FramesAreWhole'
  BY <1>1 DEF FramesAreWhole, CutOff, OnStream
<1> QED BY <1>4, <1>5, <1>6, <1>7

\* A writer that takes the lock, is interrupted, or fails the lane: the stream stays.
LEMMA PenStep ==
  ASSUME WireIInv, NEW w \in WireWriters, WireLocks(w) \/ WireInterrupted(w) \/ WireFails(w)
  PROVE  WireIInv'
<1> USE DEF WireIInv
<1>0. /\ UNCHANGED <<unconfirmed, safetyCopy, kinds, wireStream, sentCoded, finished, decoded>>
      /\ Len(kinds) \in Nat /\ "none" \notin WireWriters
  BY WireAssumption, LenProperties DEF WireLocks, WireInterrupted, WireFails, WireTypeOK
<1>1. \E state \in {"resting", "writing", "failing"} :
        /\ pen[w].is # "resting" /\ pen'[w].is = state
        /\ state = "resting" => pen'[w].frame = 0 /\ pen'[w].half = 0 /\ fin' = TRUE
        /\ state # "resting" => pen'[w].frame = pen[w].frame /\ pen'[w].half = pen[w].half /\ fin' = fin
        /\ state = "writing" => pen[w].is = "waiting" /\ holder = "none" /\ holder' = w
        /\ state = "failing" => holder' = Unlocked(w)
        /\ state = "resting" => pen[w].is = "failing" /\ holder' = holder
  BY DEF WireLocks, WireInterrupted, WireFails, Becomes, WireResting, WireTypeOK
<1>2. /\ \A v \in WireWriters : v # w => pen'[v] = pen[v]
      /\ pen' \in [WireWriters -> [is : {"resting", "waiting", "writing", "failing"}, frame : Nat,
                                   half : {0, 1}]]
  <2>1. CASE WireLocks(w)
    BY <2>1 DEF WireLocks, Becomes, WireTypeOK
  <2>2. CASE WireInterrupted(w)
    BY <2>2 DEF WireInterrupted, Becomes, WireTypeOK
  <2>3. CASE WireFails(w)
    BY <2>3 DEF WireFails, Becomes, WireResting, WireTypeOK
  <2> QED BY <2>1, <2>2, <2>3
<1>3. holder' \in WireWriters \cup {"none"} /\ fin' \in BOOLEAN /\ (fin => fin')
  <2>1. holder' \in WireWriters \cup {"none"}
    BY <1>1 DEF WireTypeOK, Unlocked
  <2>2. fin' = TRUE \/ fin' = fin
    BY <1>1
  <2> QED BY <2>1, <2>2 DEF WireTypeOK
<1>4. WireTypeOK'
  BY <1>0, <1>2, <1>3 DEF WireTypeOK
<1>5. PensAreTheirs'
  <2>1. ASSUME NEW v \in WireWriters
        PROVE  /\ pen'[v].is = "writing" <=> holder' = v
               /\ pen'[v].is = "resting" => pen'[v].frame = 0 /\ pen'[v].half = 0
               /\ pen'[v].is = "waiting" => pen'[v].half = 0
               /\ pen'[v].is # "resting" => pen[v].is # "resting" /\ pen'[v].frame = pen[v].frame
    <3>1. CASE v = w
      BY <1>0, <1>1, <3>1 DEF PensAreTheirs, Unlocked
    <3>2. CASE v # w
      BY <1>0, <1>1, <1>2, <3>2 DEF PensAreTheirs, Unlocked
    <3> QED BY <3>1, <3>2
  <2> QED BY <1>0, <2>1 DEF PensAreTheirs
<1>6. /\ \A n, h : OnStream(n, h)' <=> OnStream(n, h)
      /\ FramesAreWhole' /\ DecodedIsRead'
  <2>1. \A n \in 1..Len(kinds) : CutOff(n) => CutOff(n)'
    <3> SUFFICES ASSUME NEW n \in 1..Len(kinds), CutOff(n),
                        NEW v \in WireWriters, pen'[v].is = "writing", pen'[v].frame = n
                 PROVE  FALSE
      BY <1>0 DEF CutOff, OnStream
    <3>1. CASE v = w
      <4>1. pen[w].is = "waiting" /\ pen[w].frame = n
        BY <1>1, <3>1
      <4>2. ~OnStream(n, 1)
        BY <4>1 DEF PensAreTheirs, HalvesAreWritten
      <4> QED BY <4>2 DEF CutOff
    <3>2. CASE v # w
      BY <1>2, <3>2 DEF CutOff
    <3> QED BY <3>1, <3>2
  <2>2. \/ UNCHANGED holder /\ (holder # "none" => pen'[holder] = pen[holder])
        \/ holder = "none" /\ holder' # "none" /\ pen'[holder'].half = 0
        \/ /\ holder # "none" /\ holder' = "none" /\ pen[holder].frame \in 1..Len(kinds)
           /\ \A n : n = pen[holder].frame /\ pen[holder].half = 1 => CutOff(n)'
    <3>1. CASE pen'[w].is = "writing"
      BY <1>0, <1>1, <3>1 DEF PensAreTheirs
    <3>2. CASE pen'[w].is = "failing" /\ holder = w
      <4>1. holder # "none" /\ holder' = "none" /\ pen[holder].frame \in 1..Len(kinds)
        BY <1>0, <1>1, <3>2 DEF PensAreTheirs, Unlocked
      <4>2. ASSUME NEW n, n = pen[holder].frame, pen[holder].half = 1
            PROVE  CutOff(n)'
        <5>1. OnStream(n, 1) /\ ~OnStream(n, 2)
          BY <1>1, <3>2, <4>2 DEF HalvesAreWritten
        <5>2. ASSUME NEW v \in WireWriters, pen'[v].is = "writing", pen'[v].frame = n
              PROVE  FALSE
          BY <1>1, <1>2, <3>2, <4>2, <5>2 DEF PensAreTheirs
        <5> QED BY <1>0, <5>1, <5>2 DEF CutOff, OnStream
      <4> QED BY <4>1, <4>2
    <3>3. CASE pen'[w].is = "failing" /\ holder # w
      BY <1>1, <1>2, <3>3 DEF Unlocked, WireTypeOK
    <3>4. CASE pen'[w].is = "resting"
      <4>1. holder' = holder /\ holder # w
        BY <1>1, <3>4 DEF PensAreTheirs
      <4> QED BY <1>2, <4>1 DEF WireTypeOK
    <3> QED BY <1>1, <3>1, <3>2, <3>3, <3>4
  <2>3. Len(kinds') = Len(kinds)
    BY <1>0
  <2> QED BY <1>0, <2>1, <2>2, <2>3, StreamKept
<1>7. HalvesAreWritten'
  <2>1. \A v \in WireWriters : pen'[v].is # "resting" =>
          /\ pen[v].is # "resting" /\ pen'[v].frame = pen[v].frame /\ pen'[v].half = pen[v].half
    BY <1>1, <1>2
  <2> QED BY <1>0, <1>6, <2>1 DEF HalvesAreWritten
<1>8. SentIsSomewhere'
  BY <1>0, <1>6 DEF SentIsSomewhere
<1>9. CopyIsKept'
  <2>1. CASE fin'
    BY <1>0, <2>1 DEF CopyIsKept
  <2>2. CASE ~fin'
    <3>1. \A v \in WireWriters : pen[v].is # "resting" =>
            pen'[v].is # "resting" /\ pen'[v].frame = pen[v].frame
      BY <1>1, <1>2, <2>2
    <3> QED BY <1>0, <1>3, <1>6, <2>2, <3>1 DEF CopyIsKept
  <2> QED BY <2>1, <2>2
<1> QED BY <1>4, <1>5, <1>6, <1>7, <1>8, <1>9

\* The holder of the lock writes the next half of its frame.
LEMMA WritesStep ==
  ASSUME WireIInv, NEW w \in WireWriters, WireWrites(w)
  PROVE  WireIInv'
<1> USE DEF WireIInv
<1> PICK n \in Nat, h \in {1, 2} : n = pen[w].frame /\ h = pen[w].half + 1
  <2>1. pen[w].frame \in Nat /\ pen[w].half \in {0, 1}
    BY DEF WireTypeOK
  <2> QED BY <2>1
<1> DEFINE l == Len(wireStream) + 1
<1>0. /\ UNCHANGED <<unconfirmed, safetyCopy, kinds, fin, sentCoded, decoded>>
      /\ holder = w /\ pen[w].is = "writing" /\ wireStream' = Append(wireStream, <<n, h>>)
  BY DEF WireWrites, PensAreTheirs
<1>1. /\ n \in 1..Len(kinds) /\ n \notin finished /\ h \in {1, 2} /\ w # "none"
      /\ \A v \in WireWriters : v # w => pen[v].is # "writing" /\ pen[v].frame # n
  BY <1>0, WireAssumption, LenProperties DEF PensAreTheirs, WireTypeOK
<1>a. Len(kinds) \in Nat /\ Len(wireStream) \in Nat
  BY LenProperties DEF WireTypeOK
<1>b. /\ wireStream' \in Seq(Nat \X {1, 2}) /\ Len(wireStream') = l
      /\ \A i \in 1..Len(wireStream) : wireStream'[i] = wireStream[i]
      /\ wireStream'[l] = <<n, h>>
  <2>1. <<n, h>> \in Nat \X {1, 2}
    OBVIOUS
  <2> QED BY <1>0, <2>1, AppendProperties DEF WireTypeOK
<1>c. Len(wireStream') = Len(wireStream) + 1 /\ l \in 1..Len(wireStream') /\ l = Len(wireStream) + 1
  BY <1>a, <1>b
<1>d. \A i \in 1..Len(wireStream') : i \in 1..Len(wireStream) \/ i = l
  BY <1>a, <1>c
<1>e. \A i \in 1..Len(wireStream) : i \in 1..Len(wireStream') /\ wireStream'[i] = wireStream[i] /\ i # l
  BY <1>a, <1>b, <1>c
<1>f. wireStream'[l] = <<n, h>>
  BY <1>b
<1> HIDE DEF l
<1>3. \A m, g : OnStream(m, g)' <=> OnStream(m, g) \/ (m = n /\ g = h)
  <2>1. ASSUME NEW m, NEW g, OnStream(m, g)' PROVE OnStream(m, g) \/ (m = n /\ g = h)
    <3>1. PICK i \in 1..Len(wireStream') : wireStream'[i] = <<m, g>>
      BY <2>1 DEF OnStream
    <3>2. CASE i = l
      BY <1>f, <3>1, <3>2
    <3>3. CASE i \in 1..Len(wireStream)
      BY <1>e, <3>1, <3>3 DEF OnStream
    <3> QED BY <1>d, <3>2, <3>3
  <2>2. ASSUME NEW m, NEW g, OnStream(m, g) PROVE OnStream(m, g)'
    BY <1>e, <2>2 DEF OnStream
  <2>3. OnStream(n, h)'
    BY <1>c, <1>f DEF OnStream
  <2> QED BY <2>1, <2>2, <2>3
<1>4. \/ /\ pen[w].half = 1 /\ holder' = "none" /\ finished' = finished \cup {n}
         /\ pen' = [pen EXCEPT ![w] = WireResting]
      \/ /\ pen[w].half = 0 /\ holder' = holder /\ finished' = finished
         /\ pen' = [pen EXCEPT ![w] = [pen[w] EXCEPT !.half = 1]]
  BY <1>1 DEF WireWrites, Becomes, WireTypeOK
<1>5. /\ \A v \in WireWriters : v # w => pen'[v] = pen[v]
      /\ pen[w].half = 1 => pen'[w] = WireResting
      /\ pen[w].half = 0 => pen'[w].is = "writing" /\ pen'[w].frame = n /\ pen'[w].half = 1
      /\ pen' \in [WireWriters -> [is : {"resting", "waiting", "writing", "failing"}, frame : Nat,
                                   half : {0, 1}]]
  <2>0. WireResting \in [is : {"resting", "waiting", "writing", "failing"}, frame : Nat, half : {0, 1}]
    BY DEF WireResting
  <2>1. [pen[w] EXCEPT !.half = 1]
          \in [is : {"resting", "waiting", "writing", "failing"}, frame : Nat, half : {0, 1}]
    <3>1. pen[w] \in [is : {"resting", "waiting", "writing", "failing"}, frame : Nat, half : {0, 1}]
      BY DEF WireTypeOK
    <3> QED BY <3>1
  <2>2. CASE pen' = [pen EXCEPT ![w] = WireResting] /\ pen[w].half = 1
    BY <2>0, <2>2 DEF WireTypeOK
  <2>3. CASE pen' = [pen EXCEPT ![w] = [pen[w] EXCEPT !.half = 1]] /\ pen[w].half = 0
    BY <1>0, <2>1, <2>3 DEF WireTypeOK
  <2> QED BY <1>4, <2>2, <2>3
<1>6. WireTypeOK'
  <2>1. holder' \in WireWriters \cup {"none"} /\ finished' \subseteq 1..Len(kinds)
    BY <1>1, <1>4 DEF WireTypeOK
  <2> QED BY <1>0, <1>b, <1>5, <2>1 DEF WireTypeOK
<1>7. PensAreTheirs'
  <2>1. ASSUME NEW v \in WireWriters
        PROVE  /\ pen'[v].is = "writing" <=> holder' = v
               /\ pen'[v].is = "resting" => pen'[v].frame = 0 /\ pen'[v].half = 0
               /\ pen'[v].is = "waiting" => pen'[v].half = 0
               /\ pen'[v].is # "resting" =>
                    /\ pen[v].is # "resting" /\ pen'[v].frame = pen[v].frame
                    /\ pen'[v].frame \notin finished'
    <3>1. CASE v = w
      BY <1>0, <1>1, <1>4, <1>5, <3>1 DEF WireResting
    <3>2. CASE v # w
      <4>1. pen'[v] = pen[v] /\ pen[v].is # "writing" /\ pen[v].frame # n
        BY <1>1, <1>5, <3>2
      <4>2. v # "none" /\ v # holder
        BY <1>0, <3>2, WireAssumption
      <4>3. pen[v].frame \notin finished \/ pen[v].is = "resting"
        BY DEF PensAreTheirs
      <4> QED BY <1>0, <1>4, <4>1, <4>2, <4>3 DEF PensAreTheirs
    <3> QED BY <3>1, <3>2
  <2> QED BY <1>0, <2>1 DEF PensAreTheirs
<1>8. ~OnStream(n, h)
  <2>1. (OnStream(n, 1) <=> pen[w].half = 1) /\ ~OnStream(n, 2)
    BY <1>0 DEF HalvesAreWritten
  <2>2. h = 1 => pen[w].half = 0
    BY DEF WireTypeOK
  <2> QED BY <2>1, <2>2
<1>9. HalvesAreWritten'
  <2>1. ASSUME NEW i \in 1..Len(wireStream'), NEW j \in 1..Len(wireStream'), wireStream'[i] = wireStream'[j]
        PROVE  i = j
    <3>1. \A k \in 1..Len(wireStream) : wireStream'[k] # <<n, h>>
      BY <1>e, <1>8 DEF OnStream
    <3>2. CASE i \in 1..Len(wireStream) /\ j \in 1..Len(wireStream)
      BY <1>e, <2>1, <3>2 DEF HalvesAreWritten
    <3>3. CASE i = l \/ j = l
      BY <1>d, <1>f, <2>1, <3>1, <3>3
    <3> QED BY <1>d, <3>2, <3>3
  <2>2. ASSUME NEW i \in 1..Len(wireStream') PROVE wireStream'[i][1] \in 1..Len(kinds')
    <3>1. CASE i = l
      BY <1>0, <1>1, <1>f, <3>1
    <3>2. CASE i \in 1..Len(wireStream)
      BY <1>0, <1>e, <3>2 DEF HalvesAreWritten
    <3> QED BY <1>d, <3>1, <3>2
  <2>3. ASSUME NEW v \in WireWriters, pen'[v].is # "resting"
        PROVE  \A m : m = pen'[v].frame =>
                 /\ OnStream(m, 1)' <=> pen'[v].half = 1
                 /\ ~OnStream(m, 2)'
    <3>1. CASE v = w
      <4>1. pen[w].half = 0 /\ pen'[v].frame = n /\ pen'[v].half = 1 /\ h = 1
        BY <1>4, <1>5, <2>3, <3>1 DEF WireResting
      <4>2. ~OnStream(n, 2)
        BY <1>0 DEF HalvesAreWritten
      <4> QED BY <1>3, <4>1, <4>2
    <3>2. CASE v # w
      <4>1. pen'[v] = pen[v] /\ pen[v].frame # n
        BY <1>1, <1>5, <3>2
      <4> QED BY <1>3, <2>3, <4>1 DEF HalvesAreWritten
    <3> QED BY <3>1, <3>2
  <2> QED BY <2>1, <2>2, <2>3 DEF HalvesAreWritten
<1>10. SentIsSomewhere'
  <2>1. finished' = finished \cup {n} => OnStream(n, 1) /\ h = 2
    <3>1. n \notin finished
      BY <1>1
    <3> QED BY <1>0, <1>4, <3>1 DEF HalvesAreWritten
  <2> QED BY <1>0, <1>3, <1>4, <2>1 DEF SentIsSomewhere
<1>11. CopyIsKept'
  <2> SUFFICES ASSUME unconfirmed, ~safetyCopy, ~fin
               PROVE  \/ \E m \in finished' \cap sentCoded : OnStream(m, 1)' /\ OnStream(m, 2)'
                      \/ \E v \in WireWriters : pen'[v].is # "resting" /\ pen'[v].frame \in sentCoded
    BY <1>0 DEF CopyIsKept
  <2>1. CASE \E m \in finished \cap sentCoded : OnStream(m, 1) /\ OnStream(m, 2)
    BY <1>3, <1>4, <2>1
  <2>2. CASE \E v \in WireWriters : v # w /\ pen[v].is # "resting" /\ pen[v].frame \in sentCoded
    BY <1>5, <2>2
  <2>3. CASE n \in sentCoded
    <3>1. CASE pen[w].half = 0
      BY <1>5, <2>3, <3>1
    <3>2. CASE pen[w].half = 1
      <4>1. OnStream(n, 1) /\ h = 2 /\ n \in finished'
        BY <1>0, <1>4, <3>2 DEF HalvesAreWritten
      <4> QED BY <1>3, <2>3, <4>1
    <3> QED BY <3>1, <3>2 DEF WireTypeOK
  <2> QED BY <2>1, <2>2, <2>3 DEF CopyIsKept
<1>12. DecodedIsRead'
  <2>1. Len(decoded) \in Nat
    BY LenProperties DEF WireTypeOK
  <2>2. 2 * Len(decoded') <= Len(wireStream')
    BY <1>0, <1>a, <1>c, <2>1 DEF DecodedIsRead
  <2>3. ASSUME NEW k \in Nat, k < Len(decoded)
        PROVE  /\ wireStream'[2*k + 1] = wireStream[2*k + 1]
               /\ wireStream'[2*k + 2] = wireStream[2*k + 2]
    <3>1. 2*k + 1 \in 1..Len(wireStream) /\ 2*k + 2 \in 1..Len(wireStream)
      BY <1>a, <2>1, <2>3 DEF DecodedIsRead
    <3> QED BY <1>e, <3>1
  <2> QED BY <1>0, <2>2, <2>3 DEF DecodedIsRead
<1>13. FramesAreWhole'
  <2> SUFFICES ASSUME \A m \in 1..Len(kinds) : ~CutOff(m)'
               PROVE
      /\ \A k \in Nat : 2 * k + 2 <= l => wireStream'[2*k + 1][1] = wireStream'[2*k + 2][1]
      /\ \E k \in Nat :
           \/ l = 2 * k /\ \A v \in WireWriters : holder' = v => pen'[v].half = 0
           \/ /\ l = 2 * k + 1 /\ holder' # "none" /\ pen'[holder'].half = 1
              /\ pen'[holder'].frame = wireStream'[2 * k + 1][1]
    BY <1>0, <1>b DEF FramesAreWhole
  <2>1. ASSUME NEW m \in 1..Len(kinds), CutOff(m) PROVE FALSE
    <3>1. m # n
      BY <1>0, <2>1 DEF CutOff
    <3>2. OnStream(m, 1)' /\ ~OnStream(m, 2)'
      BY <1>3, <2>1, <3>1 DEF CutOff
    <3>3. ASSUME NEW v \in WireWriters, pen'[v].is = "writing", pen'[v].frame = m
          PROVE  FALSE
      <4>1. v # w
        BY <1>5, <3>1, <3>3 DEF WireResting, WireTypeOK
      <4>2. pen[v].is = "writing" /\ pen[v].frame = m
        BY <1>5, <3>3, <4>1
      <4> QED BY <2>1, <4>2 DEF CutOff
    <3> QED BY <3>2, <3>3 DEF CutOff
  <2>2. \A k \in Nat : 2 * k + 2 <= Len(wireStream) => wireStream[2*k + 1][1] = wireStream[2*k + 2][1]
    BY <2>1 DEF FramesAreWhole
  <2>3. PICK k \in Nat :
          \/ Len(wireStream) = 2 * k /\ \A v \in WireWriters : holder = v => pen[v].half = 0
          \/ /\ Len(wireStream) = 2 * k + 1 /\ holder # "none" /\ pen[holder].half = 1
             /\ pen[holder].frame = wireStream[2 * k + 1][1]
    BY <2>1 DEF FramesAreWhole
  <2>4. \A j \in Nat : 2 * j + 2 <= Len(wireStream) =>
          wireStream'[2*j + 1][1] = wireStream'[2*j + 2][1]
    <3> SUFFICES ASSUME NEW j \in Nat, 2 * j + 2 <= Len(wireStream)
                 PROVE  wireStream'[2*j + 1][1] = wireStream'[2*j + 2][1]
      OBVIOUS
    <3>1. 2*j + 1 \in 1..Len(wireStream) /\ 2*j + 2 \in 1..Len(wireStream)
      BY <1>a
    <3>2. wireStream'[2*j + 1] = wireStream[2*j + 1] /\ wireStream'[2*j + 2] = wireStream[2*j + 2]
      BY <1>e, <3>1
    <3> QED BY <2>2, <3>2
  <2>5. CASE pen[w].half = 0
    <3>1. Len(wireStream) = 2 * k /\ l = 2 * k + 1
      BY <1>0, <1>c, <2>3, <2>5
    <3>2. \A j \in Nat : 2 * j + 2 <= l => 2 * j + 2 <= Len(wireStream)
      BY <3>1
    <3>3. l = 2 * k + 1 /\ holder' = w /\ pen'[w].half = 1 /\ pen'[w].frame = n
      BY <1>0, <1>4, <1>5, <2>5, <3>1
    <3>4. wireStream'[2 * k + 1][1] = n
      BY <1>f, <3>3
    <3> QED BY <1>1, <2>4, <3>2, <3>3, <3>4
  <2>6. CASE pen[w].half = 1
    <3>1. Len(wireStream) = 2 * k + 1 /\ wireStream[2 * k + 1][1] = n
      BY <1>0, <2>3, <2>6
    <3>2. 2 * k + 1 \in 1..Len(wireStream) /\ l = 2 * k + 2
      BY <1>c, <3>1
    <3>3. wireStream'[2 * k + 1][1] = n /\ wireStream'[2 * k + 2][1] = n
      BY <1>e, <1>f, <3>1, <3>2
    <3>4. ASSUME NEW j \in Nat, 2 * j + 2 <= l
          PROVE  wireStream'[2*j + 1][1] = wireStream'[2*j + 2][1]
      <4>1. CASE j = k
        BY <3>3, <4>1
      <4>2. CASE j # k
        <5>1. 2 * j + 2 <= Len(wireStream)
          BY <3>1, <3>2, <3>4, <4>2
        <5> QED BY <2>4, <5>1
      <4> QED BY <4>1, <4>2
    <3>5. l = 2 * (k + 1) /\ k + 1 \in Nat /\ \A v \in WireWriters : holder' # v
      BY <1>4, <2>6, <3>2, WireAssumption
    <3> QED BY <3>4, <3>5
  <2> QED BY <2>5, <2>6 DEF WireTypeOK
<1> QED BY <1>6, <1>7, <1>9, <1>10, <1>11, <1>12, <1>13

\* However any number of writers interleave and are interrupted, the peer decodes whole
\* frames, each once, until the first that was cut off; what was told sent is on a substrate;
\* and the coded path is not alone while the OPEN is unconfirmed (frameconn.go:410).
THEOREM FramesStayWhole == WireSpec => []WireInv
<1>1. WireInit => WireIInv
  BY WireInitInv
<1>2. WireIInv /\ [WireNext]_wireVars => WireIInv'
  <2> SUFFICES ASSUME WireIInv, [WireNext]_wireVars PROVE WireIInv'
    OBVIOUS
  <2>1. CASE WireNext
    BY <2>1, ConfirmedStep, ReadsStep, BeginsStep, PenStep, WritesStep DEF WireNext
  <2>2. CASE UNCHANGED wireVars
    <3>1. /\ UNCHANGED <<unconfirmed, safetyCopy, kinds, pen, holder, wireStream, fin, sentCoded, finished,
                         decoded>>
      BY <2>2 DEF wireVars
    <3>2. WireTypeOK' /\ PensAreTheirs'
      BY <3>1 DEF WireIInv, WireTypeOK, PensAreTheirs
    <3>3. HalvesAreWritten' /\ SentIsSomewhere' /\ CopyIsKept' /\ DecodedIsRead'
      BY <3>1 DEF WireIInv, HalvesAreWritten, SentIsSomewhere, CopyIsKept, DecodedIsRead, OnStream
    <3>4. FramesAreWhole'
      BY <3>1 DEF WireIInv, FramesAreWhole, CutOff, OnStream
    <3> QED BY <3>2, <3>3, <3>4 DEF WireIInv
  <2> QED BY <2>1, <2>2
<1>3. WireIInv => WireInv
  BY WireIInvIsEnough
<1> QED BY <1>1, <1>2, <1>3, PTL DEF WireSpec

-----------------------------------------------------------------------------
(* The acknowledgement path: spans of bytes *)

LEMMA LeastIn ==
  ASSUME NEW S, S \subseteq Nat, S # {} PROVE Min(S) \in S /\ \A y \in S : Min(S) <= y
<1>1. \E x \in S : \A y \in S : x <= y
  BY LeastNatural
<1> QED BY <1>1 DEF Min

LEMMA GreatestIn ==
  ASSUME NEW n \in Nat, NEW S, S \subseteq 0..n, S # {} PROVE Max(S) \in S /\ \A y \in S : y <= Max(S)
<1> DEFINE T == {n - x : x \in S}
<1>1. T \subseteq Nat /\ T # {}
  <2>1. \A x \in S : n - x \in Nat
    OBVIOUS
  <2> QED BY <2>1
<1>2. PICK t \in T : \A u \in T : t <= u
  <2> HIDE DEF T
  <2> QED BY <1>1, LeastNatural
<1>3. PICK x \in S : t = n - x
  OBVIOUS
<1>4. \A y \in S : x >= y
  BY <1>2, <1>3
<1>5. Max(S) \in S /\ \A y \in S : Max(S) >= y
  BY <1>4 DEF Max
<1> QED BY <1>5

\* The bytes of a set of spans, and its spans that begin below n.
Of(R) == {b \in Bytes : \E r \in R : r[1] <= b /\ b < r[2]}
Below(R, n) == {r \in R : r[1] < n}
Apart(R) == \A r, s \in R : r # s => r[2] < s[1] \/ s[2] < r[1]

LEMMA ClaimedOf == ASSUME NEW c, NEW R PROVE Claimed(c, R) = {b \in Bytes : b < c} \cup Of(R)
BY DEF Claimed, Of

LEMMA SpanAtIs ==
  ASSUME NEW R, R \subseteq Spans, NEW b \in 0..(N - 1)
  PROVE  /\ SpanAt(R, b)[1] = b /\ SpanAt(R, b)[2] \in b..N
         /\ SpanAt(R, b) = <<b, SpanAt(R, b)[2]>>
         /\ SpanAt(R, b)[2] # b => SpanAt(R, b) \in R
         /\ \A r \in R : r[1] = b => r[2] <= SpanAt(R, b)[2]
<1> DEFINE E == {b} \cup {e \in 0..N : <<b, e>> \in R}
<1>0. N \in Nat
  BY AckPathConstants
<1>1. Max(E) \in E /\ \A y \in E : y <= Max(E)
  <2>1. E \subseteq 0..N /\ E # {}
    BY <1>0
  <2> HIDE DEF E
  <2> QED BY <1>0, <2>1, GreatestIn
<1>2. SpanAt(R, b) = <<b, Max(E)>>
  BY DEF SpanAt
<1> DEFINE m == Max(E)
<1>3. m = b \/ (m \in 0..N /\ <<b, m>> \in R)
  BY <1>1
<1>4. m \in b..N
  <2>1. b <= m
    BY <1>1
  <2> HIDE DEF m
  <2> QED BY <1>0, <1>3, <2>1
<1>5. ASSUME NEW r \in R, r[1] = b PROVE r[2] <= m
  <2>1. r = <<b, r[2]>> /\ r[2] \in 0..N
    BY <1>5 DEF Spans
  <2> QED BY <1>1, <2>1
<1> HIDE DEF m
<1>6. SpanAt(R, b) = <<b, m>>
  BY <1>2 DEF m
<1> QED BY <1>3, <1>4, <1>5, <1>6

LEMMA BelowNext ==
  ASSUME NEW R, R \subseteq Spans, NEW n \in 0..(N - 1)
  PROVE  Of(Below(R, n + 1)) = Of(Below(R, n)) \cup {b \in Bytes : n <= b /\ b < SpanAt(R, n)[2]}
<1> DEFINE s == SpanAt(R, n)
<1>0. N \in Nat
  BY AckPathConstants
<1>1. /\ s[1] = n /\ s[2] \in n..N /\ (s[2] # n => s \in R)
      /\ \A r \in R : r[1] = n => r[2] <= s[2]
  BY SpanAtIs
<1> HIDE DEF s
<1>2. \A r \in R : r[1] \in 0..N /\ r[2] \in 0..N
  BY DEF Spans
<1>3. ASSUME NEW b \in Of(Below(R, n + 1)) PROVE b \in Of(Below(R, n)) \/ (n <= b /\ b < s[2])
  <2>1. PICK r \in R : r[1] < n + 1 /\ r[1] <= b /\ b < r[2]
    BY DEF Of, Below
  <2>2. b \in Bytes
    BY DEF Of
  <2>3. CASE r[1] = n
    BY <1>0, <1>1, <1>2, <2>1, <2>2, <2>3 DEF Bytes
  <2>4. CASE r[1] # n
    <3>1. r[1] < n
      BY <1>0, <1>2, <2>1, <2>4
    <3> QED BY <2>1, <2>2, <3>1 DEF Of, Below
  <2> QED BY <2>3, <2>4
<1>4. ASSUME NEW b \in Bytes, n <= b, b < s[2] PROVE b \in Of(Below(R, n + 1))
  <2>1. s \in R /\ s[1] < n + 1
    BY <1>0, <1>1, <1>4 DEF Bytes
  <2> QED BY <1>1, <1>4, <2>1 DEF Of, Below
<1>5. Of(Below(R, n)) \subseteq Of(Below(R, n + 1))
  BY <1>0, <1>2 DEF Of, Below
<1> QED BY <1>3, <1>4, <1>5 DEF s, Of

LEMMA BelowAll == ASSUME NEW R, R \subseteq Spans PROVE Below(R, N) = R /\ Of(Below(R, 0)) = {}
<1>1. \A r \in R : r[1] \in 0..N /\ r[2] \in 0..N /\ r[1] < r[2]
  BY DEF Spans
<1> QED BY <1>1, AckPathConstants DEF Below, Of

-----------------------------------------------------------------------------
(* Merging *)

MergeNext(R, g, n) ==
  IF n = 0 THEN [merged |-> {}, last |-> <<0, 0>>] ELSE Coalesced(g[n - 1], SpanAt(R, n - 1))

Merging(R) == CHOOSE g : g = [n \in 0..N |-> MergeNext(R, g, n)]

LEMMA MergeIs ==
  ASSUME NEW R PROVE Merge(R) = Merging(R)[N].merged \cup ({Merging(R)[N].last} \cap Spans)
BY DEF Merge, Merging, MergeNext

LEMMA MergeUnfolds ==
  ASSUME NEW R PROVE \A n \in 0..N : Merging(R)[n] = MergeNext(R, Merging(R), n)
<1> DEFINE Solved(n) == \E g : g = [i \in 0..n |-> MergeNext(R, g, i)]
           Open == {n \in Nat : ~Solved(n)}
<1>1. Solved(0)
  <2>1. [i \in 0..0 |-> [merged |-> {}, last |-> <<0, 0>>]]
          = [i \in 0..0 |-> MergeNext(R, [j \in 0..0 |-> [merged |-> {}, last |-> <<0, 0>>]], i)]
    BY DEF MergeNext
  <2> QED BY <2>1
<1>2. ASSUME NEW n \in Nat, Solved(n) PROVE Solved(n + 1)
  <2>1. PICK g : g = [i \in 0..n |-> MergeNext(R, g, i)]
    BY <1>2
  <2> DEFINE h == [i \in 0..(n + 1) |-> MergeNext(R, g, i)]
  <2>2. ASSUME NEW i \in 0..(n + 1) PROVE MergeNext(R, h, i) = MergeNext(R, g, i)
    <3>1. CASE i = 0
      BY <3>1 DEF MergeNext
    <3>2. CASE i # 0
      <4>1. i - 1 \in 0..n /\ i - 1 \in 0..(n + 1)
        BY <3>2
      <4>2. h[i - 1] = g[i - 1]
        BY <2>1, <4>1
      <4> HIDE DEF h
      <4> QED BY <3>2, <4>2 DEF MergeNext
    <3> QED BY <3>1, <3>2
  <2>3. h = [i \in 0..(n + 1) |-> MergeNext(R, h, i)]
    BY <2>2
  <2> QED BY <2>3
<1>3. Open = {}
  <2> SUFFICES ASSUME Open # {} PROVE FALSE
    OBVIOUS
  <2>1. \E n \in Open : \A m \in Open : n <= m
    <3>1. Open \subseteq Nat
      OBVIOUS
    <3> HIDE DEF Open
    <3> QED BY <3>1, LeastNatural
  <2>2. PICK n \in Open : \A m \in Open : n <= m
    BY <2>1
  <2> HIDE DEF Solved
  <2>3. n # 0 /\ n \in Nat /\ ~Solved(n)
    BY <1>1, <2>2
  <2>4. n - 1 \in Nat /\ n - 1 \notin Open
    BY <2>2, <2>3
  <2>5. Solved(n - 1 + 1)
    BY <1>2, <2>4
  <2> QED BY <2>3, <2>5
<1>4. Solved(N)
  <2> HIDE DEF Solved
  <2> QED BY <1>3, AckPathConstants
<1>5. Merging(R) = [n \in 0..N |-> MergeNext(R, Merging(R), n)]
  BY <1>4 DEF Merging
<1> HIDE DEF Solved, Open
<1> QED BY <1>5

\* Merging changes no byte, and leaves spans that are disjoint and apart.
LEMMA MergeIsExact ==
  ASSUME NEW R, R \subseteq Spans
  PROVE  Merge(R) \subseteq Spans /\ Of(Merge(R)) = Of(R) /\ Apart(Merge(R))
<1> DEFINE g == Merging(R)
           Both(t) == t.merged \cup ({t.last} \cap Spans)
           Fine(n) ==
             /\ g[n] = [merged |-> g[n].merged, last |-> g[n].last]
             /\ g[n].merged \subseteq Spans
             /\ g[n].last = <<g[n].last[1], g[n].last[2]>>
             /\ g[n].last[1] \in 0..N /\ g[n].last[2] \in 0..N /\ g[n].last[1] <= g[n].last[2]
             /\ g[n].last[1] < n \/ (g[n].last[1] = 0 /\ g[n].last[2] = 0)
             /\ Of(Both(g[n])) = Of(Below(R, n))
             /\ \A r \in g[n].merged : r[2] < g[n].last[1]
             /\ Apart(g[n].merged)
           Bad == {n \in 0..N : ~Fine(n)}
<1>0. N \in Nat
  BY AckPathConstants
<1>1. \A n \in 0..N : g[n] = MergeNext(R, g, n)
  BY MergeUnfolds
<1> HIDE DEF g
<1>2. Fine(0)
  <2>1. g[0] = [merged |-> {}, last |-> <<0, 0>>]
    BY <1>0, <1>1 DEF MergeNext
  <2>2. Both(g[0]) = {} /\ g[0].merged = {} /\ g[0].last = <<0, 0>>
    BY <2>1 DEF Spans
  <2>3. Of(Both(g[0])) = Of(Below(R, 0))
    BY <2>2, BelowAll DEF Of
  <2> HIDE DEF Both
  <2> QED BY <1>0, <2>1, <2>2, <2>3 DEF Apart
<1>3. ASSUME NEW n \in 0..(N - 1), Fine(n) PROVE Fine(n + 1)
  <2> DEFINE t == g[n]
             s == SpanAt(R, n)
             u == g[n + 1]
             a == g[n].last[1]
             e == g[n].last[2]
  <2>1. u = Coalesced(t, s)
    <3>1. n + 1 \in 0..N /\ n + 1 # 0 /\ n + 1 - 1 = n
      BY <1>0
    <3> QED BY <1>1, <3>1 DEF MergeNext
  <2>2. s[1] = n /\ s[2] \in n..N /\ s = <<n, s[2]>>
    BY SpanAtIs
  <2>3. Of(Below(R, n + 1)) = Of(Below(R, n)) \cup {b \in Bytes : n <= b /\ b < s[2]}
    BY BelowNext
  <2>4. /\ t = [merged |-> t.merged, last |-> t.last] /\ t.merged \subseteq Spans
        /\ t.last = <<a, e>> /\ a \in 0..N /\ e \in 0..N /\ a <= e /\ (a < n \/ (a = 0 /\ e = 0))
        /\ Of(Both(t)) = Of(Below(R, n)) /\ (\A r \in t.merged : r[2] < a) /\ Apart(t.merged)
    BY <1>3
  <2>5. Of(Both(t)) = Of(t.merged) \cup {b \in Bytes : a <= b /\ b < e}
    BY <1>0, <2>4 DEF Of, Spans, Bytes
  <2> HIDE DEF t, s, u, a, e
  <2>6. CASE s[2] = n
    <3>1. u = t
      BY <2>1, <2>2, <2>6 DEF Coalesced
    <3>2. Of(Below(R, n + 1)) = Of(Below(R, n))
      <4>1. \A b \in Bytes : ~(n <= b /\ b < s[2])
        BY <1>0, <2>6 DEF Bytes
      <4> QED BY <2>3, <4>1
    <3>3. a < n + 1
      BY <2>4
    <3> HIDE DEF Both
    <3> QED BY <2>4, <3>1, <3>2, <3>3 DEF u, t, a, e
  <2>7. CASE s[2] # n /\ n <= e
    <3> DEFINE f == IF s[2] > e THEN s[2] ELSE e
    <3>1. u.merged = t.merged /\ u.last = <<a, f>> /\ u = [merged |-> u.merged, last |-> u.last]
      BY <2>1, <2>2, <2>4, <2>7 DEF Coalesced
    <3>2. f \in 0..N /\ a <= f /\ a < f
      BY <1>0, <2>2, <2>4, <2>7
    <3>3. Of(Both(u)) = Of(t.merged) \cup {b \in Bytes : a <= b /\ b < f}
      <4> HIDE DEF f
      <4> QED BY <1>0, <2>4, <3>1, <3>2 DEF Of, Spans, Bytes
    <3>4. {b \in Bytes : a <= b /\ b < f} = {b \in Bytes : a <= b /\ b < e} \cup {b \in Bytes : n <= b /\ b < s[2]}
      BY <1>0, <2>2, <2>4, <2>7 DEF Bytes
    <3>5. Of(Both(u)) = Of(Below(R, n + 1))
      BY <2>3, <2>4, <2>5, <3>3, <3>4
    <3>6. u.last[1] = a /\ u.last[2] = f
      BY <3>1
    <3>7. a < n + 1
      BY <2>4
    <3> HIDE DEF Both, f
    <3> QED BY <2>4, <3>1, <3>2, <3>5, <3>6, <3>7 DEF u
  <2>8. CASE s[2] # n /\ n > e
    <3>1. u.merged = Both(t) /\ u.last = s /\ u = [merged |-> u.merged, last |-> u.last]
      <4>1. ~(s[2] = s[1]) /\ ~(s[1] <= t.last[2])
        BY <2>2, <2>4, <2>8
      <4>2. u = [merged |-> Both(t), last |-> s]
        BY <2>1, <4>1 DEF Coalesced
      <4> HIDE DEF Both
      <4> QED BY <4>2
    <3>2. s \in Spans
      BY <1>0, <2>2, <2>8 DEF Spans
    <3>3. Of(Both(u)) = Of(Both(t)) \cup {b \in Bytes : n <= b /\ b < s[2]}
      BY <2>2, <3>1, <3>2 DEF Of
    <3>4. \A r \in Both(t) : r \in Spans /\ (r \in t.merged \/ (r = <<a, e>> /\ r[1] = a /\ r[2] = e))
      BY <2>4
    <3>5. \A r \in Both(t) : r[2] < n
      BY <1>0, <2>4, <2>8, <3>4 DEF Spans
    <3>6. Apart(Both(t))
      BY <2>4, <3>4 DEF Apart
    <3> HIDE DEF Both
    <3> QED BY <1>0, <2>2, <2>3, <2>4, <3>1, <3>3, <3>4, <3>5, <3>6 DEF u
  <2>9. n <= e \/ n > e
    BY <2>4
  <2> QED BY <2>6, <2>7, <2>8, <2>9
<1>4. Bad = {}
  <2> SUFFICES ASSUME Bad # {} PROVE FALSE
    OBVIOUS
  <2>1. \E n \in Bad : \A m \in Bad : n <= m
    <3>1. Bad \subseteq Nat
      BY <1>0
    <3> HIDE DEF Bad
    <3> QED BY <3>1, LeastNatural
  <2>2. PICK n \in Bad : \A m \in Bad : n <= m
    BY <2>1
  <2> HIDE DEF Fine
  <2>3. n \in 1..N /\ ~Fine(n)
    BY <1>0, <1>2, <2>2
  <2>4. n - 1 \in 0..N /\ n - 1 \notin Bad /\ n - 1 \in 0..(N - 1) /\ n - 1 + 1 = n
    BY <1>0, <2>2, <2>3
  <2>5. Fine(n - 1 + 1)
    BY <1>3, <2>4
  <2> QED BY <2>3, <2>4, <2>5
<1>5. Fine(N)
  <2> HIDE DEF Fine
  <2> QED BY <1>0, <1>4
<1>6. Merge(R) = Both(g[N])
  BY MergeIs DEF g
<1>7. Of(Merge(R)) = Of(R)
  BY <1>5, <1>6, BelowAll
<1>8. Apart(Both(g[N]))
  <2>1. \A r \in Both(g[N]) : r \in g[N].merged \/ r = g[N].last
    OBVIOUS
  <2> QED BY <1>5, <2>1 DEF Apart
<1> QED BY <1>5, <1>6, <1>7, <1>8
-----------------------------------------------------------------------------
(* Compacting *)

CompactNext(c, R, g, n) ==
  IF n = 0 THEN [cumulative |-> c, ranges |-> {}] ELSE Folded(g[n - 1], SpanAt(R, n - 1))

Compacting(c, R) == CHOOSE g : g = [n \in 0..N |-> CompactNext(c, R, g, n)]

LEMMA CompactIs == ASSUME NEW c, NEW R PROVE Compact(c, R) = Compacting(c, R)[N]
BY DEF Compact, Compacting, CompactNext

LEMMA CompactUnfolds ==
  ASSUME NEW c, NEW R PROVE \A n \in 0..N : Compacting(c, R)[n] = CompactNext(c, R, Compacting(c, R), n)
<1> DEFINE Solved(n) == \E g : g = [i \in 0..n |-> CompactNext(c, R, g, i)]
           Open == {n \in Nat : ~Solved(n)}
<1>1. Solved(0)
  <2>1. [i \in 0..0 |-> [cumulative |-> c, ranges |-> {}]]
          = [i \in 0..0 |-> CompactNext(c, R, [j \in 0..0 |-> [cumulative |-> c, ranges |-> {}]], i)]
    BY DEF CompactNext
  <2> QED BY <2>1
<1>2. ASSUME NEW n \in Nat, Solved(n) PROVE Solved(n + 1)
  <2>1. PICK g : g = [i \in 0..n |-> CompactNext(c, R, g, i)]
    BY <1>2
  <2> DEFINE h == [i \in 0..(n + 1) |-> CompactNext(c, R, g, i)]
  <2>2. ASSUME NEW i \in 0..(n + 1) PROVE CompactNext(c, R, h, i) = CompactNext(c, R, g, i)
    <3>1. CASE i = 0
      BY <3>1 DEF CompactNext
    <3>2. CASE i # 0
      <4>1. i - 1 \in 0..n /\ i - 1 \in 0..(n + 1)
        BY <3>2
      <4>2. h[i - 1] = g[i - 1]
        BY <2>1, <4>1
      <4> HIDE DEF h
      <4> QED BY <3>2, <4>2 DEF CompactNext
    <3> QED BY <3>1, <3>2
  <2>3. h = [i \in 0..(n + 1) |-> CompactNext(c, R, h, i)]
    BY <2>2
  <2> QED BY <2>3
<1>3. Open = {}
  <2> SUFFICES ASSUME Open # {} PROVE FALSE
    OBVIOUS
  <2>1. \E n \in Open : \A m \in Open : n <= m
    <3>1. Open \subseteq Nat
      OBVIOUS
    <3> HIDE DEF Open
    <3> QED BY <3>1, LeastNatural
  <2>2. PICK n \in Open : \A m \in Open : n <= m
    BY <2>1
  <2> HIDE DEF Solved
  <2>3. n # 0 /\ n \in Nat /\ ~Solved(n)
    BY <1>1, <2>2
  <2>4. n - 1 \in Nat /\ n - 1 \notin Open
    BY <2>2, <2>3
  <2>5. Solved(n - 1 + 1)
    BY <1>2, <2>4
  <2> QED BY <2>3, <2>5
<1>4. Solved(N)
  <2> HIDE DEF Solved
  <2> QED BY <1>3, AckPathConstants
<1>5. Compacting(c, R) = [n \in 0..N |-> CompactNext(c, R, Compacting(c, R), n)]
  BY <1>4 DEF Compacting
<1> HIDE DEF Solved, Open
<1> QED BY <1>5

\* Compacting moves the cumulative point and drops what it passed: nothing else.
LEMMA CompactIsExact ==
  ASSUME NEW c \in 0..N, NEW R, R \subseteq Spans
  PROVE  LET t == Compact(c, R) IN
         /\ t = [cumulative |-> t.cumulative, ranges |-> t.ranges]
         /\ t.cumulative \in c..N /\ t.ranges \subseteq R
         /\ Claimed(t.cumulative, t.ranges) = Claimed(c, R)
         /\ \A r \in t.ranges : r[1] > t.cumulative
<1> DEFINE g == Compacting(c, R)
           Fine(n) ==
             /\ g[n] = [cumulative |-> g[n].cumulative, ranges |-> g[n].ranges]
             /\ g[n].cumulative \in c..N /\ g[n].ranges \subseteq R
             /\ {b \in Bytes : b < g[n].cumulative} \cup Of(g[n].ranges)
                  = {b \in Bytes : b < c} \cup Of(Below(R, n))
             /\ \A r \in g[n].ranges : g[n].cumulative < r[1] /\ r[1] < n
           Bad == {n \in 0..N : ~Fine(n)}
<1>0. N \in Nat /\ c \in Nat
  BY AckPathConstants
<1>1. \A n \in 0..N : g[n] = CompactNext(c, R, g, n)
  BY CompactUnfolds
<1> HIDE DEF g
<1>2. Fine(0)
  <2>1. g[0] = [cumulative |-> c, ranges |-> {}]
    BY <1>0, <1>1 DEF CompactNext
  <2>2. Of(g[0].ranges) = {} /\ Of(Below(R, 0)) = {}
    BY <2>1, BelowAll DEF Of
  <2> QED BY <1>0, <2>1, <2>2
<1>3. ASSUME NEW n \in 0..(N - 1), Fine(n) PROVE Fine(n + 1)
  <2> DEFINE t == g[n]
             s == SpanAt(R, n)
             u == g[n + 1]
             a == g[n].cumulative
             K == g[n].ranges
  <2>1. u = Folded(t, s)
    <3>1. n + 1 \in 0..N /\ n + 1 # 0 /\ n + 1 - 1 = n
      BY <1>0
    <3> QED BY <1>1, <3>1 DEF CompactNext
  <2>2. s[1] = n /\ s[2] \in n..N /\ (s[2] # n => s \in R)
    BY SpanAtIs
  <2>3. Of(Below(R, n + 1)) = Of(Below(R, n)) \cup {b \in Bytes : n <= b /\ b < s[2]}
    BY BelowNext
  <2>4. /\ t = [cumulative |-> a, ranges |-> K] /\ a \in c..N /\ K \subseteq R
        /\ {b \in Bytes : b < a} \cup Of(K) = {b \in Bytes : b < c} \cup Of(Below(R, n))
        /\ \A r \in K : a < r[1] /\ r[1] < n
    BY <1>3
  <2>5. \A r \in K : r[1] \in Nat /\ r[1] < n + 1
    <3>1. \A r \in Spans : r[1] \in Nat
      BY DEF Spans
    <3> QED BY <2>4, <3>1
  <2> HIDE DEF t, s, u, a, K
  <2>6. CASE s[2] <= a \/ s[2] = n
    <3>1. u = t
      BY <2>1, <2>2, <2>4, <2>6 DEF Folded
    <3>2. {b \in Bytes : n <= b /\ b < s[2]} \subseteq {b \in Bytes : b < a}
      BY <1>0, <2>2, <2>4, <2>6 DEF Bytes
    <3>3. {b \in Bytes : b < a} \cup Of(K) = {b \in Bytes : b < c} \cup Of(Below(R, n + 1))
      BY <2>3, <2>4, <3>2
    <3>4. g[n + 1] = [cumulative |-> a, ranges |-> K]
      BY <2>4, <3>1 DEF u
    <3> QED BY <2>4, <2>5, <3>3, <3>4
  <2>7. CASE ~(s[2] <= a) /\ s[2] # n /\ n <= a
    <3>1. u = [t EXCEPT !.cumulative = s[2]]
      BY <2>1, <2>2, <2>4, <2>7 DEF Folded
    <3>2. K = {}
      BY <1>0, <2>4, <2>5, <2>7
    <3>3. u = [cumulative |-> s[2], ranges |-> {}]
      BY <2>4, <3>1, <3>2
    <3>4. s[2] \in c..N
      BY <1>0, <2>2, <2>4, <2>7
    <3>5. {b \in Bytes : b < s[2]} = {b \in Bytes : b < a} \cup {b \in Bytes : n <= b /\ b < s[2]}
      BY <1>0, <2>2, <2>4, <2>7 DEF Bytes
    <3>6. {b \in Bytes : b < s[2]} \cup Of({}) = {b \in Bytes : b < c} \cup Of(Below(R, n + 1))
      BY <2>3, <2>4, <3>2, <3>5 DEF Of
    <3>7. g[n + 1] = [cumulative |-> s[2], ranges |-> {}]
      BY <3>3 DEF u
    <3> QED BY <3>4, <3>6, <3>7
  <2>8. CASE ~(s[2] <= a) /\ s[2] # n /\ ~(n <= a)
    <3>1. u = [t EXCEPT !.ranges = K \cup {s}]
      BY <2>1, <2>2, <2>4, <2>8 DEF Folded
    <3>2. g[n + 1] = [cumulative |-> a, ranges |-> K \cup {s}]
      BY <2>4, <3>1 DEF u
    <3>3. Of(K \cup {s}) = Of(K) \cup {b \in Bytes : n <= b /\ b < s[2]}
      BY <2>2 DEF Of
    <3>4. s \in R /\ a < s[1] /\ s[1] < n + 1
      BY <1>0, <2>2, <2>4, <2>8
    <3>5. {b \in Bytes : b < a} \cup Of(K \cup {s}) = {b \in Bytes : b < c} \cup Of(Below(R, n + 1))
      BY <2>3, <2>4, <3>3
    <3>6. \A r \in K \cup {s} : a < r[1] /\ r[1] < n + 1
      BY <2>4, <2>5, <3>4
    <3>7. K \cup {s} \subseteq R
      BY <2>4, <3>4
    <3>8. g[n + 1].cumulative = a /\ g[n + 1].ranges = K \cup {s}
      BY <3>2
    <3> HIDE DEF Bad
    <3> QED BY <2>4, <3>2, <3>5, <3>6, <3>7, <3>8
  <2> QED BY <2>6, <2>7, <2>8
<1>4. Bad = {}
  <2> SUFFICES ASSUME Bad # {} PROVE FALSE
    OBVIOUS
  <2>1. \E n \in Bad : \A m \in Bad : n <= m
    <3>1. Bad \subseteq Nat
      BY <1>0
    <3> HIDE DEF Bad
    <3> QED BY <3>1, LeastNatural
  <2>2. PICK n \in Bad : \A m \in Bad : n <= m
    BY <2>1
  <2> HIDE DEF Fine
  <2>3. n \in 1..N /\ ~Fine(n)
    BY <1>0, <1>2, <2>2
  <2>4. n - 1 \in 0..N /\ n - 1 \notin Bad /\ n - 1 \in 0..(N - 1) /\ n - 1 + 1 = n
    BY <1>0, <2>2, <2>3
  <2>5. Fine(n - 1 + 1)
    BY <1>3, <2>4
  <2> QED BY <2>3, <2>4, <2>5
<1>5. Fine(N)
  <2> HIDE DEF Fine
  <2> QED BY <1>0, <1>4
<1>6. Compact(c, R) = g[N] /\ Below(R, N) = R
  BY CompactIs, BelowAll DEF g
<1>7. \A r \in g[N].ranges : r[1] > g[N].cumulative
  BY <1>5
<1>8. Claimed(g[N].cumulative, g[N].ranges) = Claimed(c, R)
  BY <1>5, <1>6, ClaimedOf
<1> QED BY <1>5, <1>6, <1>7, <1>8

-----------------------------------------------------------------------------
(* Looking up *)

CoveredNext(c, R, start, g, n) ==
  IF n = 0 THEN (IF start < c THEN c ELSE start) ELSE Reached(g[n - 1], SpanAt(R, n - 1))

Covering(c, R, start) == CHOOSE g : g = [n \in 0..N |-> CoveredNext(c, R, start, g, n)]

LEMMA CoveredIs ==
  ASSUME NEW c, NEW R, NEW start, NEW end
  PROVE  Covered(c, R, start, end) <=> end <= start \/ end <= c \/ Covering(c, R, start)[N] >= end
BY DEF Covered, Covering, CoveredNext

LEMMA CoveredUnfolds ==
  ASSUME NEW c, NEW R, NEW start
  PROVE  \A n \in 0..N : Covering(c, R, start)[n] = CoveredNext(c, R, start, Covering(c, R, start), n)
<1> DEFINE Solved(n) == \E g : g = [i \in 0..n |-> CoveredNext(c, R, start, g, i)]
           Open == {n \in Nat : ~Solved(n)}
           from == IF start < c THEN c ELSE start
<1>1. Solved(0)
  <2>1. [i \in 0..0 |-> from] = [i \in 0..0 |-> CoveredNext(c, R, start, [j \in 0..0 |-> from], i)]
    BY DEF CoveredNext
  <2> QED BY <2>1
<1>2. ASSUME NEW n \in Nat, Solved(n) PROVE Solved(n + 1)
  <2>1. PICK g : g = [i \in 0..n |-> CoveredNext(c, R, start, g, i)]
    BY <1>2
  <2> DEFINE h == [i \in 0..(n + 1) |-> CoveredNext(c, R, start, g, i)]
  <2>2. ASSUME NEW i \in 0..(n + 1) PROVE CoveredNext(c, R, start, h, i) = CoveredNext(c, R, start, g, i)
    <3>1. CASE i = 0
      BY <3>1 DEF CoveredNext
    <3>2. CASE i # 0
      <4>1. i - 1 \in 0..n /\ i - 1 \in 0..(n + 1)
        BY <3>2
      <4>2. h[i - 1] = g[i - 1]
        BY <2>1, <4>1
      <4> HIDE DEF h
      <4> QED BY <3>2, <4>2 DEF CoveredNext
    <3> QED BY <3>1, <3>2
  <2>3. h = [i \in 0..(n + 1) |-> CoveredNext(c, R, start, h, i)]
    BY <2>2
  <2> QED BY <2>3
<1>3. Open = {}
  <2> SUFFICES ASSUME Open # {} PROVE FALSE
    OBVIOUS
  <2>1. \E n \in Open : \A m \in Open : n <= m
    <3>1. Open \subseteq Nat
      OBVIOUS
    <3> HIDE DEF Open
    <3> QED BY <3>1, LeastNatural
  <2>2. PICK n \in Open : \A m \in Open : n <= m
    BY <2>1
  <2> HIDE DEF Solved
  <2>3. n # 0 /\ n \in Nat /\ ~Solved(n)
    BY <1>1, <2>2
  <2>4. n - 1 \in Nat /\ n - 1 \notin Open
    BY <2>2, <2>3
  <2>5. Solved(n - 1 + 1)
    BY <1>2, <2>4
  <2> QED BY <2>3, <2>5
<1>4. Solved(N)
  <2> HIDE DEF Solved
  <2> QED BY <1>3, AckPathConstants
<1>5. Covering(c, R, start) = [n \in 0..N |-> CoveredNext(c, R, start, Covering(c, R, start), n)]
  BY <1>4 DEF Covering
<1> HIDE DEF Solved, Open
<1> QED BY <1>5

\* The answer for a range is membership in what is claimed.
LEMMA CoveredIsExact ==
  ASSUME NEW c \in 0..N, NEW R, R \subseteq Spans, NEW start \in 0..N, NEW end \in 0..N, start < end
  PROVE  Covered(c, R, start, end) <=> start .. end - 1 \subseteq Claimed(c, R)
<1> DEFINE g == Covering(c, R, start)
           from == IF start < c THEN c ELSE start
           Fine(n) == /\ g[n] \in from..N
                      /\ \A b \in Bytes : from <= b /\ b < g[n] => b \in Of(Below(R, n))
                      /\ g[n] \notin Of(Below(R, n))
           Bad == {n \in 0..N : ~Fine(n)}
<1>0. N \in Nat /\ c \in Nat /\ start \in Nat /\ end \in Nat /\ from \in 0..N /\ start <= from /\ c <= from
  BY AckPathConstants
<1>1. \A n \in 0..N : g[n] = CoveredNext(c, R, start, g, n)
  BY CoveredUnfolds
<1>2. g[0] = from
  BY <1>0, <1>1 DEF CoveredNext
<1>3. from = c \/ from = start
  OBVIOUS
<1>4. (end <= c) \/ (from < end)
  BY <1>0
<1> HIDE DEF g, from
<1>5. Fine(0)
  <2>1. Of(Below(R, 0)) = {}
    BY BelowAll
  <2>2. g[0] \in from..N /\ g[0] \notin {}
    BY <1>0, <1>2
  <2>3. \A b \in Bytes : ~(from <= b /\ b < g[0])
    BY <1>0, <1>2 DEF Bytes
  <2> QED BY <2>1, <2>2, <2>3
<1>6. ASSUME NEW n \in 0..(N - 1), Fine(n) PROVE Fine(n + 1)
  <2> DEFINE s == SpanAt(R, n)
             a == g[n]
  <2>1. g[n + 1] = Reached(a, s)
    <3>1. n + 1 \in 0..N /\ n + 1 # 0 /\ n + 1 - 1 = n
      BY <1>0
    <3> QED BY <1>1, <3>1 DEF CoveredNext
  <2>2. s[1] = n /\ s[2] \in n..N /\ (s[2] # n => s \in R) /\ \A r \in R : r[1] = n => r[2] <= s[2]
    BY SpanAtIs
  <2>3. Of(Below(R, n + 1)) = Of(Below(R, n)) \cup {b \in Bytes : n <= b /\ b < s[2]}
    BY BelowNext
  <2>4. /\ a \in from..N /\ (\A b \in Bytes : from <= b /\ b < a => b \in Of(Below(R, n)))
        /\ a \notin Of(Below(R, n))
    BY <1>6
  <2> HIDE DEF s, a
  <2>5. CASE n > a \/ s[2] <= a
    <3>1. g[n + 1] = a
      BY <2>1, <2>2, <2>5 DEF Reached
    <3>2. a \notin {b \in Bytes : n <= b /\ b < s[2]}
      BY <1>0, <2>2, <2>4, <2>5 DEF Bytes
    <3> QED BY <2>3, <2>4, <3>1, <3>2
  <2>6. CASE ~(n > a) /\ ~(s[2] <= a)
    <3>1. g[n + 1] = s[2]
      BY <2>1, <2>2, <2>6 DEF Reached
    <3>2. s[2] \in from..N
      BY <1>0, <2>2, <2>4, <2>6
    <3>3. ASSUME NEW b \in Bytes, from <= b, b < s[2] PROVE b \in Of(Below(R, n + 1))
      BY <1>0, <2>2, <2>3, <2>4, <2>6, <3>3 DEF Bytes
    <3>4. ASSUME s[2] \in Of(Below(R, n + 1)) PROVE FALSE
      <4>1. PICK r \in R : r[1] < n + 1 /\ r[1] <= s[2] /\ s[2] < r[2]
        BY <3>4 DEF Of, Below
      <4>2. r[1] \in 0..N /\ r[2] \in 0..N
        BY DEF Spans
      <4>3. r[1] < n
        BY <1>0, <2>2, <4>1, <4>2
      <4>4. a \in Bytes /\ r[1] <= a /\ a < r[2]
        BY <1>0, <2>2, <2>4, <2>6, <4>1, <4>2, <4>3 DEF Bytes
      <4> QED BY <2>4, <4>3, <4>4 DEF Of, Below
    <3> QED BY <3>1, <3>2, <3>3, <3>4
  <2> QED BY <2>5, <2>6
<1>7. Bad = {}
  <2> SUFFICES ASSUME Bad # {} PROVE FALSE
    OBVIOUS
  <2>1. \E n \in Bad : \A m \in Bad : n <= m
    <3>1. Bad \subseteq Nat
      BY <1>0
    <3> HIDE DEF Bad
    <3> QED BY <3>1, LeastNatural
  <2>2. PICK n \in Bad : \A m \in Bad : n <= m
    BY <2>1
  <2> HIDE DEF Fine
  <2>3. n \in 1..N /\ ~Fine(n)
    BY <1>0, <1>5, <2>2
  <2>4. n - 1 \in 0..N /\ n - 1 \notin Bad /\ n - 1 \in 0..(N - 1) /\ n - 1 + 1 = n
    BY <1>0, <2>2, <2>3
  <2>5. Fine(n - 1 + 1)
    BY <1>6, <2>4
  <2> QED BY <2>3, <2>4, <2>5
<1>8. Fine(N)
  <2> HIDE DEF Fine
  <2> QED BY <1>0, <1>7
<1> DEFINE a == g[N]
<1>9. /\ a \in from..N /\ a \notin Of(R) /\ \A b \in Bytes : from <= b /\ b < a => b \in Of(R)
  BY <1>8, BelowAll
<1>10. Covered(c, R, start, end) <=> end <= c \/ a >= end
  BY <1>0, CoveredIs DEF g
<1> HIDE DEF a
<1>11. CASE end <= c
  <2>1. \A b \in start .. end - 1 : b \in Bytes /\ b < c
    BY <1>0, <1>11 DEF Bytes
  <2> QED BY <1>10, <1>11, <2>1 DEF Claimed
<1>12. CASE ~(end <= c) /\ a >= end
  <2>1. ASSUME NEW b \in start .. end - 1 PROVE b \in Claimed(c, R)
    <3>1. b \in Bytes
      BY <1>0 DEF Bytes
    <3>2. b < c \/ (from <= b /\ b < a)
      BY <1>0, <1>3, <1>9, <1>12
    <3> QED BY <1>9, <3>1, <3>2, ClaimedOf
  <2> QED BY <1>10, <1>12, <2>1
<1>13. CASE ~(end <= c) /\ ~(a >= end)
  <2>1. a \in start .. end - 1 /\ ~(a < c)
    BY <1>0, <1>4, <1>9, <1>13
  <2>2. a \notin Claimed(c, R)
    BY <1>9, <2>1, ClaimedOf
  <2> QED BY <1>10, <1>13, <2>1, <2>2
<1> QED BY <1>11, <1>12, <1>13
-----------------------------------------------------------------------------
(* The protocol *)

\* Nothing is told that is not held: what the tracker claims and the watcher's copy of it,
\* what waits to be reported and what is reported.
ClaimsAreHeld ==
  /\ Claimed(cumulative, ranges) \subseteq Held
  /\ Claimed(watcher.cumulative, watcher.ranges) \subseteq Held
  /\ Of(pendingRanges) \subseteq Held
  /\ ackSequence = next /\ loop.sequence <= next /\ loop.sent <= next
  /\ \A a \in acks : /\ a.sequence <= next /\ Of(a.ranges) \subseteq Held
                     /\ \A r \in a.ranges : a.sequence <= r[1]

\* Nothing is held that was not sent: the bound is raised before the frame is queued.
HeldWasSent ==
  /\ next <= highestSent /\ \A b \in buffered : next < b /\ b < highestSent
  /\ \A o \in data : o < highestSent
  /\ \A p \in Pullers : puller[p].pc # "idle" => EndOf(puller[p].off) <= highestSent

\* What the tracker keeps above its cumulative point, and what was acted on.
RangesAreApart == Apart(ranges) /\ \A r \in ranges : r[1] > cumulative

ActedOnHeld ==
  /\ \A o \in done \cup watcher.completed : o \in Bytes => o \in Held
  /\ reissueBound > 0 => \E b \in Held : reissueBound + LostEvidence <= b + 1

AckIInv == /\ AckTypeOK /\ ClaimsAreHeld /\ HeldWasSent /\ RangesAreApart /\ ActedOnHeld
           /\ ~rejected

LEMMA CursorIs ==
  ASSUME NEW b \in 0..N, NEW B, B \subseteq Bytes
  PROVE  /\ Cursor(b, B) \in b..N /\ Cursor(b, B) \notin B
         /\ \A o \in b .. Cursor(b, B) - 1 : o \in B
<1> DEFINE S == {o \in b .. N : o \notin B}
<1>0. N \in Nat
  BY AckPathConstants
<1>1. N \in S /\ S \subseteq Nat
  BY <1>0 DEF Bytes
<1>2. Cursor(b, B) \in S /\ \A y \in S : Cursor(b, B) <= y
  <2>1. Cursor(b, B) = Min(S)
    BY DEF Cursor
  <2> HIDE DEF S
  <2> QED BY <1>1, <2>1, LeastIn
<1>3. ASSUME NEW o \in b .. Cursor(b, B) - 1 PROVE o \in B
  <2>1. o \in b..N /\ ~(Cursor(b, B) <= o)
    BY <1>0, <1>2
  <2> QED BY <1>2, <2>1
<1> QED BY <1>2, <1>3

LEMMA ReceivedAreHeld ==
  ASSUME NEW B, B \subseteq Bytes PROVE ReceivedRanges(B) \subseteq Spans /\ Of(ReceivedRanges(B)) \subseteq B
<1> DEFINE U == {<<o, o + 1>> : o \in B}
<1>0. N \in Nat
  BY AckPathConstants
<1>1. U \subseteq Spans
  BY <1>0 DEF Bytes, Spans
<1>2. Merge(U) \subseteq Spans /\ Of(Merge(U)) = Of(U)
  <2> HIDE DEF U
  <2> QED BY <1>1, MergeIsExact
<1>3. Of(U) \subseteq B
  <2> SUFFICES ASSUME NEW b \in Of(U) PROVE b \in B
    OBVIOUS
  <2>1. b \in Bytes /\ \E r \in U : r[1] <= b /\ b < r[2]
    BY DEF Of
  <2>2. PICK o \in B : o <= b /\ b < o + 1
    BY <2>1
  <2>3. b = o
    BY <1>0, <2>1, <2>2 DEF Bytes
  <2> QED BY <2>3
<1>4. ReceivedRanges(B) \subseteq Merge(U)
  BY DEF ReceivedRanges
<1>5. Of(ReceivedRanges(B)) \subseteq Of(Merge(U))
  BY <1>4 DEF Of
<1> QED BY <1>2, <1>3, <1>4, <1>5

LEMMA NumbersTyped ==
  ASSUME AckTypeOK
  PROVE  /\ N \in Nat /\ N # 0 /\ highestSent \in 0..N /\ cumulative \in 0..N /\ next \in 0..N /\ ackSequence \in 0..N
         /\ loop.sequence \in 0..N /\ loop.sent \in 0..N /\ loop.pc \in {"waiting", "deciding", "writing"}
         /\ \A p \in Pullers : /\ puller[p].off \in Chunks /\ puller[p].pc \in {"idle", "noted", "queued", "tracked"}
                               /\ puller[p] = [pc |-> puller[p].pc, off |-> puller[p].off]
         /\ \A o \in Chunks : o \in 0..N /\ EndOf(o) \in 0..N /\ o <= EndOf(o) /\ (o \in Bytes => EndOf(o) = o + 1)
         /\ watcher.cumulative \in 0..N /\ watcher.ranges \subseteq Spans /\ watcher.completed \subseteq Chunks
         /\ Held \subseteq Bytes
<1>1. N \in Nat /\ N # 0
  BY AckPathConstants
<1>2. \A o \in Chunks : o \in 0..N /\ EndOf(o) \in 0..N /\ o <= EndOf(o) /\ (o \in Bytes => EndOf(o) = o + 1)
  BY <1>1, AckPathConstants DEF Chunks, EndOf, Bytes
<1> QED BY <1>1, <1>2 DEF AckTypeOK, Held

\* What a step of the receiver does to what is held.
LEMMA DataTaken ==
  ASSUME AckTypeOK, ClaimsAreHeld, HeldWasSent, NEW o \in data, ReceiveData(o)
  PROVE  /\ next' \in next..N /\ buffered' \subseteq Bytes /\ Held' = Held \cup {o}
         /\ ackSequence' = next' /\ pendingRanges' \subseteq Spans /\ Of(pendingRanges') \subseteq Held'
         /\ next' <= highestSent /\ \A b \in buffered' : next' < b /\ b < highestSent
         /\ next < next' => wake'
<1> DEFINE B == IF o < next THEN buffered ELSE buffered \cup {o}
           c == Cursor(next, B)
<1>0. N \in Nat /\ next \in 0..N /\ highestSent \in 0..N
  BY NumbersTyped
<1>1. B \subseteq Bytes /\ o \in Bytes /\ buffered \subseteq Bytes
  BY DEF AckTypeOK
<1>2. \A b \in B : b < highestSent /\ next <= b
  BY <1>0, <1>1 DEF HeldWasSent, Bytes
<1>3. o < next \/ o \in B
  OBVIOUS
<1>4. buffered \subseteq B /\ B \subseteq buffered \cup {o}
  OBVIOUS
<1>5. /\ next' = c /\ buffered' = {b \in B : b >= c} /\ ackSequence' = Max({ackSequence, c})
      /\ pendingRanges' \in {pendingRanges, ReceivedRanges(buffered')}
      /\ wake' = (wake \/ c > next \/ {b \in B : b >= c} # {} \/ next > 0)
  BY DEF ReceiveData
<1> HIDE DEF B
<1>6. c \in next..N /\ c \notin B /\ \A b \in next .. c - 1 : b \in B
  BY <1>0, <1>1, CursorIs
<1> HIDE DEF c
<1>7. Held' = Held \cup {o}
  <2>1. ASSUME NEW b \in Bytes PROVE b \in Held' <=> b \in Held \cup {o}
    <3>1. b \in Held' <=> b < c \/ (b \in B /\ b >= c)
      BY <1>5 DEF Held
    <3>2. b \in Held \cup {o} <=> b < next \/ b \in buffered \/ b = o
      BY DEF Held
    <3>3. b < c /\ ~(b < next) => b \in B
      BY <1>0, <1>6 DEF Bytes
    <3>4. b < next => b < c
      BY <1>0, <1>6 DEF Bytes
    <3>5. b < c \/ b >= c
      BY <1>0, <1>6 DEF Bytes
    <3> QED BY <1>3, <1>4, <3>1, <3>2, <3>3, <3>4, <3>5
  <2>2. Held \subseteq Bytes /\ Held' \subseteq Bytes
    BY <1>1, <1>5 DEF Held
  <2> QED BY <1>1, <2>1, <2>2
<1>8. ackSequence' = next'
  <2>1. ackSequence = next
    BY DEF ClaimsAreHeld
  <2>2. {next, c} \subseteq 0..N /\ {next, c} # {}
    BY <1>0, <1>6
  <2>3. Max({next, c}) \in {next, c} /\ \A y \in {next, c} : y <= Max({next, c})
    BY <1>0, <2>2, GreatestIn
  <2>4. Max({next, c}) = c
    BY <1>0, <1>6, <2>3
  <2> QED BY <1>5, <2>1, <2>4
<1>9. buffered' \subseteq Bytes /\ \A b \in buffered' : next' < b /\ b < highestSent
  <2>1. buffered' \subseteq B
    BY <1>5
  <2>2. ASSUME NEW b \in buffered' PROVE c < b
    <3>1. b \in B /\ b >= c /\ b # c
      BY <1>5, <1>6, <2>1
    <3>2. b \in Int /\ c \in Int
      BY <1>0, <1>1, <1>6, <3>1 DEF Bytes
    <3> QED BY <3>1, <3>2
  <2>3. \A b \in buffered' : c < b
    BY <2>2
  <2>4. next' = c
    BY <1>5
  <2> QED BY <1>1, <1>2, <2>1, <2>3, <2>4
<1>10. pendingRanges' \subseteq Spans /\ Of(pendingRanges') \subseteq Held'
  <2>1. CASE pendingRanges' = pendingRanges
    BY <1>7, <2>1 DEF AckTypeOK, ClaimsAreHeld
  <2>2. CASE pendingRanges' = ReceivedRanges(buffered')
    <3>1. buffered' \subseteq Held'
      BY DEF Held
    <3> QED BY <1>9, <2>2, <3>1, ReceivedAreHeld
  <2> QED BY <1>5, <2>1, <2>2
<1>11. next' <= highestSent
  <2>1. CASE c = next
    BY <1>5, <2>1 DEF HeldWasSent
  <2>2. CASE c # next
    <3>1. c - 1 \in next .. c - 1
      BY <1>0, <1>6, <2>2
    <3>2. c - 1 < highestSent
      BY <1>2, <1>6, <3>1
    <3> QED BY <1>0, <1>5, <1>6, <3>2
  <2> QED BY <2>1, <2>2
<1>12. next < next' => wake'
  BY <1>0, <1>5, <1>6
<1> QED BY <1>5, <1>6, <1>7, <1>8, <1>9, <1>10, <1>11, <1>12

\* What a report that is believed does to the tracker.
LEMMA ReportTaken ==
  ASSUME AckTypeOK, RangesAreApart, NEW a \in acks, ReceiveACK(a), rejected' = FALSE
  PROVE  /\ cumulative' \in cumulative..N /\ a.sequence <= cumulative' /\ ranges' \subseteq Spans
         /\ Apart(ranges') /\ \A r \in ranges' : r[1] > cumulative'
         /\ Claimed(cumulative', ranges')
              \subseteq Claimed(cumulative, ranges) \cup {b \in Bytes : b < a.sequence} \cup Of(a.ranges)
         /\ ~changed' => cumulative' = cumulative /\ ranges' = ranges
         /\ changed => changed'
<1> DEFINE t == Advanced(a.sequence)
           news == {r \in a.ranges : ~Covered(t.cumulative, t.ranges, r[1], r[2])}
           u == Added(t, news)
<1>0. N \in Nat /\ cumulative \in 0..N /\ ranges \subseteq Spans /\ a.sequence \in 0..N /\ a.ranges \subseteq Spans
  BY NumbersTyped DEF AckTypeOK
<1>1. /\ cumulative' = u.cumulative /\ ranges' = u.ranges
      /\ changed' = (changed \/ a.sequence > cumulative \/ news # {})
  BY DEF ReceiveACK
<1>2. changed \in BOOLEAN
  BY DEF AckTypeOK
<1>3. /\ t.cumulative \in cumulative..N /\ a.sequence <= t.cumulative /\ t.ranges \subseteq ranges
      /\ Claimed(t.cumulative, t.ranges) \subseteq Claimed(cumulative, ranges) \cup {b \in Bytes : b < a.sequence}
      /\ \A r \in t.ranges : r[1] > t.cumulative
      /\ ~(a.sequence > cumulative) => t.cumulative = cumulative /\ t.ranges = ranges
  <2>1. CASE a.sequence > cumulative
    <3> DEFINE k == Compact(a.sequence, ranges)
    <3>1. t = k
      BY <2>1 DEF Advanced
    <3>2. /\ k.cumulative \in a.sequence..N /\ k.ranges \subseteq ranges
          /\ Claimed(k.cumulative, k.ranges) = Claimed(a.sequence, ranges)
          /\ \A r \in k.ranges : r[1] > k.cumulative
      BY <1>0, CompactIsExact
    <3>3. Claimed(a.sequence, ranges) \subseteq Claimed(cumulative, ranges) \cup {b \in Bytes : b < a.sequence}
      BY DEF Claimed
    <3> HIDE DEF k, t
    <3> QED BY <1>0, <2>1, <3>1, <3>2, <3>3
  <2>2. CASE ~(a.sequence > cumulative)
    <3>1. t.cumulative = cumulative /\ t.ranges = ranges
      BY <2>2 DEF Advanced
    <3> HIDE DEF t
    <3> QED BY <1>0, <2>2, <3>1 DEF RangesAreApart
  <2> QED BY <2>1, <2>2
<1>4. Apart(t.ranges) /\ t.ranges \subseteq Spans
  BY <1>0, <1>3 DEF RangesAreApart, Apart
<1>5. news \subseteq a.ranges
  OBVIOUS
<1> HIDE DEF t, news
<1>6. CASE news = {}
  <2>1. u = t
    BY <1>6 DEF Added
  <2>2. cumulative' = t.cumulative /\ ranges' = t.ranges
    BY <1>1, <2>1
  <2>3. ~changed' => ~(a.sequence > cumulative)
    BY <1>1, <1>2
  <2>4. changed => changed'
    BY <1>1, <1>2
  <2> QED BY <1>0, <1>3, <1>4, <2>2, <2>3, <2>4
<1>7. CASE news # {}
  <2> DEFINE M == Merge(t.ranges \cup news)
             k == Compact(t.cumulative, M)
  <2>1. t.ranges \cup news \subseteq Spans
    BY <1>0, <1>4, <1>5
  <2>2. M \subseteq Spans /\ Of(M) = Of(t.ranges \cup news) /\ Apart(M)
    BY <2>1, MergeIsExact
  <2>3. u = k
    BY <1>7 DEF Added
  <2> HIDE DEF M
  <2>4. t.cumulative \in 0..N
    BY <1>0, <1>3
  <2>5. /\ k.cumulative \in t.cumulative..N /\ k.ranges \subseteq M
        /\ Claimed(k.cumulative, k.ranges) = Claimed(t.cumulative, M)
        /\ \A r \in k.ranges : r[1] > k.cumulative
    BY <2>2, <2>4, CompactIsExact
  <2>6. Claimed(t.cumulative, M) \subseteq Claimed(t.cumulative, t.ranges) \cup Of(a.ranges)
    <3>1. Of(t.ranges \cup news) \subseteq Of(t.ranges) \cup Of(a.ranges)
      BY <1>5 DEF Of
    <3> QED BY <2>2, <3>1, ClaimedOf
  <2>7. Apart(k.ranges)
    BY <2>2, <2>5 DEF Apart
  <2>8. changed'
    BY <1>1, <1>7
  <2> HIDE DEF k, u
  <2> QED BY <1>0, <1>1, <1>3, <2>2, <2>3, <2>5, <2>6, <2>7, <2>8
<1> QED BY <1>6, <1>7
-----------------------------------------------------------------------------
LEMMA AckInitHolds == ASSUME AckInit PROVE AckIInv
<1>0. N \in Nat /\ N # 0 /\ MaxDispatches \in Nat /\ MaxLaneDeaths \in Nat
  BY AckPathConstants
<1>1. 0 \in Chunks
  BY <1>0 DEF Chunks, Bytes
<1>2. AckTypeOK
  <2>1. puller \in [Pullers -> [pc: {"idle", "noted", "queued", "tracked"}, off: Chunks]]
    BY <1>1 DEF AckInit, Idle
  <2>2. watcher \in [pc: {"snapshot", "scan", "complete", "wait"},
                     cumulative: 0..N, ranges: SUBSET Spans, completed: SUBSET Chunks]
    BY <1>0 DEF AckInit
  <2>3. loop \in [pc: {"waiting", "deciding", "writing"}, sequence: 0..N, sent: 0..N]
    BY <1>0 DEF AckInit
  <2>4. /\ highestSent = 0 /\ cumulative = 0 /\ ranges = {} /\ changed = FALSE
        /\ outstanding = {} /\ done = {} /\ dispatches = 0 /\ reissueBound = 0 /\ rejected = FALSE
        /\ next = 0 /\ buffered = {} /\ pendingRanges = {} /\ ackSequence = 0
        /\ gap = FALSE /\ repeat = FALSE /\ wake = FALSE /\ data = {} /\ acks = {} /\ deaths = 0
    BY DEF AckInit
  <2>5. /\ highestSent \in 0..N /\ cumulative \in 0..N /\ dispatches \in 0..MaxDispatches /\ reissueBound \in 0..N
        /\ next \in 0..N /\ ackSequence \in 0..N /\ deaths \in 0..MaxLaneDeaths
    BY <1>0, <2>4
  <2>6. /\ ranges \subseteq Spans /\ outstanding \subseteq Chunks /\ done \subseteq Chunks
        /\ buffered \subseteq Bytes /\ pendingRanges \subseteq Spans /\ data \subseteq Bytes
        /\ acks \subseteq [sequence: 0..N, ranges: SUBSET Spans]
    BY <2>4
  <2>7. changed \in BOOLEAN /\ rejected \in BOOLEAN /\ gap \in BOOLEAN /\ repeat \in BOOLEAN /\ wake \in BOOLEAN
    BY <2>4
  <2> QED BY <2>1, <2>2, <2>3, <2>5, <2>6, <2>7 DEF AckTypeOK
<1>3. Held = {} /\ \A R : Claimed(0, {}) = {} /\ Of({}) = {}
  BY <1>0 DEF AckInit, Held, Claimed, Of, Bytes
<1>4. ClaimsAreHeld
  BY <1>3 DEF AckInit, ClaimsAreHeld
<1>5. HeldWasSent /\ RangesAreApart /\ ActedOnHeld /\ ~rejected
  BY <1>0 DEF AckInit, HeldWasSent, RangesAreApart, Apart, ActedOnHeld, Idle
<1> QED BY <1>2, <1>4, <1>5 DEF AckIInv

\* Steps that change nothing of what is held, told or sent keep what is said about it.
LEMMA SenderKeeps ==
  ASSUME AckIInv, NEW p \in Pullers, PullerStep(p)
  PROVE  AckIInv'
<1> USE DEF AckIInv
<1>0. /\ N \in Nat /\ N # 0 /\ highestSent \in 0..N /\ next \in 0..N /\ MaxDispatches \in Nat
      /\ puller[p].off \in Chunks /\ buffered \subseteq Bytes /\ data \subseteq Bytes
      /\ \A o \in Chunks : o \in 0..N /\ EndOf(o) \in 0..N /\ o <= EndOf(o) /\ (o \in Bytes => EndOf(o) = o + 1)
      /\ \A q \in Pullers : puller[q].off \in Chunks
  BY NumbersTyped, AckPathConstants DEF AckTypeOK
<1>1. puller \in [Pullers -> [pc: {"idle", "noted", "queued", "tracked"}, off: Chunks]]
  BY DEF AckTypeOK
<1>2. CASE NoteSent(p)
  <2>1. PICK o \in Chunks \ done : /\ puller' = [puller EXCEPT ![p] = [pc |-> "noted", off |-> o]]
                                   /\ highestSent' = Max({highestSent, EndOf(o)})
    BY <1>2 DEF NoteSent
  <2>2. highestSent' \in 0..N /\ highestSent <= highestSent' /\ EndOf(o) <= highestSent'
    <3>1. {highestSent, EndOf(o)} \subseteq 0..N /\ {highestSent, EndOf(o)} # {}
      BY <1>0
    <3> QED BY <1>0, <2>1, <3>1, GreatestIn
  <2>3. dispatches' \in 0..MaxDispatches
    BY <1>0, <1>2 DEF NoteSent, AckTypeOK
  <2>4. puller' \in [Pullers -> [pc: {"idle", "noted", "queued", "tracked"}, off: Chunks]]
    BY <1>1, <2>1
  <2>5. AckTypeOK'
    BY <1>2, <2>2, <2>3, <2>4 DEF NoteSent, AckTypeOK, receiver, links
  <2>6. HeldWasSent'
    <3>1. \A q \in Pullers : puller'[q].pc # "idle" => EndOf(puller'[q].off) <= highestSent'
      <4> SUFFICES ASSUME NEW q \in Pullers, puller'[q].pc # "idle"
                   PROVE  EndOf(puller'[q].off) <= highestSent'
        OBVIOUS
      <4>1. CASE q = p
        BY <1>1, <2>1, <2>2, <4>1
      <4>2. CASE q # p
        <5>1. puller'[q] = puller[q]
          BY <1>1, <2>1, <4>2
        <5>2. EndOf(puller[q].off) <= highestSent /\ EndOf(puller[q].off) \in Int
          BY <1>0, <5>1 DEF HeldWasSent
        <5> QED BY <1>0, <2>2, <5>1, <5>2
      <4> QED BY <4>1, <4>2
    <3>2. next' = next /\ buffered' = buffered /\ data' = data
      BY <1>2 DEF NoteSent, receiver, links
    <3>3. next <= highestSent' /\ \A b \in buffered : next < b /\ b < highestSent'
      <4>1. next <= highestSent'
        <5>1. next <= highestSent
          BY DEF HeldWasSent
        <5> QED BY <1>0, <2>2, <5>1
      <4>2. ASSUME NEW b \in buffered PROVE next < b /\ b < highestSent'
        <5>1. next < b /\ b < highestSent
          BY DEF HeldWasSent
        <5>2. b \in 0..N - 1
          BY <1>0 DEF Bytes
        <5> QED BY <1>0, <2>2, <5>1, <5>2
      <4> QED BY <4>1, <4>2
    <3>4. ASSUME NEW b \in data PROVE b < highestSent'
      <4>1. b < highestSent
        BY DEF HeldWasSent
      <4>2. b \in 0..N - 1
        BY <1>0 DEF Bytes
      <4> QED BY <1>0, <2>2, <4>1, <4>2
    <3> QED BY <3>1, <3>2, <3>3, <3>4 DEF HeldWasSent
  <2>7. ClaimsAreHeld' /\ RangesAreApart' /\ ActedOnHeld' /\ ~rejected'
    BY <1>2 DEF NoteSent, ClaimsAreHeld, RangesAreApart, ActedOnHeld, Held, receiver, links
  <2> QED BY <2>5, <2>6, <2>7
<1>3. CASE Enqueue(p)
  <2>1. puller' = [puller EXCEPT ![p].pc = "queued"] /\ data' = data \cup ({puller[p].off} \cap Bytes)
    BY <1>3 DEF Enqueue
  <2>2. puller' \in [Pullers -> [pc: {"idle", "noted", "queued", "tracked"}, off: Chunks]]
    BY <1>1, <2>1
  <2>3. AckTypeOK'
    BY <1>0, <1>3, <2>1, <2>2 DEF Enqueue, AckTypeOK, receiver
  <2>4. HeldWasSent'
    <3>1. ASSUME NEW q \in Pullers, puller'[q].pc # "idle"
          PROVE  EndOf(puller'[q].off) <= highestSent
      <4>1. puller'[q].off = puller[q].off /\ puller[q].pc # "idle"
        BY <1>1, <1>3, <2>1, <3>1 DEF Enqueue
      <4> QED BY <4>1 DEF HeldWasSent
    <3>2. \A b \in data' : b < highestSent
      <4>1. puller[p].off \in Bytes => puller[p].off < highestSent
        <5>1. EndOf(puller[p].off) <= highestSent
          BY <1>3 DEF Enqueue, HeldWasSent
        <5> QED BY <1>0, <5>1
      <4> QED BY <2>1, <4>1 DEF HeldWasSent
    <3>3. next' = next /\ buffered' = buffered /\ highestSent' = highestSent
      BY <1>3 DEF Enqueue, receiver
    <3> QED BY <3>1, <3>2, <3>3 DEF HeldWasSent
  <2>5. ClaimsAreHeld' /\ RangesAreApart' /\ ActedOnHeld' /\ ~rejected'
    BY <1>3 DEF Enqueue, ClaimsAreHeld, RangesAreApart, ActedOnHeld, Held, receiver
  <2> QED BY <2>3, <2>4, <2>5
<1>4. CASE TrackChunk(p) \/ Reconcile(p)
  <2>1. /\ UNCHANGED <<highestSent, cumulative, ranges, done, watcher, dispatches, reissueBound, rejected,
                       next, buffered, pendingRanges, ackSequence, gap, repeat, wake, loop, data, acks, deaths>>
        /\ outstanding' \subseteq Chunks /\ changed' \in BOOLEAN
    BY <1>0, <1>4 DEF TrackChunk, Reconcile, receiver, links, AckTypeOK, Covered
  <2>2. \E s \in [pc: {"idle", "noted", "queued", "tracked"}, off: Chunks] :
          /\ puller' = [puller EXCEPT ![p] = s]
          /\ s.pc # "idle" => s.off = puller[p].off /\ puller[p].pc # "idle"
    <3>1. 0 \in Chunks
      BY <1>0 DEF Chunks, Bytes
    <3>2. puller[p] \in [pc: {"idle", "noted", "queued", "tracked"}, off: Chunks]
      BY <1>1
    <3>3. [puller[p] EXCEPT !.pc = "tracked"] \in [pc: {"idle", "noted", "queued", "tracked"}, off: Chunks]
      BY <3>2
    <3>4. Idle \in [pc: {"idle", "noted", "queued", "tracked"}, off: Chunks] /\ Idle.pc = "idle"
      BY <3>1 DEF Idle
    <3>5. CASE puller' = [puller EXCEPT ![p] = Idle]
      BY <3>4, <3>5
    <3>6. CASE TrackChunk(p) /\ puller[p].off \notin outstanding
      <4>1. puller' = [puller EXCEPT ![p] = [puller[p] EXCEPT !.pc = "tracked"]] /\ puller[p].pc = "queued"
        BY <1>1, <3>6 DEF TrackChunk
      <4> QED BY <3>2, <3>3, <4>1
    <3> QED BY <1>1, <1>4, <3>5, <3>6 DEF TrackChunk, Reconcile
  <2>3. AckTypeOK'
    <3>1. puller' \in [Pullers -> [pc: {"idle", "noted", "queued", "tracked"}, off: Chunks]]
      BY <1>1, <2>2
    <3> QED BY <2>1, <3>1 DEF AckTypeOK
  <2>4. HeldWasSent'
    <3>1. ASSUME NEW q \in Pullers, puller'[q].pc # "idle"
          PROVE  EndOf(puller'[q].off) <= highestSent
      <4>1. puller'[q].off = puller[q].off /\ puller[q].pc # "idle"
        BY <1>1, <2>2, <3>1
      <4> QED BY <4>1 DEF HeldWasSent
    <3> QED BY <2>1, <3>1 DEF HeldWasSent
  <2>5. ClaimsAreHeld' /\ RangesAreApart' /\ ActedOnHeld' /\ ~rejected'
    BY <2>1 DEF ClaimsAreHeld, RangesAreApart, ActedOnHeld, Held
  <2> QED BY <2>3, <2>4, <2>5
<1> QED BY <1>2, <1>3, <1>4 DEF PullerStep
-----------------------------------------------------------------------------
\* The watcher only acts on what a report told it.
LEMMA WatcherKeeps == ASSUME AckIInv, WatcherStep PROVE AckIInv'
<1> USE DEF AckIInv
<1> DEFINE Watchers == [pc: {"snapshot", "scan", "complete", "wait"},
                        cumulative: 0..N, ranges: SUBSET Spans, completed: SUBSET Chunks]
<1>0. /\ N \in Nat /\ LostEvidence \in Nat /\ cumulative \in 0..N /\ ranges \subseteq Spans
      /\ \A o \in Chunks : o \in 0..N /\ EndOf(o) \in 0..N /\ (o \in Bytes => EndOf(o) = o + 1)
      /\ watcher.cumulative \in 0..N /\ watcher.ranges \subseteq Spans /\ watcher.completed \subseteq Chunks
      /\ reissueBound \in 0..N /\ Held \subseteq Bytes /\ outstanding \subseteq Chunks
      /\ watcher \in Watchers /\ changed \in BOOLEAN
  BY NumbersTyped, AckPathConstants DEF AckTypeOK
<1>1. /\ UNCHANGED <<highestSent, cumulative, ranges, puller, dispatches, rejected, receiver, links>>
      /\ outstanding' \subseteq Chunks /\ changed' \in BOOLEAN
  BY <1>0 DEF WatcherStep, WatcherSnapshots, WatcherScans, WatcherCompletes, WatcherWakes
<1>2. Held' = Held
  BY <1>1 DEF Held, receiver
<1>3. /\ watcher' \in Watchers /\ reissueBound' \in 0..N
      /\ Claimed(watcher'.cumulative, watcher'.ranges) \subseteq Held
      /\ done' \cup watcher'.completed \subseteq Chunks
      /\ \A o \in done' \cup watcher'.completed : o \in Bytes => o \in Held
      /\ reissueBound' > 0 => \E b \in Held : reissueBound' + LostEvidence <= b + 1
  <2>0. /\ \A o \in done \cup watcher.completed : o \in Bytes => o \in Held
        /\ reissueBound > 0 => \E b \in Held : reissueBound + LostEvidence <= b + 1
        /\ Claimed(watcher.cumulative, watcher.ranges) \subseteq Held /\ Claimed(cumulative, ranges) \subseteq Held
        /\ done \subseteq Chunks
    BY DEF ActedOnHeld, ClaimsAreHeld, AckTypeOK
  <2>1. CASE WatcherSnapshots
    <3> DEFINE T == {cumulative} \cup {r[2] : r \in ranges}
               top == Max(T)
    <3>1. T \subseteq 0..N /\ T # {}
      BY <1>0 DEF Spans
    <3>2. top \in T
      <4> HIDE DEF T
      <4> QED BY <1>0, <3>1, GreatestIn
    <3>3. /\ watcher' = [watcher EXCEPT !.pc = "scan", !.cumulative = cumulative, !.ranges = ranges]
          /\ reissueBound' = (IF top > LostEvidence THEN top - LostEvidence ELSE reissueBound)
          /\ done' = done
      BY <2>1 DEF WatcherSnapshots, Highest
    <3>4. ASSUME top > 0 PROVE top - 1 \in Claimed(cumulative, ranges)
      <4>1. top \in 0..N /\ top - 1 \in Bytes
        BY <1>0, <3>1, <3>2, <3>4 DEF Bytes
      <4>2. CASE top = cumulative
        BY <1>0, <4>1, <4>2 DEF Claimed
      <4>3. CASE top # cumulative
        <5>1. PICK r \in ranges : top = r[2]
          BY <3>2, <4>3
        <5>2. r[1] \in 0..N /\ r[1] < r[2]
          BY <1>0 DEF Spans
        <5> HIDE DEF top
        <5>3. r[1] <= top - 1 /\ top - 1 < r[2]
          BY <1>0, <4>1, <5>1, <5>2
        <5> QED BY <4>1, <5>3 DEF Claimed
      <4> QED BY <4>2, <4>3
    <3>5. top \in 0..N
      BY <3>1, <3>2
    <3> HIDE DEF top, T
    <3>6. watcher' \in Watchers /\ watcher'.cumulative = cumulative /\ watcher'.ranges = ranges
          /\ watcher'.completed = watcher.completed
      BY <1>0, <3>3
    <3>7. CASE top > LostEvidence
      <4>1. top - 1 \in Held /\ reissueBound' = top - LostEvidence /\ reissueBound' + LostEvidence <= (top - 1) + 1
        BY <1>0, <2>0, <3>3, <3>4, <3>5, <3>7
      <4>2. reissueBound' \in 0..N
        BY <1>0, <3>5, <3>7, <4>1
      <4> QED BY <1>0, <2>0, <3>3, <3>6, <4>1, <4>2
    <3>8. CASE ~(top > LostEvidence)
      <4>1. reissueBound' = reissueBound
        BY <3>3, <3>8
      <4> QED BY <1>0, <2>0, <3>3, <3>6, <4>1
    <3> QED BY <3>7, <3>8
  <2>2. CASE WatcherScans
    <3> DEFINE hit == {o \in outstanding : Covered(watcher.cumulative, watcher.ranges, o, EndOf(o))}
    <3>1. /\ watcher' = [pc |-> "complete", cumulative |-> 0, ranges |-> {}, completed |-> hit]
          /\ done' = done /\ reissueBound' = reissueBound
      BY <2>2 DEF WatcherScans
    <3>2. ASSUME NEW o \in hit, o \in Bytes PROVE o \in Held
      <4>1. /\ o \in 0..N /\ o + 1 \in 0..N /\ o < o + 1 /\ o \in o .. (o + 1) - 1
            /\ Covered(watcher.cumulative, watcher.ranges, o, o + 1)
        BY <1>0, <3>2 DEF Bytes
      <4>2. o .. (o + 1) - 1 \subseteq Claimed(watcher.cumulative, watcher.ranges)
        BY <1>0, <4>1, CoveredIsExact
      <4> QED BY <2>0, <4>1, <4>2
    <3>3. Claimed(0, {}) = {}
      BY DEF Claimed, Bytes
    <3>4. hit \subseteq Chunks
      BY <1>0
    <3> HIDE DEF hit
    <3>5. watcher' \in Watchers /\ watcher'.cumulative = 0 /\ watcher'.ranges = {} /\ watcher'.completed = hit
      BY <1>0, <3>1, <3>4
    <3> QED BY <1>0, <2>0, <3>1, <3>2, <3>3, <3>4, <3>5
  <2>3. CASE WatcherCompletes
    <3>1. watcher' = [watcher EXCEPT !.pc = "wait", !.completed = {}] /\ done' = done \cup watcher.completed
          /\ reissueBound' = reissueBound
      BY <2>3 DEF WatcherCompletes
    <3>2. watcher' \in Watchers /\ watcher'.cumulative = watcher.cumulative /\ watcher'.ranges = watcher.ranges
          /\ watcher'.completed = {}
      BY <1>0, <3>1
    <3> QED BY <1>0, <2>0, <3>1, <3>2
  <2>4. CASE WatcherWakes
    <3>1. watcher' = [watcher EXCEPT !.pc = "snapshot"] /\ done' = done /\ reissueBound' = reissueBound
      BY <2>4 DEF WatcherWakes
    <3>2. watcher' \in Watchers /\ watcher'.cumulative = watcher.cumulative /\ watcher'.ranges = watcher.ranges
          /\ watcher'.completed = watcher.completed
      BY <1>0, <3>1
    <3> QED BY <1>0, <2>0, <3>1, <3>2
  <2> QED BY <2>1, <2>2, <2>3, <2>4 DEF WatcherStep
<1>4. AckTypeOK'
  BY <1>1, <1>3 DEF AckTypeOK, receiver, links
<1>5. ClaimsAreHeld'
  BY <1>1, <1>2, <1>3 DEF ClaimsAreHeld, receiver, links
<1>6. HeldWasSent' /\ RangesAreApart' /\ ~rejected'
  BY <1>1 DEF HeldWasSent, RangesAreApart, receiver, links
<1>7. ActedOnHeld'
  BY <1>2, <1>3 DEF ActedOnHeld
<1> QED BY <1>4, <1>5, <1>6, <1>7
-----------------------------------------------------------------------------
\* A report of the receiver is believed, and what it adds is held.
LEMMA ReportKeeps == ASSUME AckIInv, NEW a \in acks, ReceiveACK(a) PROVE AckIInv'
<1> USE DEF AckIInv
<1>0. /\ N \in Nat /\ highestSent \in 0..N /\ next \in 0..N /\ cumulative \in 0..N
      /\ a.sequence \in 0..N /\ a.ranges \subseteq Spans /\ buffered \subseteq Bytes
  BY NumbersTyped DEF AckTypeOK
<1>1. /\ a.sequence <= next /\ Of(a.ranges) \subseteq Held
      /\ \A r \in a.ranges : a.sequence <= r[1]
  BY DEF ClaimsAreHeld
<1>2. \A b \in Held : b < highestSent
  BY <1>0 DEF Held, HeldWasSent, Bytes
<1>3. ASSUME NEW r \in a.ranges PROVE ~(r[2] > highestSent) /\ ~(r[1] < a.sequence)
  <2>1. r[1] \in 0..N /\ r[2] \in 0..N /\ r[1] < r[2]
    BY <1>0 DEF Spans
  <2>2. r[2] - 1 \in Bytes /\ r[1] <= r[2] - 1 /\ r[2] - 1 < r[2]
    BY <1>0, <2>1 DEF Bytes
  <2>3. r[2] - 1 < highestSent
    BY <1>1, <1>2, <2>2 DEF Of
  <2> QED BY <1>0, <1>1, <2>1, <2>3
<1>4. ~(a.sequence > highestSent)
  BY <1>0, <1>1 DEF HeldWasSent
<1>5. rejected' = FALSE
  BY <1>3, <1>4 DEF ReceiveACK, AckTypeOK
<1>6. /\ cumulative' \in cumulative..N /\ ranges' \subseteq Spans
      /\ Apart(ranges') /\ \A r \in ranges' : r[1] > cumulative'
      /\ Claimed(cumulative', ranges')
           \subseteq Claimed(cumulative, ranges) \cup {b \in Bytes : b < a.sequence} \cup Of(a.ranges)
  BY <1>5, ReportTaken
<1>7. /\ UNCHANGED <<highestSent, outstanding, done, puller, watcher, dispatches, reissueBound, data, deaths,
                     next, buffered, pendingRanges, ackSequence, gap, repeat, wake, loop>>
      /\ acks' \subseteq acks /\ changed' \in BOOLEAN
  BY DEF ReceiveACK, receiver, AckTypeOK
<1>8. Held' = Held
  BY <1>7 DEF Held
<1>9. Claimed(cumulative', ranges') \subseteq Held
  <2>1. {b \in Bytes : b < a.sequence} \subseteq Held
    BY <1>0, <1>1 DEF Held, Bytes
  <2> QED BY <1>1, <1>6, <2>1 DEF ClaimsAreHeld
<1>10. AckTypeOK'
  <2>1. cumulative' \in 0..N
    BY <1>0, <1>6
  <2> QED BY <1>5, <1>6, <1>7, <2>1 DEF AckTypeOK
<1>11. ClaimsAreHeld' /\ HeldWasSent' /\ RangesAreApart' /\ ActedOnHeld'
  BY <1>6, <1>7, <1>8, <1>9 DEF ClaimsAreHeld, HeldWasSent, RangesAreApart, ActedOnHeld
<1> QED BY <1>5, <1>10, <1>11

\* What arrives is held from then on.
LEMMA ArrivalKeeps == ASSUME AckIInv, NEW o \in data, ReceiveData(o) PROVE AckIInv'
<1> USE DEF AckIInv
<1>0. /\ N \in Nat /\ highestSent \in 0..N /\ next \in 0..N /\ loop.sequence \in 0..N /\ loop.sent \in 0..N
      /\ \A a \in acks : a.sequence \in 0..N
  BY NumbersTyped DEF AckTypeOK
<1>1. /\ next' \in next..N /\ buffered' \subseteq Bytes /\ Held' = Held \cup {o}
      /\ ackSequence' = next' /\ pendingRanges' \subseteq Spans /\ Of(pendingRanges') \subseteq Held'
      /\ next' <= highestSent /\ \A b \in buffered' : next' < b /\ b < highestSent
  BY DataTaken
<1>2. /\ UNCHANGED <<loop, acks, deaths, highestSent, cumulative, ranges, changed, outstanding, done, puller,
                     watcher, dispatches, reissueBound, rejected>>
      /\ data' \subseteq data /\ gap' \in BOOLEAN /\ repeat' \in BOOLEAN /\ wake' \in BOOLEAN
  BY DEF ReceiveData, sender, AckTypeOK
<1>3. AckTypeOK'
  <2>1. next' \in 0..N
    BY <1>0, <1>1
  <2> QED BY <1>1, <1>2, <2>1 DEF AckTypeOK
<1>4. ClaimsAreHeld'
  BY <1>0, <1>1, <1>2 DEF ClaimsAreHeld
<1>5. HeldWasSent' /\ RangesAreApart'
  BY <1>1, <1>2 DEF HeldWasSent, RangesAreApart
<1>6. ActedOnHeld'
  BY <1>1, <1>2 DEF ActedOnHeld
<1> QED BY <1>2, <1>3, <1>4, <1>5, <1>6

\* What ackLoop writes was held when it was computed; a lane only loses frames.
LEMMA AckLoopKeeps == ASSUME AckIInv, AckLoopStep \/ LoopFails \/ LaneReplaced PROVE AckIInv'
<1> USE DEF AckIInv
<1> DEFINE Loops == [pc: {"waiting", "deciding", "writing"}, sequence: 0..N, sent: 0..N]
<1>0. /\ N \in Nat /\ next \in 0..N /\ loop \in Loops /\ ackSequence \in 0..N /\ pendingRanges \subseteq Spans
      /\ loop.sequence \in 0..N /\ MaxLaneDeaths \in Nat /\ 0 \in 0..N
  BY NumbersTyped, AckPathConstants DEF AckTypeOK
<1>1. /\ UNCHANGED <<next, buffered, ackSequence, highestSent, cumulative, ranges, changed, outstanding, done, puller,
                     watcher, dispatches, reissueBound, rejected>>
      /\ data' \subseteq data /\ gap' \in BOOLEAN /\ repeat' \in BOOLEAN /\ wake' \in BOOLEAN
      /\ deaths' \in 0..MaxLaneDeaths
  <2>1. gap \in BOOLEAN /\ repeat \in BOOLEAN /\ wake \in BOOLEAN /\ deaths \in 0..MaxLaneDeaths
    BY DEF AckTypeOK
  <2>2. CASE LoopWakes \/ LoopDecides \/ LoopWrites
    BY <2>1, <2>2 DEF LoopWakes, LoopDecides, LoopWrites, sender, links
  <2>3. CASE LoopFails \/ LaneReplaced
    <3>1. deaths < MaxLaneDeaths /\ deaths' = deaths + 1
      BY <2>3 DEF LoopFails, LaneReplaced
    <3>2. deaths' \in 0..MaxLaneDeaths
      BY <1>0, <2>1, <3>1
    <3>3. repeat' \in BOOLEAN /\ wake' \in BOOLEAN /\ gap' \in BOOLEAN /\ data' \subseteq data
      BY <2>1, <2>3 DEF LoopFails, LaneReplaced
    <3> QED BY <2>3, <3>2, <3>3 DEF LoopFails, LaneReplaced, sender
  <2> QED BY <2>2, <2>3 DEF AckLoopStep
<1>2. Held' = Held
  BY <1>1 DEF Held
<1>3. /\ ackSequence = next /\ loop.sequence <= next /\ loop.sent <= next /\ Of(pendingRanges) \subseteq Held
      /\ \A a \in acks : /\ a.sequence <= next /\ Of(a.ranges) \subseteq Held
                         /\ \A r \in a.ranges : a.sequence <= r[1]
  BY DEF ClaimsAreHeld
<1>4. loop' \in Loops /\ loop'.sequence <= next /\ loop'.sent <= next
  <2>1. CASE loop' = loop
    BY <1>0, <1>3, <2>1
  <2>2. CASE LoopWakes
    <3>1. loop' = [loop EXCEPT !.pc = "deciding"]
      BY <2>2 DEF LoopWakes
    <3> QED BY <1>0, <1>3, <3>1
  <2>3. CASE LoopDecides
    <3>1. loop' = [loop EXCEPT !.pc = "waiting"] \/ loop' = [loop EXCEPT !.pc = "writing", !.sequence = ackSequence]
      BY <2>3 DEF LoopDecides
    <3>2. loop' \in Loops /\ loop'.sequence \in {loop.sequence, ackSequence} /\ loop'.sent = loop.sent
      BY <1>0, <3>1
    <3> QED BY <1>0, <1>3, <3>2
  <2>4. CASE LoopWrites
    <3>1. \E s \in {"waiting", "deciding"} : loop' = [loop EXCEPT !.pc = s, !.sequence = 0, !.sent = loop.sequence]
      BY <2>4 DEF LoopWrites
    <3>2. loop' \in Loops /\ loop'.sequence = 0 /\ loop'.sent = loop.sequence
      BY <1>0, <3>1
    <3> QED BY <1>0, <1>3, <3>2
  <2>5. CASE LoopFails
    <3>1. loop' = [loop EXCEPT !.pc = "deciding", !.sequence = 0]
      BY <2>5 DEF LoopFails
    <3>2. loop' \in Loops /\ loop'.sequence = 0 /\ loop'.sent = loop.sent
      BY <1>0, <3>1
    <3> QED BY <1>0, <1>3, <3>2
  <2> QED BY <2>1, <2>2, <2>3, <2>4, <2>5 DEF AckLoopStep, LaneReplaced
<1>5. pendingRanges' \subseteq pendingRanges
  BY DEF AckLoopStep, LoopWakes, LoopDecides, LoopWrites, LoopFails, LaneReplaced, Acknowledgement, Taken
<1>6. Of(pendingRanges') \subseteq Held
  BY <1>3, <1>5 DEF Of
<1>7. ASSUME NEW a \in acks'
      PROVE  /\ a \in [sequence: 0..N, ranges: SUBSET Spans] /\ a.sequence <= next /\ Of(a.ranges) \subseteq Held
             /\ \A r \in a.ranges : a.sequence <= r[1]
  <2>1. CASE a \in acks
    BY <1>3, <2>1 DEF AckTypeOK
  <2>2. CASE a \notin acks
    <3>1. a = [sequence |-> loop.sequence, ranges |-> Taken(pendingRanges, loop.sequence)]
      BY <2>2 DEF AckLoopStep, LoopWakes, LoopDecides, LoopWrites, LoopFails, LaneReplaced, links, Acknowledgement
    <3>2. Taken(pendingRanges, loop.sequence) \subseteq pendingRanges
          /\ \A r \in Taken(pendingRanges, loop.sequence) : r[1] >= loop.sequence /\ r[1] \in 0..N
      BY <1>0 DEF Taken, Spans
    <3>3. Of(Taken(pendingRanges, loop.sequence)) \subseteq Held
      BY <1>3, <3>2 DEF Of
    <3> QED BY <1>0, <1>3, <3>1, <3>2, <3>3
  <2> QED BY <2>1, <2>2
<1>8. AckTypeOK'
  BY <1>0, <1>1, <1>4, <1>5, <1>7 DEF AckTypeOK
<1>9. ClaimsAreHeld'
  BY <1>1, <1>2, <1>3, <1>4, <1>6, <1>7 DEF ClaimsAreHeld
<1>10. HeldWasSent' /\ RangesAreApart' /\ ActedOnHeld' /\ ~rejected'
  BY <1>1, <1>2 DEF HeldWasSent, RangesAreApart, ActedOnHeld
<1> QED BY <1>8, <1>9, <1>10
-----------------------------------------------------------------------------
LEMMA AckStepKeeps == ASSUME AckIInv, [AckNext]_ackVars PROVE AckIInv'
<1>1. CASE UNCHANGED ackVars
  <2>1. Held' = Held
    BY <1>1 DEF ackVars, receiver, Held
  <2> QED BY <1>1, <2>1 DEF AckIInv, AckTypeOK, ClaimsAreHeld, HeldWasSent, RangesAreApart, ActedOnHeld,
                            ackVars, sender, receiver, links
<1>2. CASE AckNext
  <2>1. CASE \E p \in Pullers : PullerStep(p)
    BY <2>1, SenderKeeps
  <2>2. CASE WatcherStep
    BY <2>2, WatcherKeeps
  <2>3. CASE AckLoopStep \/ LoopFails \/ LaneReplaced
    BY <2>3, AckLoopKeeps
  <2>4. CASE \E a \in acks : ReceiveACK(a)
    BY <2>4, ReportKeeps
  <2>5. CASE \E o \in data : ReceiveData(o)
    BY <2>5, ArrivalKeeps
  <2>6. CASE Quiet
    BY <1>1, <2>6 DEF Quiet
  <2> QED BY <1>2, <2>1, <2>2, <2>3, <2>4, <2>5, <2>6 DEF AckNext
<1> QED BY <1>1, <1>2

LEMMA AckIInvIsEnough == ASSUME AckIInv PROVE AckInv
<1>1. AckTypeOK /\ ~rejected /\ CompletedIsHeld
  BY DEF AckIInv, ActedOnHeld, CompletedIsHeld
<1>2. TrackerIsExact
  <2>1. cumulative \in 0..N /\ ranges \subseteq Spans
    BY <1>1 DEF AckTypeOK
  <2>2. \A start \in 0..N, end \in 0..N : start < end =>
          (Covered(cumulative, ranges, start, end) <=> start .. end - 1 \subseteq Claimed(cumulative, ranges))
    BY <2>1, CoveredIsExact
  <2> QED BY <2>2 DEF AckIInv, ClaimsAreHeld, RangesAreApart, Apart, TrackerIsExact
<1> QED BY <1>1, <1>2 DEF AckInv, TrackerInv, OwnAcksAccepted

LEMMA AckSafe == AckSpec => []AckIInv
<1>1. AckInit => AckIInv
  BY AckInitHolds
<1>2. AckIInv /\ [AckNext]_ackVars => AckIInv'
  BY AckStepKeeps
<1> QED BY <1>1, <1>2, PTL DEF AckSpec

\* What the sender believes of the peer is true, the peer's reports are believed, and what
\* they complete is held (acktrack.go:80, mpflow.go:2732): for every stream, number of
\* pullers, limit on reported ranges and order of the two paths.
THEOREM SenderKnowsWhatIsHeld == AckSpec => []AckInv
<1>1. AckIInv => AckInv
  BY AckIInvIsEnough
<1> QED BY <1>1, AckSafe, PTL

-----------------------------------------------------------------------------
(* Nothing is forgotten *)

\* The tracker claims the chunk at o; an empty one is always claimed.
Known(o) == o \in Bytes => o \in Claimed(cumulative, ranges)
KnownToWatcher(o) == o \in Bytes => o \in Claimed(watcher.cumulative, watcher.ranges)
TrackedBySomeone(o) == \E p \in Pullers : puller[p].pc = "tracked" /\ puller[p].off = o

\* A cursor the sender has not heard of will be told, or is on its way.
CursorIsDue ==
  cumulative < next /\ (\A a \in acks : a.sequence # next) =>
    /\ wake \/ loop.pc # "waiting"
    /\ loop.sent < next \/ repeat \/ loop.pc = "writing"

\* A chunk the sender may complete is one somebody will still look at.
ChunksAreDue ==
  \A o \in outstanding : Known(o) =>
    \/ changed \/ watcher.pc = "snapshot"
    \/ watcher.pc = "scan" /\ KnownToWatcher(o)
    \/ TrackedBySomeone(o)

LEMMA CumulativeIsReached == ASSUME AckIInv PROVE cumulative <= next
<1>1. N \in Nat /\ cumulative \in 0..N /\ next \in 0..N /\ buffered \subseteq Bytes
  BY NumbersTyped DEF AckIInv, AckTypeOK
<1> SUFFICES ASSUME next < cumulative PROVE FALSE
  BY <1>1
<1>2. next \in Bytes
  BY <1>1 DEF Bytes
<1>3. next \in Held
  BY <1>2 DEF AckIInv, ClaimsAreHeld, Claimed
<1> QED BY <1>1, <1>3 DEF Held, AckIInv, HeldWasSent

LEMMA CursorStaysDue ==
  ASSUME AckIInv, CursorIsDue, [AckNext]_ackVars PROVE CursorIsDue'
<1>0. /\ next \in 0..N /\ cumulative \in 0..N /\ loop.sent \in 0..N /\ loop.sequence \in 0..N /\ ackSequence = next
      /\ loop.sent <= next /\ loop.sequence <= next /\ N \in Nat
      /\ loop \in [pc: {"waiting", "deciding", "writing"}, sequence: 0..N, sent: 0..N]
      /\ wake \in BOOLEAN /\ repeat \in BOOLEAN
  BY NumbersTyped DEF AckIInv, AckTypeOK, ClaimsAreHeld
<1> SUFFICES ASSUME cumulative' < next', \A a \in acks' : a.sequence # next'
             PROVE  /\ wake' \/ loop'.pc # "waiting"
                    /\ loop'.sent < next' \/ repeat' \/ loop'.pc = "writing"
  BY DEF CursorIsDue
<1>1. CASE UNCHANGED <<next, wake, loop, repeat, acks, cumulative>>
  BY <1>1 DEF CursorIsDue
<1>2. CASE LoopWakes
  BY <1>0, <1>2 DEF LoopWakes, CursorIsDue, sender, links
<1>3. CASE LoopDecides
  <2>1. (loop.sent < next \/ repeat) /\ ackSequence = next
    BY <1>0, <1>3 DEF LoopDecides, CursorIsDue, sender, links
  <2>2. loop' = [loop EXCEPT !.pc = "writing", !.sequence = ackSequence]
    BY <1>0, <1>3, <2>1 DEF LoopDecides
  <2> QED BY <1>0, <2>2
<1>4. CASE LoopWrites
  <2>1. loop.sequence # next
    <3>1. Acknowledgement(loop.sequence) \in acks' /\ next' = next
      BY <1>4 DEF LoopWrites
    <3>2. Acknowledgement(loop.sequence).sequence = loop.sequence
      BY DEF Acknowledgement
    <3> QED BY <3>1, <3>2
  <2>2. ~(ackSequence <= loop.sequence) /\ loop.sequence < next
    BY <1>0, <2>1
  <2>3. loop' = [loop EXCEPT !.pc = "deciding", !.sequence = 0, !.sent = loop.sequence] /\ next' = next
    BY <1>4, <2>2 DEF LoopWrites
  <2>4. loop'.pc = "deciding" /\ loop'.sent = loop.sequence
    BY <1>0, <2>3
  <2> QED BY <2>2, <2>3, <2>4
<1>5. CASE LoopFails
  <2>1. loop'.pc = "deciding"
    BY <1>0, <1>5 DEF LoopFails
  <2> QED BY <1>5, <2>1 DEF LoopFails
<1>6. CASE LaneReplaced
  <2>1. next > 0 /\ ackSequence > 0
    BY <1>0, <1>6 DEF LaneReplaced, sender
  <2> QED BY <1>6, <2>1 DEF LaneReplaced
<1>7. CASE \E a \in acks : ReceiveACK(a)
  <2>1. PICK a \in acks : ReceiveACK(a)
    BY <1>7
  <2>2. UNCHANGED <<next, wake, loop, repeat>> /\ acks' = acks \ {a}
    BY <2>1 DEF ReceiveACK, receiver
  <2>3. a.sequence <= cumulative' /\ cumulative' \in cumulative..N /\ a.sequence \in 0..N
    <3>1. AckIInv'
      BY <2>1, ReportKeeps
    <3>2. rejected' = FALSE
      BY <3>1 DEF AckIInv, AckTypeOK
    <3> QED BY <2>1, <3>2, ReportTaken DEF AckIInv, AckTypeOK
  <2>4. a.sequence # next /\ cumulative < next
    BY <1>0, <2>2, <2>3
  <2> QED BY <2>2, <2>4 DEF CursorIsDue
<1>8. CASE \E o \in data : ReceiveData(o)
  <2>1. PICK o \in data : ReceiveData(o)
    BY <1>8
  <2>2. next' \in next..N /\ (next < next' => wake')
    BY <2>1, DataTaken DEF AckIInv
  <2>3. UNCHANGED <<loop, acks, cumulative>> /\ (repeat => repeat') /\ (wake => wake')
    BY <2>1 DEF ReceiveData, sender
  <2>4. CASE next' = next
    BY <2>3, <2>4 DEF CursorIsDue
  <2>5. CASE next' # next
    <3>1. next < next' /\ loop.sent < next'
      BY <1>0, <2>2, <2>5
    <3> QED BY <2>2, <2>3, <3>1
  <2> QED BY <2>4, <2>5
<1>9. CASE (\E p \in Pullers : PullerStep(p)) \/ WatcherStep \/ Quiet
  BY <1>1, <1>9 DEF PullerStep, NoteSent, Enqueue, TrackChunk, Reconcile, WatcherStep, WatcherSnapshots,
                    WatcherScans, WatcherCompletes, WatcherWakes, Quiet, receiver, links, ackVars, sender
<1>10. CASE UNCHANGED ackVars
  BY <1>1, <1>10 DEF ackVars, sender, receiver, links
<1> QED BY <1>2, <1>3, <1>4, <1>5, <1>6, <1>7, <1>8, <1>9, <1>10 DEF AckNext, AckLoopStep

\* What a test of one chunk answers.
LEMMA CoveredOfChunk ==
  ASSUME NEW c \in 0..N, NEW R, R \subseteq Spans, NEW o \in Chunks
  PROVE  Covered(c, R, o, EndOf(o)) <=> (o \in Bytes => o \in Claimed(c, R))
<1>0. N \in Nat
  BY AckPathConstants
<1>1. CASE o \in Bytes
  <2>1. EndOf(o) = o + 1 /\ o \in 0..N /\ o + 1 \in 0..N /\ o < o + 1 /\ o .. (o + 1) - 1 = {o}
    BY <1>0, <1>1 DEF Bytes, EndOf
  <2>2. Covered(c, R, o, o + 1) <=> o .. (o + 1) - 1 \subseteq Claimed(c, R)
    BY <2>1, CoveredIsExact
  <2> QED BY <1>1, <2>1, <2>2
<1>2. CASE o \notin Bytes
  <2>1. o = N /\ EndOf(o) = o /\ o <= o
    BY <1>0, <1>2 DEF Chunks, EndOf
  <2> QED BY <1>2, <2>1 DEF Covered
<1> QED BY <1>1, <1>2

LEMMA ChunksStayDue ==
  ASSUME AckIInv, ChunksAreDue, [AckNext]_ackVars PROVE ChunksAreDue'
<1>0. /\ cumulative \in 0..N /\ ranges \subseteq Spans /\ outstanding \subseteq Chunks /\ changed \in BOOLEAN
      /\ watcher.cumulative \in 0..N /\ watcher.ranges \subseteq Spans
      /\ puller \in [Pullers -> [pc: {"idle", "noted", "queued", "tracked"}, off: Chunks]]
      /\ watcher \in [pc: {"snapshot", "scan", "complete", "wait"},
                      cumulative: 0..N, ranges: SUBSET Spans, completed: SUBSET Chunks]
  BY NumbersTyped DEF AckIInv, AckTypeOK
<1> SUFFICES ASSUME NEW o \in outstanding', Known(o)'
             PROVE  \/ changed' \/ watcher'.pc = "snapshot"
                    \/ watcher'.pc = "scan" /\ KnownToWatcher(o)'
                    \/ TrackedBySomeone(o)'
  BY DEF ChunksAreDue
<1>1. CASE UNCHANGED <<outstanding, cumulative, ranges, changed, watcher, puller>>
  BY <1>1 DEF ChunksAreDue, Known, KnownToWatcher, TrackedBySomeone
<1>2. CASE \E p \in Pullers : NoteSent(p) \/ Enqueue(p) \/ TrackChunk(p)
  <2>1. PICK p \in Pullers : NoteSent(p) \/ Enqueue(p) \/ TrackChunk(p)
    BY <1>2
  <2>2. UNCHANGED <<cumulative, ranges, changed, watcher>> /\ puller[p].pc # "tracked"
    BY <2>1 DEF NoteSent, Enqueue, TrackChunk
  <2>3. ASSUME NEW q \in Pullers, puller[q].pc = "tracked" PROVE puller'[q] = puller[q]
    BY <1>0, <2>1, <2>2, <2>3 DEF NoteSent, Enqueue, TrackChunk
  <2>4. CASE o \in outstanding
    <3>1. TrackedBySomeone(o) => TrackedBySomeone(o)'
      BY <2>3 DEF TrackedBySomeone
    <3> QED BY <2>2, <2>4, <3>1 DEF ChunksAreDue, Known, KnownToWatcher
  <2>5. CASE o \notin outstanding
    <3>1. o = puller[p].off /\ puller' = [puller EXCEPT ![p] = [puller[p] EXCEPT !.pc = "tracked"]]
      BY <1>0, <2>1, <2>5 DEF NoteSent, Enqueue, TrackChunk
    <3>2. puller'[p].pc = "tracked" /\ puller'[p].off = o
      BY <1>0, <3>1
    <3> QED BY <3>2 DEF TrackedBySomeone
  <2> QED BY <2>4, <2>5
<1>3. CASE \E p \in Pullers : Reconcile(p)
  <2>1. PICK p \in Pullers : Reconcile(p)
    BY <1>3
  <2>2. /\ UNCHANGED <<outstanding, cumulative, ranges, watcher>> /\ puller' = [puller EXCEPT ![p] = Idle]
        /\ changed' = (changed \/ Covered(cumulative, ranges, puller[p].off, EndOf(puller[p].off)))
    BY <2>1 DEF Reconcile
  <2>3. CASE puller[p].off = o
    <3>1. Known(o) /\ o \in Chunks
      BY <1>0, <2>2 DEF Known
    <3>2. Covered(cumulative, ranges, o, EndOf(o))
      BY <1>0, <3>1, CoveredOfChunk DEF Known
    <3> QED BY <1>0, <2>2, <2>3, <3>2
  <2>4. CASE puller[p].off # o
    <3>1. TrackedBySomeone(o) => TrackedBySomeone(o)'
      BY <1>0, <2>2, <2>4 DEF TrackedBySomeone
    <3>2. changed => changed'
      BY <1>0, <2>2
    <3> QED BY <2>2, <3>1, <3>2 DEF ChunksAreDue, Known, KnownToWatcher
  <2> QED BY <2>3, <2>4
<1>4. CASE WatcherSnapshots
  <2>1. watcher' = [watcher EXCEPT !.pc = "scan", !.cumulative = cumulative, !.ranges = ranges]
        /\ cumulative' = cumulative /\ ranges' = ranges
    BY <1>4 DEF WatcherSnapshots
  <2>2. watcher'.pc = "scan" /\ watcher'.cumulative = cumulative /\ watcher'.ranges = ranges
    BY <1>0, <2>1
  <2> QED BY <2>1, <2>2 DEF Known, KnownToWatcher
<1>5. CASE WatcherScans
  <2>1. /\ o \in outstanding /\ ~Covered(watcher.cumulative, watcher.ranges, o, EndOf(o))
        /\ UNCHANGED <<cumulative, ranges, changed, puller>> /\ watcher.pc = "scan"
    BY <1>5 DEF WatcherScans
  <2>2. ~KnownToWatcher(o)
    BY <1>0, <2>1, CoveredOfChunk DEF KnownToWatcher
  <2>3. changed \/ TrackedBySomeone(o)
    BY <2>1, <2>2 DEF ChunksAreDue, Known
  <2> QED BY <2>1, <2>3 DEF TrackedBySomeone
<1>6. CASE WatcherCompletes
  BY <1>6 DEF WatcherCompletes, ChunksAreDue, Known, TrackedBySomeone
<1>7. CASE WatcherWakes
  <2>1. watcher'.pc = "snapshot"
    BY <1>0, <1>7 DEF WatcherWakes
  <2> QED BY <2>1
<1>8. CASE \E a \in acks : ReceiveACK(a)
  <2>1. PICK a \in acks : ReceiveACK(a)
    BY <1>8
  <2>2. UNCHANGED <<outstanding, puller, watcher>>
    BY <2>1 DEF ReceiveACK
  <2>3. rejected' = FALSE
    <3>1. AckIInv'
      BY <2>1, ReportKeeps
    <3> QED BY <3>1 DEF AckIInv, AckTypeOK
  <2>4. ~changed' => cumulative' = cumulative /\ ranges' = ranges /\ ~changed
    BY <2>1, <2>3, ReportTaken DEF AckIInv
  <2> QED BY <2>2, <2>4 DEF ChunksAreDue, Known, KnownToWatcher, TrackedBySomeone
<1>9. CASE AckLoopStep \/ LoopFails \/ LaneReplaced \/ Quiet \/ (\E c \in data : ReceiveData(c))
  BY <1>1, <1>9 DEF AckLoopStep, LoopWakes, LoopDecides, LoopWrites, LoopFails, LaneReplaced, Quiet, ReceiveData,
                    ackVars, sender
<1>10. CASE UNCHANGED ackVars
  BY <1>1, <1>10 DEF ackVars, sender
<1> QED BY <1>2, <1>3, <1>4, <1>5, <1>6, <1>7, <1>8, <1>9, <1>10 DEF AckNext, PullerStep, WatcherStep

\* When everybody waits, the sender knows the cursor and has completed every chunk below
\* it: no coalesced wake-up, lost acknowledgement or late record strands one
\* (mpflow.go:2487 and 2732, stripedsend.go:369).
THEOREM NothingIsForgotten == AckSpec => []NothingLeftAtRest
<1> DEFINE Due == AckIInv /\ CursorIsDue /\ ChunksAreDue
<1>1. AckInit => Due
  <2>1. AckInit => CursorIsDue
    BY DEF AckInit, CursorIsDue
  <2> QED BY <2>1, AckInitHolds DEF AckInit, ChunksAreDue
<1>2. Due /\ [AckNext]_ackVars => Due'
  BY AckStepKeeps, CursorStaysDue, ChunksStayDue
<1>3. Due => NothingLeftAtRest
  <2> SUFFICES ASSUME Due, AtRest
               PROVE  cumulative = next /\ \A o \in outstanding : o \in Bytes /\ o >= next
    BY DEF NothingLeftAtRest
  <2>1. cumulative \in 0..N /\ next \in 0..N /\ N \in Nat
    BY NumbersTyped DEF AckIInv
  <2>2. cumulative = next
    <3>1. ~(cumulative < next)
      BY DEF AtRest, CursorIsDue
    <3> QED BY <2>1, <3>1, CumulativeIsReached
  <2>3. ASSUME NEW o \in outstanding PROVE o \in Bytes /\ o >= next
    <3>1. ~Known(o)
      BY DEF AtRest, ChunksAreDue, TrackedBySomeone
    <3>2. o \in Bytes /\ ~(o < cumulative)
      BY <3>1 DEF Known, Claimed
    <3> QED BY <2>1, <2>2, <3>2 DEF Bytes
  <2> QED BY <2>2, <2>3
<1> QED BY <1>1, <1>2, <1>3, PTL DEF AckSpec
=============================================================================
