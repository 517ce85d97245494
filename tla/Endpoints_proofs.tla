--------------------------- MODULE Endpoints_proofs ---------------------------
(***************************************************************************)
(* The two pools of a client, the joining of a lane and the demultiplexer of  *)
(* a connection's datagrams, each for any number of flows, lanes, dials,     *)
(* races and frames.                                                        *)
(***************************************************************************)
EXTENDS ControlPool, BulkPool, LaneJoin, BulkDemux, SumTheorems, FiniteSetTheorems, TLAPS

-----------------------------------------------------------------------------
(* The control pool.  No interleaving of dials, failures, resets and closes   *)
(* leaks a control connection or hands a flow one of an old path.             *)
(*                                                                         *)
(* ControlInv is inductive.  Alone, neither property is: a late dial that is *)
(* published over a generation would forget it, so the pool must never hold  *)
(* a generation and a dial in flight together (OneAtATime); and a flow gets  *)
(* what the pool holds, so that must itself be newer than the last reset.    *)
(* The count of streams is exact for any number of flows: the ones that have *)
(* a stream are finitely many in every state, whether the flows are or not.  *)

\* The pool begins empty: nothing can be forgotten or inherited.
THEOREM ControlInitInv == ControlInit => ControlInv
<1> SUFFICES ASSUME ControlInit PROVE ControlInv
  OBVIOUS
<1> USE ControlConstants DEF ControlInit, Unopened, Nil, Epochs
<1>1. ControlTypeOK
  BY DEF ControlTypeOK
<1>2. NoConnectionForgotten
  BY DEF NoConnectionForgotten, IsOpen
<1>3. OneAtATime
  BY DEF OneAtATime
<1>4. Newer
  BY DEF Newer
<1> QED
  BY <1>1, <1>2, <1>3, <1>4 DEF ControlInv

\* Every step of a flow on its way to a stream preserves ControlInv.
LEMMA AcquireStep ==
  ASSUME ControlInv, NEW f \in ControlFlows,
         ControlBegin(f) \/ ControlReuse(f) \/ ControlAwait(f) \/ ControlWake(f) \/ ControlGivesUp(f)
  PROVE  ControlInv'
<1> USE ControlConstants DEF ControlInv, ControlTypeOK, NoConnectionForgotten, OneAtATime,
          Newer, Unopened, Nil, Epochs, IsOpen
<1>1. CASE ControlBegin(f)
  BY <1>1 DEF ControlBegin
<1>2. CASE ControlReuse(f)
  BY <1>2 DEF ControlReuse, Goes
<1>3. CASE ControlAwait(f)
  <2>1. CASE dial # Nil
    <3>1. /\ Goes(f, "waiting", dial)
          /\ UNCHANGED <<dial, epoch, attempt, control, streams, idler, stoppedAt, resetAt>>
      BY <1>3, <2>1 DEF ControlAwait
    <3>2. closing' = closing \cup ({generation} \ {Nil}) /\ generation' = Nil
      BY <1>3 DEF ControlAwait
    <3>3. opener' \in [ControlFlows -> [pc: {"idle", "asking", "waiting", "opening", "streaming"},
                                       id: Epochs \cup {Nil}, since: 0 .. ControlMaxEpoch]]
      BY <3>1 DEF Goes
    <3>4. ControlTypeOK' /\ NoConnectionForgotten' /\ OneAtATime'
      BY <3>1, <3>2, <3>3
    <3>5. Newer'
      BY <2>1, <3>1 DEF Goes
    <3> QED BY <3>4, <3>5
  <2>2. CASE dial = Nil
    <3>1. /\ epoch < ControlMaxEpoch
          /\ epoch' = epoch + 1 /\ dial' = epoch + 1
          /\ attempt' = [attempt EXCEPT ![epoch + 1] = "dialing"]
          /\ Goes(f, "waiting", epoch + 1)
          /\ UNCHANGED <<control, streams, idler, stoppedAt, resetAt>>
      BY <1>3, <2>2 DEF ControlAwait
    <3>2. closing' = closing \cup ({generation} \ {Nil}) /\ generation' = Nil
      BY <1>3 DEF ControlAwait
    <3>3. epoch + 1 \in Epochs /\ attempt[epoch + 1] = "none"
      BY <3>1
    <3>4. opener' \in [ControlFlows -> [pc: {"idle", "asking", "waiting", "opening", "streaming"},
                                       id: Epochs \cup {Nil}, since: 0 .. ControlMaxEpoch]]
      BY <3>1, <3>3 DEF Goes
    <3>5. ControlTypeOK'
      BY <3>1, <3>2, <3>3, <3>4
    <3>6. NoConnectionForgotten'
      BY <3>1, <3>2, <3>3
    <3>7. OneAtATime'
      BY <3>1, <3>2, <3>3
    <3>8. Newer'
      BY <3>1, <3>3 DEF Goes
    <3> QED BY <3>5, <3>6, <3>7, <3>8
  <2> QED BY <2>1, <2>2
<1>4. CASE ControlWake(f)
  <2>1. CASE opener' = [opener EXCEPT ![f] = Unopened]
    BY <1>4, <2>1 DEF ControlWake
  <2>2. CASE \E pc \in {"asking", "opening"}, id \in {Nil, opener[f].id} :
               Goes(f, pc, id) /\ (pc = "opening" => id = opener[f].id)
    BY <1>4, <2>2 DEF ControlWake, Goes
  <2> QED BY <1>4, <2>1, <2>2 DEF ControlWake
<1>5. CASE ControlGivesUp(f)
  BY <1>5 DEF ControlGivesUp
<1> QED BY <1>1, <1>2, <1>3, <1>4, <1>5

\* Every step of a dial preserves ControlInv.
LEMMA DialStep ==
  ASSUME ControlInv, NEW a \in Epochs,
         ControlDialed(a) \/ ControlPublish(a) \/ ControlSupersede(a)
  PROVE  ControlInv'
<1> USE ControlConstants DEF ControlInv, ControlTypeOK, NoConnectionForgotten, OneAtATime,
          Newer, Unopened, Nil, Epochs, IsOpen
<1>1. CASE ControlDialed(a)
  BY <1>1 DEF ControlDialed
<1>2. CASE ControlPublish(a)
  BY <1>2 DEF ControlPublish, Current
<1>3. CASE ControlSupersede(a)
  BY <1>3 DEF ControlSupersede, Current
<1> QED BY <1>1, <1>2, <1>3

\* Every step of a flow that has a generation preserves ControlInv.
LEMMA StreamStep ==
  ASSUME ControlInv, NEW f \in ControlFlows,
         ControlOpens(f) \/ ControlOpenFails(f) \/ ControlFailed(f) \/ ControlStreamEnds(f)
  PROVE  ControlInv'
<1> USE ControlConstants DEF ControlInv, ControlTypeOK, NoConnectionForgotten, OneAtATime,
          Newer, Unopened, Nil, Epochs, IsOpen
<1>1. CASE ControlOpens(f)
  BY <1>1 DEF ControlOpens, Goes
<1>2. CASE ControlOpenFails(f)
  <2>1. opener[f].id \in Epochs
    BY <1>2 DEF ControlOpenFails
  <2>2. NoConnectionForgotten'
    BY <1>2 DEF ControlOpenFails, Retired
  <2>3. OneAtATime' /\ Newer'
    BY <1>2 DEF ControlOpenFails, Retired
  <2>4. ControlTypeOK'
    <3>1. /\ generation' \in Epochs \cup {Nil} /\ closing' \subseteq Epochs
          /\ UNCHANGED <<dial, epoch, attempt, control, streams, idler, stoppedAt, resetAt>>
      BY <1>2, <2>1 DEF ControlOpenFails, Retired
    <3>2. opener' \in [ControlFlows -> [pc: {"idle", "asking", "waiting", "opening", "streaming"},
                                       id: Epochs \cup {Nil}, since: 0 .. ControlMaxEpoch]]
      BY <1>2 DEF ControlOpenFails
    <3> QED BY <3>1, <3>2
  <2> QED BY <2>2, <2>3, <2>4
<1>3. CASE ControlFailed(f)
  <2>1. opener[f].id \in Epochs
    BY <1>3 DEF ControlFailed
  <2>2. NoConnectionForgotten'
    BY <1>3 DEF ControlFailed, Retired
  <2>3. OneAtATime' /\ Newer'
    BY <1>3 DEF ControlFailed, Retired
  <2>4. ControlTypeOK'
    BY <1>3, <2>1 DEF ControlFailed, Retired
  <2> QED BY <2>2, <2>3, <2>4
<1>4. CASE ControlStreamEnds(f)
  BY <1>4 DEF ControlStreamEnds, OneLess
<1> QED BY <1>1, <1>2, <1>3, <1>4

\* The idle close, a reset and the closing of a connection preserve ControlInv.
LEMMA ControlStep ==
  ASSUME ControlInv,
         \/ ControlIdleLooks \/ ControlIdleRetires \/ ControlNetworkChanged \/ ControlStop
         \/ \E c \in Epochs : ControlCloses(c) \/ ControlDies(c)
  PROVE  ControlInv'
<1> USE ControlConstants DEF ControlInv, ControlTypeOK, NoConnectionForgotten, OneAtATime,
          Newer, Unopened, Nil, Epochs, IsOpen
<1>1. CASE ControlIdleLooks
  BY <1>1 DEF ControlIdleLooks
<1>2. CASE ControlIdleRetires
  BY <1>2 DEF ControlIdleRetires, Retired
<1>3. CASE ControlNetworkChanged
  BY <1>3 DEF ControlNetworkChanged, ControlReset, Forgets
<1>4. CASE ControlStop
  BY <1>4 DEF ControlStop, ControlReset, Forgets
<1>5. CASE \E c \in Epochs : ControlCloses(c) \/ ControlDies(c)
  <2>1. PICK c \in Epochs : ControlCloses(c) \/ ControlDies(c)  BY <1>5
  <2>2. CASE ControlCloses(c)  BY <2>2 DEF ControlCloses
  <2>3. CASE ControlDies(c)    BY <2>3 DEF ControlDies, Alive
  <2> QED BY <2>1, <2>2, <2>3
<1> QED BY <1>1, <1>2, <1>3, <1>4, <1>5

\* Every step preserves the inductive invariant, and so does a step of another part.
THEOREM ControlInductive == ControlInv /\ [ControlNext]_controlVars => ControlInv'
<1> SUFFICES ASSUME ControlInv, [ControlNext]_controlVars PROVE ControlInv'  OBVIOUS
<1>1. CASE ControlNext
  BY <1>1, AcquireStep, DialStep, StreamStep, ControlStep DEF ControlNext, ControlWork
<1>2. CASE UNCHANGED controlVars
  BY <1>2 DEF controlVars, ControlInv, ControlTypeOK, NoConnectionForgotten, OneAtATime, Newer, IsOpen
<1> QED BY <1>1, <1>2

\* However flows, background dials, failures, resets and closes interleave, the pool has
\* one dial or one generation, newer than the last reset, and owns all it opened.
THEOREM ControlInvariant == ControlSpec => []ControlInv
BY ControlInitInv, ControlInductive, PTL DEF ControlSpec

\* "Keeping ownership in one object": every connection the pool ever makes is its
\* generation, about to be closed, or in the hands of its attempt.
THEOREM ConnectionsAreOwned == ControlSpec => []NoConnectionForgotten
<1>1. ControlInv => NoConnectionForgotten  BY DEF ControlInv
<1> QED BY <1>1, ControlInvariant, PTL

\* No flow that begins after a network change gets a connection dialled before it.
THEOREM PathsAreNotInherited == ControlSpec => []NothingInherited
<1>1. ControlInv => NothingInherited  BY DEF ControlInv, Newer, NothingInherited
<1> QED BY <1>1, ControlInvariant, PTL

\* The rule of OnlyItsOwnGeneration for one step.
OwnGeneration ==
  generation # Nil /\ generation' # generation =>
    \/ ~Alive(generation) \/ resetAt' # resetAt \/ idler = generation
    \/ \E f \in ControlFlows : opener[f].id = generation

\* A flow's step takes a generation out only when it is dead or the flow's own.
LEMMA FlowTakesItsOwn ==
  ASSUME NEW f \in ControlFlows,
         \/ ControlBegin(f) \/ ControlReuse(f) \/ ControlAwait(f) \/ ControlWake(f)
         \/ ControlGivesUp(f) \/ ControlOpens(f) \/ ControlOpenFails(f) \/ ControlFailed(f)
         \/ ControlStreamEnds(f)
  PROVE  OwnGeneration
<1>1. CASE generation' = generation
  BY <1>1 DEF OwnGeneration
<1>2. CASE ControlAwait(f)
  BY <1>2 DEF ControlAwait, OwnGeneration
<1>3. CASE ControlOpenFails(f) \/ ControlFailed(f)
  BY <1>3 DEF ControlOpenFails, ControlFailed, Retired, OwnGeneration
<1>4. CASE ControlBegin(f) \/ ControlReuse(f) \/ ControlWake(f) \/ ControlGivesUp(f)
           \/ ControlOpens(f) \/ ControlStreamEnds(f)
  BY <1>1, <1>4 DEF ControlBegin, ControlReuse, ControlWake, ControlGivesUp, ControlOpens,
       ControlStreamEnds
<1> QED BY <1>2, <1>3, <1>4

\* A dial that is published finds no generation in the pool (OneAtATime).
LEMMA DialTakesNothing ==
  ASSUME ControlInv, NEW a \in Epochs,
         ControlDialed(a) \/ ControlPublish(a) \/ ControlSupersede(a)
  PROVE  OwnGeneration
<1>1. CASE ControlPublish(a)
  BY <1>1 DEF ControlPublish, Current, ControlInv, OneAtATime, OwnGeneration, Nil, Epochs
<1>2. CASE ControlDialed(a) \/ ControlSupersede(a)
  BY <1>2 DEF ControlDialed, ControlSupersede, OwnGeneration
<1> QED BY <1>1, <1>2

\* The idle close retires the generation it looked at; a reset says it is one.
LEMMA PoolTakesItsOwn ==
  ASSUME ControlInv,
         \/ ControlIdleLooks \/ ControlIdleRetires \/ ControlNetworkChanged \/ ControlStop
         \/ \E c \in Epochs : ControlCloses(c) \/ ControlDies(c)
  PROVE  OwnGeneration
<1>1. CASE ControlNetworkChanged \/ ControlStop
  <2>1. resetAt' = epoch + 1  BY <1>1 DEF ControlNetworkChanged, ControlStop, ControlReset
  <2>2. resetAt' # resetAt
    BY <2>1, ControlConstants DEF ControlInv, ControlTypeOK, OneAtATime
  <2> QED BY <2>2 DEF OwnGeneration
<1>2. CASE ControlIdleRetires
  BY <1>2 DEF ControlIdleRetires, Retired, OwnGeneration
<1>3. CASE ControlIdleLooks \/ \E c \in Epochs : ControlCloses(c) \/ ControlDies(c)
  BY <1>3 DEF ControlIdleLooks, ControlCloses, ControlDies, OwnGeneration
<1> QED BY <1>1, <1>2, <1>3

\* "A late failure from an old stream can retire its own generation but can never close
\* the healthy generation which replaced it", in every step of every behaviour.
THEOREM FailuresRetireTheirOwn == ControlSpec => OnlyItsOwnGeneration
<1>1. ControlInv /\ [ControlNext]_controlVars => [OwnGeneration]_controlVars
  BY FlowTakesItsOwn, DialTakesNothing, PoolTakesItsOwn DEF ControlNext, ControlWork
<1>2. OnlyItsOwnGeneration <=> [][OwnGeneration]_controlVars
  BY DEF OnlyItsOwnGeneration, OwnGeneration
<1> QED BY <1>1, <1>2, ControlInitInv, ControlInductive, PTL DEF ControlSpec
Streaming == {f \in ControlFlows : opener[f].pc = "streaming"}

\* What a step does to the flows that have a stream, and to their count.
OneMore(f)  == f \notin Streaming /\ Streaming' = Streaming \cup {f} /\ streams' = streams + 1
OneFewer(f) == f \in Streaming /\ Streaming' = Streaming \ {f} /\ streams' = OneLess(streams)
AsMany      == Streaming' = Streaming /\ streams' = streams

\* A flow that goes anywhere but to a stream, from anywhere but a stream, changes no count.
LEMMA Elsewhere ==
  ASSUME ControlInv, NEW f \in ControlFlows, NEW o, opener[f].pc # "streaming",
         opener' = [opener EXCEPT ![f] = o], o.pc # "streaming", streams' = streams
  PROVE  AsMany
BY DEF Streaming, AsMany, ControlInv, ControlTypeOK

\* Every step of a flow counts its stream once when it opens and once when it ends.
LEMMA FlowsCount ==
  ASSUME ControlInv, NEW f \in ControlFlows,
         \/ ControlBegin(f) \/ ControlReuse(f) \/ ControlAwait(f) \/ ControlWake(f)
         \/ ControlGivesUp(f) \/ ControlOpens(f) \/ ControlOpenFails(f) \/ ControlFailed(f)
         \/ ControlStreamEnds(f)
  PROVE  OneMore(f) \/ OneFewer(f) \/ AsMany
<1>1. CASE ControlOpens(f)
  BY <1>1 DEF ControlOpens, Goes, OneMore, Streaming, ControlInv, ControlTypeOK
<1>2. CASE ControlStreamEnds(f)
  BY <1>2 DEF ControlStreamEnds, OneFewer, Streaming, Unopened, ControlInv, ControlTypeOK
<1>3. CASE ControlFailed(f)
  BY <1>3 DEF ControlFailed, AsMany, Streaming
<1>4. CASE ControlBegin(f) \/ ControlGivesUp(f) \/ ControlOpenFails(f)
  BY <1>4, Elsewhere DEF ControlBegin, ControlGivesUp, ControlOpenFails, Unopened
<1>5. CASE ControlReuse(f)
  <2> DEFINE o == [pc |-> "opening", id |-> generation, since |-> opener[f].since]
  <2>1. opener' = [opener EXCEPT ![f] = o] /\ opener[f].pc = "asking" /\ streams' = streams
    BY <1>5 DEF ControlReuse, Goes
  <2>2. o.pc # "streaming"
    OBVIOUS
  <2> HIDE DEF o
  <2> QED BY <2>1, <2>2, Elsewhere
<1>6. CASE ControlAwait(f)
  BY <1>6, Elsewhere DEF ControlAwait, Goes
<1>7. CASE ControlWake(f)
  BY <1>7, Elsewhere DEF ControlWake, Goes, Unopened
<1> QED BY <1>1, <1>2, <1>3, <1>4, <1>5, <1>6, <1>7

\* The flows with a stream are finitely many, and quicPoolActive counts them.
CountInv == IsFiniteSet(Streaming) /\ streams = Cardinality(Streaming)

\* A count that follows the set it counts stays its cardinality.
LEMMA CountFollows ==
  ASSUME CountInv, NEW f, OneMore(f) \/ OneFewer(f) \/ AsMany
  PROVE  CountInv'
<1>1. Cardinality(Streaming) \in Nat
  BY FS_CardinalityType DEF CountInv
<1>2. CASE OneMore(f)
  BY <1>1, <1>2, FS_AddElement DEF CountInv, OneMore
<1>3. CASE OneFewer(f)
  <2>1. Cardinality(Streaming) # 0
    BY <1>3, FS_EmptySet DEF CountInv, OneFewer
  <2> QED BY <1>1, <1>3, <2>1, FS_RemoveElement DEF CountInv, OneFewer, OneLess
<1>4. CASE AsMany
  BY <1>4 DEF CountInv, AsMany
<1> QED BY <1>2, <1>3, <1>4

\* quicPoolActive is the number of flows that share the control connection, in every
\* interleaving of opens, failures, idle closes and resets.
THEOREM StreamsAreCounted == ControlSpec => []StreamsCounted
<1>1. ControlInit => CountInv
  <2> SUFFICES ASSUME ControlInit PROVE CountInv  OBVIOUS
  <2>1. Streaming = {}
    BY DEF ControlInit, Streaming, Unopened
  <2> QED BY <2>1, FS_EmptySet DEF ControlInit, CountInv
<1>2. ControlInv /\ CountInv /\ [ControlNext]_controlVars => CountInv'
  <2> SUFFICES ASSUME ControlInv, CountInv, [ControlNext]_controlVars PROVE CountInv'  OBVIOUS
  <2>1. CASE \E f \in ControlFlows :
               \/ ControlBegin(f) \/ ControlReuse(f) \/ ControlAwait(f) \/ ControlWake(f)
               \/ ControlGivesUp(f) \/ ControlOpens(f) \/ ControlOpenFails(f)
               \/ ControlFailed(f) \/ ControlStreamEnds(f)
    BY <2>1, FlowsCount, CountFollows
  <2>2. CASE \/ \E a \in Epochs : \/ ControlDialed(a) \/ ControlPublish(a)
                                 \/ ControlSupersede(a) \/ ControlCloses(a) \/ ControlDies(a)
             \/ ControlIdleLooks \/ ControlIdleRetires \/ ControlNetworkChanged \/ ControlStop
    <3>1. UNCHANGED <<opener, streams>>
      BY <2>2 DEF ControlDialed, ControlPublish, ControlSupersede, ControlCloses, ControlDies,
           ControlIdleLooks, ControlIdleRetires, ControlNetworkChanged, ControlStop, ControlReset
    <3> QED BY <3>1, CountFollows DEF AsMany, Streaming
  <2>3. CASE UNCHANGED controlVars
    BY <2>3, CountFollows DEF controlVars, AsMany, Streaming
  <2> QED BY <2>1, <2>2, <2>3 DEF ControlNext, ControlWork
<1>3. CountInv => StreamsCounted
  BY DEF CountInv, StreamsCounted, Streaming
<1> QED BY <1>1, <1>2, <1>3, ControlInvariant, PTL DEF ControlSpec

-----------------------------------------------------------------------------
(* The pool of secondary connections.  That an entry is one lane's at a time  *)
(* cannot be proved alone: a connection just dialled must be in no table       *)
(* (OneHolder), or another lane might reserve it first, and what is pooled     *)
(* must not be about to be closed (Accounted), or closing it would stop the    *)
(* timer of an idle entry.                                                    *)

\* The pool begins empty.
THEOREM BulkInitInv == BulkInit => BulkIInv
<1> SUFFICES ASSUME BulkInit PROVE BulkIInv
  OBVIOUS
<1> USE BulkConstants DEF BulkInit, Conns, NoConn, Resting
<1>1. BulkTypeOK
  BY DEF BulkTypeOK, JoinerTypeOK, Joiners, Stages
<1>2. OneHolder
  BY DEF OneHolder, HeldByStage, HeldByOne, BusyIsHeld, DialedIsNew
<1>3. Accounted
  BY DEF Accounted, OpenAreKept, IdleAreTimed
<1>4. Cardinality(pool) <= BulkMax
  BY FS_EmptySet
<1> QED BY <1>1, <1>2, <1>3, <1>4 DEF BulkIInv

\* Every goroutine stays in one of its stages, with a connection of the pool or none.
LEMMA JoinerStep ==
  ASSUME BulkTypeOK, NEW l \in BulkLanes,
         \/ BulkBegin(l) \/ BulkReuse(l) \/ BulkNone(l) \/ BulkDialed(l) \/ BulkAdmit(l)
         \/ BulkOpens(l) \/ BulkEnds(l) \/ BulkRelease(l)
  PROVE  JoinerTypeOK'
<1> USE DEF BulkTypeOK
<1>1. ASSUME NEW r \in Joiners, joiner' = [joiner EXCEPT ![l] = r]
      PROVE  JoinerTypeOK'
  BY <1>1 DEF JoinerTypeOK
<1>2. Resting \in Joiners
  BY DEF Resting, Joiners, Stages
<1>3. ASSUME NEW pc \in Stages, joiner' = [joiner EXCEPT ![l].pc = pc]
      PROVE  JoinerTypeOK'
  BY <1>3 DEF JoinerTypeOK, Joiners
<1>4. ASSUME NEW pc \in Stages, NEW e \in Conns,
             joiner' = [joiner EXCEPT ![l].pc = pc, ![l].conn = e]
      PROVE  JoinerTypeOK'
  BY <1>4 DEF JoinerTypeOK, Joiners
<1>5. CASE BulkBegin(l) \/ BulkNone(l) \/ BulkOpens(l)
  BY <1>3, <1>5 DEF BulkBegin, BulkNone, BulkOpens, Stages
<1>6. CASE BulkReuse(l)
  <2>1. Free \subseteq Conns /\ "opening" \in Stages
    BY DEF Free, BulkTypeOK, Stages
  <2> QED BY <1>4, <1>6, <2>1 DEF BulkReuse
<1>7. CASE BulkDialed(l)
  <2>1. dialled < BulkDials => dialled + 1 \in Conns
    BY BulkConstants DEF Conns
  <2> QED BY <1>1, <1>2, <1>4, <1>7, <2>1 DEF BulkDialed, Stages
<1>8. CASE BulkAdmit(l)
  BY <1>1, <1>2, <1>3, <1>8 DEF BulkAdmit, Stages
<1>9. CASE BulkEnds(l)
  <2>1. Ends(l) \in Joiners
    BY DEF JoinerTypeOK, Ends, Seen, Joiners, Stages
  <2> QED BY <1>1, <1>9, <2>1 DEF BulkEnds
<1>10. CASE BulkRelease(l)
  BY <1>1, <1>2, <1>10 DEF BulkRelease
<1> QED BY <1>5, <1>6, <1>7, <1>8, <1>9, <1>10

\* The goroutine l is given the connection e: the others keep theirs.
Given(l, s, e) == joiner' = [joiner EXCEPT ![l].pc = s, ![l].conn = e]

LEMMA GivenConn ==
  ASSUME JoinerTypeOK, NEW l \in BulkLanes, NEW e, NEW s, Given(l, s, e)
  PROVE  /\ joiner'[l].pc = s /\ joiner'[l].conn = e
         /\ \A m \in BulkLanes \ {l} : joiner'[m] = joiner[m]
  BY DEF Given, JoinerTypeOK, Joiners

\* Reserving a connection: what one lane takes, no other has.
LEMMA ReservingStep ==
  ASSUME BulkTypeOK, OneHolder, Accounted, NEW l \in BulkLanes,
         BulkBegin(l) \/ BulkReuse(l) \/ BulkNone(l)
  PROVE  (BulkTypeOK /\ OneHolder /\ Accounted)'
<1> USE BulkConstants DEF BulkTypeOK, OneHolder, Conns, NoConn
<1>1. CASE BulkBegin(l)
  <2>1. /\ joiner'[l].pc = "reserving" /\ joiner'[l].conn = joiner[l].conn /\ joiner[l].pc = "idle"
        /\ \A m \in BulkLanes \ {l} : joiner'[m] = joiner[m]
        /\ UNCHANGED <<pool, busy, armed, firing, bulk, dialled, bulkClosing>>
    BY <1>1 DEF BulkBegin, JoinerTypeOK, Joiners
  <2>2. BulkTypeOK' /\ Accounted'
    BY <1>1, <2>1, JoinerStep DEF Accounted, OpenAreKept, IdleAreTimed
  <2>3. OneHolder'
    BY <2>1 DEF HeldByStage, HeldByOne, BusyIsHeld, DialedIsNew
  <2> QED BY <2>2, <2>3
<1>2. CASE BulkReuse(l)
  <2>1. PICK e \in Free : /\ busy' = busy \cup {e} /\ armed' = armed \ (Stale \cup {e})
                          /\ joiner' = [joiner EXCEPT ![l].pc = "opening", ![l].conn = e]
    BY <1>2 DEF BulkReuse
  <2>2. e \in pool /\ e \notin busy /\ e \in Conns
    BY <2>1 DEF Free
  <2>3. /\ joiner'[l].pc = "opening" /\ joiner'[l].conn = e
        /\ \A m \in BulkLanes \ {l} : joiner'[m] = joiner[m]
        /\ joiner[l].pc = "reserving"
    <3>1. joiner[l].pc = "reserving"
      BY <1>2 DEF BulkReuse
    <3>2. Given(l, "opening", e)
      BY <2>1 DEF Given
    <3> QED BY <3>1, <3>2, GivenConn
  <2>0. pool' = pool \ Stale /\ bulk' = Pruned /\ UNCHANGED <<firing, dialled, bulkClosing>>
    BY <1>2 DEF BulkReuse
  <2>4. BulkTypeOK'
    <3>1. JoinerTypeOK'
      BY <1>2, JoinerStep
    <3> QED BY <1>2, <2>0, <2>1, <2>2, <2>3, <3>1 DEF BulkReuse, Pruned, Stale
  <2>5. OneHolder'
    <3>1. \A m \in BulkLanes : joiner[m].conn # e
      BY <2>2 DEF BusyIsHeld, DialedIsNew, JoinerTypeOK, Joiners
    <3>2. HeldByStage' /\ HeldByOne'
      BY <2>2, <2>3, <3>1 DEF HeldByStage, HeldByOne
    <3>3. ASSUME NEW x \in Conns
          PROVE  x \in busy' <=> \E m \in BulkLanes : joiner'[m].conn = x /\ joiner'[m].pc # "dialed"
      <4>1. CASE x = e
        BY <2>1, <2>3, <4>1
      <4>2. CASE x # e
        <5>1. joiner[l].conn # x
          BY <2>3 DEF HeldByStage
        <5>2. \A m \in BulkLanes : joiner'[m].conn = x /\ joiner'[m].pc # "dialed"
                                 <=> joiner[m].conn = x /\ joiner[m].pc # "dialed"
          BY <2>3, <4>2, <5>1
        <5>3. x \in busy' <=> x \in busy
          BY <2>1, <4>2
        <5>4. x \in busy <=> \E m \in BulkLanes : joiner[m].conn = x /\ joiner[m].pc # "dialed"
          BY DEF BusyIsHeld
        <5> QED BY <5>2, <5>3, <5>4
      <4> QED BY <4>1, <4>2
    <3>4. DialedIsNew'
      BY <2>0, <2>2, <2>3 DEF DialedIsNew, Pruned, Stale
    <3> QED BY <3>2, <3>3, <3>4 DEF BusyIsHeld
  <2>6. Accounted'
    <3>1. OpenAreKept'
      BY <2>0, <2>3 DEF Accounted, OpenAreKept, Pruned, Stale, BulkAlive
    <3>2. IdleAreTimed'
      BY <1>2, <2>0, <2>1, <2>2, <2>3 DEF Accounted, IdleAreTimed, BulkReuse, Pruned, Stale, BulkAlive
    <3>3. (pool \cap bulkClosing = {})'
      BY <1>2, <2>0, <2>1, <2>2, <2>3 DEF Accounted, DialedIsNew, BulkReuse, Pruned, Stale, BulkAlive
    <3> QED BY <3>1, <3>2, <3>3 DEF Accounted
  <2> QED BY <2>4, <2>5, <2>6
<1>3. CASE BulkNone(l)
  <2>1. /\ joiner'[l].pc \in {"idle", "dialing"} /\ joiner'[l].conn = joiner[l].conn
        /\ \A m \in BulkLanes \ {l} : joiner'[m] = joiner[m]
        /\ joiner[l].pc = "reserving" /\ pool' = pool \ Stale /\ armed' = armed \ Stale
        /\ bulk' = Pruned /\ UNCHANGED <<busy, firing, dialled, bulkClosing>>
    BY <1>3 DEF BulkNone, JoinerTypeOK, Joiners
  <2>2. BulkTypeOK'
    <3>1. JoinerTypeOK'
      BY <1>3, JoinerStep
    <3> QED BY <1>3, <2>1, <3>1 DEF BulkNone, Pruned, Stale
  <2>3. OneHolder'
    <3>1. HeldByStage'
      BY <2>1 DEF HeldByStage, Stale
    <3>2. HeldByOne'
      BY <2>1 DEF HeldByOne, HeldByStage, Stale
    <3>3. BusyIsHeld'
      BY <2>1 DEF BusyIsHeld, HeldByOne, HeldByStage, Stale
    <3>4. DialedIsNew'
      BY <2>1 DEF DialedIsNew, Pruned, Stale
    <3> QED BY <3>1, <3>2, <3>3, <3>4
  <2>4. Accounted'
    <3>1. OpenAreKept'
      BY <2>1 DEF Accounted, OpenAreKept, Pruned, Stale, BulkAlive
    <3>2. IdleAreTimed'
      BY <2>1 DEF Accounted, IdleAreTimed, Pruned, Stale, BulkAlive
    <3>3. (pool \cap bulkClosing = {})'
      BY <2>1 DEF Accounted, DialedIsNew, Pruned, Stale, BulkAlive
    <3> QED BY <3>1, <3>2, <3>3 DEF Accounted
  <2> QED BY <2>2, <2>3, <2>4
<1> QED BY <1>1, <1>2, <1>3

\* A handshake ends: the connection is the dialler's alone until it is pooled.
LEMMA DialingStep ==
  ASSUME BulkTypeOK, OneHolder, Accounted, NEW l \in BulkLanes,
         BulkDialed(l) \/ BulkAdmit(l)
  PROVE  (BulkTypeOK /\ OneHolder /\ Accounted)'
<1> USE BulkConstants DEF BulkTypeOK, OneHolder, Conns, NoConn
<1>1. CASE BulkDialed(l) /\ dialled' = dialled
  <2>1. /\ joiner'[l] = Resting /\ \A m \in BulkLanes \ {l} : joiner'[m] = joiner[m]
        /\ joiner[l].pc = "dialing"
        /\ UNCHANGED <<bulk, dialled, pool, busy, armed, firing, bulkClosing>>
    BY <1>1 DEF BulkDialed, JoinerTypeOK, Joiners
  <2>2. BulkTypeOK'
    <3>1. JoinerTypeOK'
      BY <1>1, JoinerStep
    <3> QED BY <1>1, <2>1, <3>1 DEF BulkDialed, Resting
  <2>3. OneHolder'
    <3>1. HeldByStage'
      BY <2>1 DEF HeldByStage, Resting
    <3>2. HeldByOne'
      BY <2>1 DEF HeldByOne, HeldByStage, Resting
    <3>3. BusyIsHeld'
      BY <2>1 DEF BusyIsHeld, HeldByOne, HeldByStage, Resting
    <3>4. DialedIsNew'
      BY <2>1 DEF DialedIsNew, HeldByStage, HeldByOne, Resting
    <3> QED BY <3>1, <3>2, <3>3, <3>4
  <2>4. Accounted'
    <3>1. OpenAreKept'
      BY <2>1 DEF Accounted, OpenAreKept, Resting
    <3>2. IdleAreTimed'
      BY <2>1 DEF Accounted, IdleAreTimed, Resting
    <3>3. (pool \cap bulkClosing = {})'
      BY <2>1 DEF Accounted, DialedIsNew, Resting
    <3> QED BY <3>1, <3>2, <3>3 DEF Accounted
  <2> QED BY <2>2, <2>3, <2>4
<1>2. CASE BulkDialed(l) /\ dialled' # dialled
  <2> DEFINE e == dialled + 1
  <2>1. /\ joiner'[l].pc = "dialed" /\ joiner'[l].conn = e
        /\ \A m \in BulkLanes \ {l} : joiner'[m] = joiner[m]
        /\ joiner[l].pc = "dialing" /\ dialled' = e /\ e \in Conns
        /\ bulk' = [bulk EXCEPT ![e] = "alive"]
        /\ UNCHANGED <<pool, busy, armed, firing, bulkClosing>>
    BY <1>2 DEF BulkDialed, JoinerTypeOK, Joiners
  <2>5. \A m \in BulkLanes : joiner[m].conn # e /\ joiner[m].conn < e
    BY DEF DialedIsNew, JoinerTypeOK, Joiners
  <2>2. BulkTypeOK'
    <3>1. JoinerTypeOK'
      BY <1>2, JoinerStep
    <3> QED BY <1>2, <2>1, <3>1 DEF BulkDialed
  <2>3. OneHolder'
    <3>1. HeldByStage'
      BY <2>1 DEF HeldByStage
    <3>2. HeldByOne'
      BY <2>1, <2>5 DEF HeldByOne
    <3>3. BusyIsHeld'
      BY <2>1 DEF BusyIsHeld, HeldByOne, HeldByStage
    <3>4. DialedIsNew'
      <4>1. dialled \in Nat /\ e \notin pool \cup bulkClosing
        BY <2>1 DEF DialedIsNew, BulkTypeOK
      <4>2. \A m \in BulkLanes : joiner'[m].conn <= dialled'
        <5>1. \A m \in BulkLanes \ {l} : joiner'[m].conn < e
          BY <2>1, <2>5
        <5>2. \A m \in BulkLanes : joiner'[m].conn = e \/ joiner'[m].conn < e
          BY <2>1, <5>1
        <5>3. \A m \in BulkLanes : joiner'[m].conn \in Nat
          BY <2>1, <4>1 DEF JoinerTypeOK, Joiners, Conns, NoConn
        <5> QED BY <2>1, <4>1, <5>2, <5>3
      <4>3. \A m \in BulkLanes : joiner'[m].pc = "dialed" => joiner'[m].conn \notin pool' \cup bulkClosing'
        BY <2>1, <4>1 DEF DialedIsNew
      <4>4. \A c \in Conns : c > dialled' => bulk'[c] = "none" /\ c \notin pool' \cup bulkClosing'
        BY <2>1, <4>1 DEF DialedIsNew, BulkTypeOK, Conns
      <4> QED BY <4>2, <4>3, <4>4 DEF DialedIsNew
    <3> QED BY <3>1, <3>2, <3>3, <3>4
  <2>4. Accounted'
    <3>1. OpenAreKept'
      BY <2>1 DEF Accounted, OpenAreKept
    <3>2. IdleAreTimed'
      BY <2>1 DEF Accounted, IdleAreTimed
    <3>3. (pool \cap bulkClosing = {})'
      BY <2>1 DEF Accounted, DialedIsNew
    <3> QED BY <3>1, <3>2, <3>3 DEF Accounted
  <2> QED BY <2>2, <2>3, <2>4
<1>3. CASE BulkAdmit(l)
  <2> DEFINE e == joiner[l].conn
  <2>1. /\ joiner[l].pc = "dialed" /\ e \in Conns /\ e \notin pool \cup bulkClosing
        /\ e \notin busy
        /\ \A m \in BulkLanes \ {l} : joiner'[m] = joiner[m] /\ joiner[m].conn # e
        /\ UNCHANGED <<armed, firing, bulk, dialled>>
    BY <1>3 DEF BulkAdmit, Resting, HeldByStage, HeldByOne, BusyIsHeld, DialedIsNew,
                  JoinerTypeOK, Joiners
  <2>2. CASE Full
    <3>1. joiner'[l] = Resting /\ bulkClosing' = bulkClosing \cup {e} /\ UNCHANGED <<pool, busy>>
      BY <1>3, <2>2 DEF BulkAdmit, Surplus, JoinerTypeOK, Joiners
    <3>2. BulkTypeOK'
      <4>1. JoinerTypeOK'
        BY <1>3, JoinerStep
      <4> QED BY <1>3, <2>1, <2>2, <3>1, <4>1 DEF BulkAdmit, Resting
    <3>3. OneHolder'
      <4>1. HeldByStage'
        BY <2>1, <3>1 DEF HeldByStage, Resting
      <4>2. HeldByOne'
        BY <2>1, <3>1 DEF HeldByOne, HeldByStage, Resting
      <4>3. BusyIsHeld'
        BY <2>1, <3>1 DEF BusyIsHeld, HeldByOne, HeldByStage, Resting
      <4>4. DialedIsNew'
        BY <2>1, <3>1 DEF DialedIsNew, HeldByStage, HeldByOne, Resting
      <4> QED BY <4>1, <4>2, <4>3, <4>4
    <3>4. Accounted'
      <4>1. OpenAreKept'
        BY <2>1, <3>1 DEF Accounted, OpenAreKept, Resting
      <4>2. IdleAreTimed'
        BY <2>1, <3>1 DEF Accounted, IdleAreTimed, Resting
      <4>3. (pool \cap bulkClosing = {})'
        BY <2>1, <3>1 DEF Accounted, DialedIsNew, Resting
      <4> QED BY <4>1, <4>2, <4>3 DEF Accounted
    <3> QED BY <3>2, <3>3, <3>4
  <2>3. CASE ~Full
    <3>1. /\ joiner'[l].pc = "opening" /\ joiner'[l].conn = e
          /\ pool' = pool \cup {e} /\ busy' = busy \cup {e} /\ UNCHANGED bulkClosing
      BY <1>3, <2>3 DEF BulkAdmit, JoinerTypeOK, Joiners
    <3>2. BulkTypeOK'
      <4>1. JoinerTypeOK'
        BY <1>3, JoinerStep
      <4> QED BY <1>3, <2>1, <2>3, <3>1, <4>1 DEF BulkAdmit
    <3>3. OneHolder'
      <4>1. HeldByStage'
        BY <2>1, <3>1 DEF HeldByStage
      <4>2. HeldByOne'
        BY <2>1, <3>1 DEF HeldByOne, HeldByStage
      <4>3. BusyIsHeld'
        BY <2>1, <3>1 DEF BusyIsHeld, HeldByOne, HeldByStage
      <4>4. DialedIsNew'
        BY <2>1, <3>1 DEF DialedIsNew, HeldByStage, HeldByOne
      <4> QED BY <4>1, <4>2, <4>3, <4>4
    <3>4. Accounted'
      <4>1. OpenAreKept'
        BY <2>1, <3>1 DEF Accounted, OpenAreKept
      <4>2. IdleAreTimed'
        BY <2>1, <3>1 DEF Accounted, IdleAreTimed
      <4>3. (pool \cap bulkClosing = {})'
        BY <2>1, <3>1 DEF Accounted, DialedIsNew
      <4> QED BY <4>1, <4>2, <4>3 DEF Accounted
    <3> QED BY <3>2, <3>3, <3>4
  <2> QED BY <2>2, <2>3
<1> QED BY <1>1, <1>2, <1>3

\* A lane gives its connection back.
LEMMA CarryingStep ==
  ASSUME BulkTypeOK, OneHolder, Accounted, NEW l \in BulkLanes,
         BulkOpens(l) \/ BulkEnds(l) \/ BulkRelease(l)
  PROVE  (BulkTypeOK /\ OneHolder /\ Accounted)'
<1> USE BulkConstants DEF BulkTypeOK, OneHolder, Conns, NoConn
<1>1. CASE BulkOpens(l) \/ BulkEnds(l)
  <2>1. /\ joiner'[l].pc \in {"carrying", "releasing"} /\ joiner'[l].conn = joiner[l].conn
        /\ \A m \in BulkLanes \ {l} : joiner'[m] = joiner[m]
        /\ joiner[l].pc \in {"opening", "carrying"}
        /\ UNCHANGED <<pool, busy, armed, firing, bulk, dialled, bulkClosing>>
    <3>1. CASE BulkOpens(l)
      BY <3>1 DEF BulkOpens, JoinerTypeOK, Joiners
    <3>2. CASE BulkEnds(l)
      BY <3>2 DEF BulkEnds, Ends, JoinerTypeOK, Joiners
    <3> QED BY <1>1, <3>1, <3>2
  <2>2. BulkTypeOK'
    <3>1. JoinerTypeOK'
      BY <1>1, JoinerStep
    <3> QED BY <1>1, <2>1, <3>1 DEF BulkOpens, BulkEnds, Ends, Seen
  <2>3. OneHolder'
    <3>1. HeldByStage'
      BY <2>1 DEF HeldByStage
    <3>2. HeldByOne'
      BY <2>1 DEF HeldByOne, HeldByStage
    <3>3. BusyIsHeld'
      BY <2>1 DEF BusyIsHeld, HeldByOne, HeldByStage
    <3>4. DialedIsNew'
      BY <2>1 DEF DialedIsNew, HeldByStage, HeldByOne
    <3> QED BY <3>1, <3>2, <3>3, <3>4
  <2>4. Accounted'
    <3>1. OpenAreKept'
      BY <2>1 DEF Accounted, OpenAreKept
    <3>2. IdleAreTimed'
      BY <2>1 DEF Accounted, IdleAreTimed
    <3>3. (pool \cap bulkClosing = {})'
      BY <2>1 DEF Accounted, DialedIsNew
    <3> QED BY <3>1, <3>2, <3>3 DEF Accounted
  <2> QED BY <2>2, <2>3, <2>4
<1>2. CASE BulkRelease(l)
  <2> DEFINE e == joiner[l].conn
  <2>1. /\ joiner[l].pc = "releasing" /\ joiner'[l] = Resting /\ busy' = busy \ {e}
        /\ \A m \in BulkLanes \ {l} : joiner'[m] = joiner[m]
        /\ UNCHANGED <<firing, bulk, dialled>>
    BY <1>2 DEF BulkRelease, JoinerTypeOK, Joiners
  <2>2. e \in Conns /\ \A m \in BulkLanes \ {l} : joiner[m].conn # e
    BY <2>1 DEF HeldByStage, HeldByOne, JoinerTypeOK, Joiners
  <2>3. \/ pool' = pool \ {e} /\ bulkClosing' = bulkClosing \cup {e} /\ armed' = armed
        \/ armed' = armed \cup {e} /\ UNCHANGED <<pool, bulkClosing>>
    BY <1>2 DEF BulkRelease, Timed
  <2>4. BulkTypeOK'
    <3>1. JoinerTypeOK'
      BY <1>2, JoinerStep
    <3> QED BY <1>2, <2>1, <2>2, <2>3, <3>1 DEF BulkRelease, Resting
  <2>5. OneHolder'
    <3>1. HeldByStage'
      BY <2>1, <2>2, <2>3 DEF HeldByStage, Resting
    <3>2. HeldByOne'
      BY <2>1, <2>2, <2>3 DEF HeldByOne, HeldByStage, Resting
    <3>3. BusyIsHeld'
      BY <2>1, <2>2, <2>3 DEF BusyIsHeld, HeldByOne, HeldByStage, Resting
    <3>4. DialedIsNew'
      BY <2>1, <2>2, <2>3 DEF DialedIsNew, HeldByStage, HeldByOne, Resting
    <3> QED BY <3>1, <3>2, <3>3, <3>4
  <2>6. Accounted'
    <3>1. OpenAreKept'
      BY <2>1, <2>2, <2>3 DEF Accounted, OpenAreKept, Resting
    <3>2. IdleAreTimed'
      BY <2>1, <2>2, <2>3 DEF Accounted, IdleAreTimed, Resting
    <3>3. (pool \cap bulkClosing = {})'
      BY <2>1, <2>2, <2>3 DEF Accounted, DialedIsNew, Resting
    <3> QED BY <3>1, <3>2, <3>3 DEF Accounted
  <2> QED BY <2>4, <2>5, <2>6
<1> QED BY <1>1, <1>2

\* Timers, resets and the network: nothing leaves the pool but to be closed.
LEMMA BulkStep ==
  ASSUME BulkTypeOK, OneHolder, Accounted,
         \/ BulkReset
         \/ \E e \in Conns : BulkTimerFires(e) \/ BulkExpire(e) \/ BulkCloses(e) \/ BulkDies(e)
  PROVE  (BulkTypeOK /\ OneHolder /\ Accounted)'
<1> USE DEF BulkTypeOK, OneHolder, Accounted
<1>1. UNCHANGED joiner
  BY DEF BulkReset, BulkTimerFires, BulkExpire, BulkCloses, BulkDies
<1>2. (HeldByStage /\ HeldByOne /\ JoinerTypeOK)'
  BY <1>1 DEF HeldByStage, HeldByOne, JoinerTypeOK
<1>3. BusyIsHeld'
  BY <1>1 DEF BusyIsHeld, BulkReset, BulkTimerFires, BulkExpire, BulkCloses, BulkDies
<1>4. CASE BulkReset
  <2>1. DialedIsNew'
    BY <1>4 DEF BulkReset, DialedIsNew
  <2>2. OpenAreKept' /\ IdleAreTimed'
    BY <1>4 DEF BulkReset, OpenAreKept, IdleAreTimed
  <2> QED BY <1>2, <1>3, <1>4, <2>1, <2>2 DEF BulkReset
<1>5. ASSUME NEW e \in Conns, BulkTimerFires(e) \/ BulkExpire(e)
      PROVE  (BulkTypeOK /\ OneHolder /\ Accounted)'
  <2>1. DialedIsNew'
    BY <1>5 DEF BulkTimerFires, BulkExpire, Expires, DialedIsNew
  <2>2. OpenAreKept' /\ IdleAreTimed'
    BY <1>5 DEF BulkTimerFires, BulkExpire, Expires, OpenAreKept, IdleAreTimed
  <2> QED BY <1>2, <1>3, <1>5, <2>1, <2>2 DEF BulkTimerFires, BulkExpire, Expires
<1>6. ASSUME NEW e \in Conns, BulkCloses(e) PROVE (BulkTypeOK /\ OneHolder /\ Accounted)'
  <2>1. DialedIsNew'
    BY <1>6 DEF BulkCloses, DialedIsNew
  <2>2. OpenAreKept' /\ IdleAreTimed'
    BY <1>6 DEF BulkCloses, OpenAreKept, IdleAreTimed
  <2> QED BY <1>2, <1>3, <1>6, <2>1, <2>2 DEF BulkCloses
<1>7. ASSUME NEW e \in Conns, BulkDies(e) PROVE (BulkTypeOK /\ OneHolder /\ Accounted)'
  <2>1. DialedIsNew'
    BY <1>7 DEF BulkDies, BulkAlive, DialedIsNew
  <2>2. OpenAreKept' /\ IdleAreTimed'
    BY <1>7 DEF BulkDies, BulkAlive, OpenAreKept, IdleAreTimed
  <2> QED BY <1>2, <1>3, <1>7, <2>1, <2>2 DEF BulkDies
<1> QED BY <1>4, <1>5, <1>6, <1>7

\* The pool grows only when it has room: the limit is tested again after the handshake.
LEMMA PoolLimitStep ==
  ASSUME BulkTypeOK, Cardinality(pool) <= BulkMax, BulkNext
  PROVE  Cardinality(pool') <= BulkMax
<1> USE BulkConstants
<1>1. IsFiniteSet(pool) /\ Cardinality(pool) \in Nat
  <2>1. IsFiniteSet(Conns)
    BY FS_Interval DEF Conns
  <2>2. pool \in SUBSET Conns
    BY DEF BulkTypeOK
  <2> QED BY <2>1, <2>2, FS_Subset, FS_CardinalityType
<1>2. CASE pool' \subseteq pool
  BY <1>1, <1>2, FS_Subset, FS_CardinalityType
<1>3. ASSUME NEW l \in BulkLanes, BulkAdmit(l) PROVE Cardinality(pool') <= BulkMax
  <2>1. CASE Full
    BY <1>3, <2>1 DEF BulkAdmit
  <2>2. CASE ~Full
    <3>1. pool' = pool \cup {joiner[l].conn} /\ Cardinality(pool) < BulkMax
      BY <1>1, <1>3, <2>2 DEF BulkAdmit, Full
    <3> QED BY <1>1, <3>1, FS_AddElement
  <2> QED BY <2>1, <2>2
<1>4. ASSUME NEW l \in BulkLanes,
             \/ BulkBegin(l) \/ BulkReuse(l) \/ BulkNone(l) \/ BulkDialed(l) \/ BulkOpens(l)
             \/ BulkEnds(l) \/ BulkRelease(l)
      PROVE  pool' \subseteq pool
  BY <1>4 DEF BulkBegin, BulkReuse, BulkNone, BulkDialed, BulkOpens, BulkEnds, BulkRelease
<1>5. ASSUME \/ BulkReset
             \/ \E e \in Conns : BulkTimerFires(e) \/ BulkExpire(e) \/ BulkCloses(e) \/ BulkDies(e)
      PROVE  pool' \subseteq pool
  BY <1>5 DEF BulkReset, BulkTimerFires, BulkExpire, BulkCloses, BulkDies
<1> QED BY <1>2, <1>3, <1>4, <1>5 DEF BulkNext

\* The invariant holds of every reachable state.
THEOREM BulkInvariance == BulkSpec => []BulkIInv
<1>1. BulkIInv /\ [BulkNext]_bulkVars => BulkIInv'
  <2> SUFFICES ASSUME BulkIInv, [BulkNext]_bulkVars PROVE BulkIInv'
    OBVIOUS
  <2>1. CASE UNCHANGED bulkVars
    BY <2>1 DEF bulkVars, BulkIInv, BulkTypeOK, JoinerTypeOK, OneHolder, HeldByStage, HeldByOne,
                BusyIsHeld, DialedIsNew, Accounted, OpenAreKept, IdleAreTimed
  <2>2. CASE BulkNext
    <3>1. (BulkTypeOK /\ OneHolder /\ Accounted)'
      BY <2>2, ReservingStep, DialingStep, CarryingStep, BulkStep DEF BulkNext, BulkIInv
    <3>2. (Cardinality(pool) <= BulkMax)'
      BY <2>2, PoolLimitStep DEF BulkIInv
    <3> QED BY <3>1, <3>2 DEF BulkIInv
  <2> QED BY <2>1, <2>2
<1> QED BY BulkInitInv, <1>1, PTL DEF BulkSpec

\* "Each is reserved exclusively for the lane it carries", the pool keeps its limit though
\* handshakes run side by side, and no connection is forgotten or idles without a timer
\* (reserveBulkConn, client.go:1386).
THEOREM BulkPoolIsSafe == BulkSpec => []BulkInv
<1>1. BulkIInv => BulkInv
  <2> SUFFICES ASSUME BulkIInv PROVE BulkInv
    OBVIOUS
  <2>1. ASSUME NEW e \in Conns PROVE Cardinality(HoldersOf(e)) <= 1
    <3>1. \A l, m \in HoldersOf(e) : l = m
      BY DEF BulkIInv, OneHolder, HeldByOne, HoldersOf, Conns, NoConn
    <3>2. CASE HoldersOf(e) = {}
      BY <3>2, FS_EmptySet
    <3>3. CASE HoldersOf(e) # {}
      <4>1. PICK l : HoldersOf(e) = {l}
        BY <3>1, <3>3
      <4> QED BY <4>1, FS_Singleton
    <3> QED BY <3>2, <3>3
  <2>2. OneLanePerConnection
    BY <2>1 DEF BulkIInv, OneHolder, BusyIsHeld, OneLanePerConnection, HoldersOf
  <2>3. NoBulkForgotten
    BY DEF BulkIInv, Accounted, OpenAreKept, IdleAreTimed, NoBulkForgotten
  <2> QED BY <2>2, <2>3 DEF BulkInv
<1> QED BY <1>1, BulkInvariance, PTL

\* A timer that fired before a lane reserved the entry takes it from nobody: expireBulkConn
\* looks at the busy flag under the mutex, and the flag is set exactly while a lane holds the
\* entry (client.go:1583).
THEOREM ExpiryIsHarmless == BulkSpec => ExpiryTakesNoLane
<1> DEFINE Harmless ==
      \A e \in Conns : e \in firing \ firing' /\ e \in pool \ pool' => HoldersOf(e) = {}
<1>1. BulkIInv /\ [BulkNext]_bulkVars => [Harmless]_bulkVars
  <2> SUFFICES ASSUME BulkIInv, BulkNext, NEW e \in Conns, e \in firing \ firing', e \in pool \ pool'
               PROVE  HoldersOf(e) = {}
    BY DEF bulkVars
  <2>1. \A l \in BulkLanes :
          ~(BulkBegin(l) \/ BulkReuse(l) \/ BulkNone(l) \/ BulkDialed(l) \/ BulkAdmit(l)
            \/ BulkOpens(l) \/ BulkEnds(l) \/ BulkRelease(l))
    BY DEF BulkBegin, BulkReuse, BulkNone, BulkDialed, BulkAdmit, BulkOpens, BulkEnds, BulkRelease
  <2>2. ~BulkReset /\ \A d \in Conns : ~(BulkTimerFires(d) \/ BulkCloses(d) \/ BulkDies(d))
    BY DEF BulkReset, BulkTimerFires, BulkCloses, BulkDies
  <2>3. PICK d \in Conns : BulkExpire(d)
    BY <2>1, <2>2 DEF BulkNext
  <2>4. e \notin busy
    BY <2>3 DEF BulkExpire, Expires
  <2> QED BY <2>4 DEF BulkIInv, OneHolder, BusyIsHeld, HoldersOf
<1> QED BY BulkInvariance, <1>1, PTL DEF BulkSpec, ExpiryTakesNoLane

-----------------------------------------------------------------------------
(* Joining a lane.  No stream of a lost race stays open, the server never      *)
(* admits more lanes than its limit, every staged lane is settled, and a       *)
(* final word to a client is true.                                            *)
(*                                                                         *)
(* JoinIInv adds to these what each rests on: a winner is held only while it   *)
(* is installed (a second one would be forgotten), a server knows an attempt   *)
(* only once its dial succeeded, and a session leaves the table, or a refusal  *)
(* is on its way, only when the flow is over.  The four groups of conjuncts do *)
(* not disturb each other, so each has a lemma of its own.                    *)

\* A session begins with the lane that opened it.
THEOREM JoinInitInv == JoinInit => JoinIInv
<1> SUFFICES ASSUME JoinInit PROVE JoinIInv
  OBVIOUS
<1> USE JoinConstants DEF JoinInit, LaneIds
<1>1. JoinTypeOK
  <2>1. RaceTypeOK
    <3>1. /\ seeker \in [Attempts -> {"none"}] /\ outcome \in [Attempts -> {"none"}]
          /\ winner = 0 /\ pending = 0 /\ rescue = "idle" /\ racers = {} /\ over = {}
      OBVIOUS
    <3>2. gaveUp \in BOOLEAN
      OBVIOUS
    <3> QED BY <3>1, <3>2 DEF RaceTypeOK
  <2>2. ClientTypeOK /\ HandlersTypeOK
    BY DEF ClientTypeOK, HandlersTypeOK
  <2>3. ServerTypeOK
    BY DEF ServerTypeOK, Both
  <2> QED BY <2>1, <2>2, <2>3 DEF JoinTypeOK
<1>2. LosersAreClosed /\ OneWinner
  BY DEF LosersAreClosed, OneWinner
<1>3. SlotsAreKept
  <2>1. OpenLanes = {0}
    BY DEF OpenLanes
  <2>2. Cardinality(OpenLanes) = 1
    BY <2>1, FS_Singleton
  <2> QED BY <2>2 DEF SlotsAreKept, StagedHaveHandlers
<1>4. JoinsFollowDials
  BY DEF JoinsFollowDials
<1>5. FinalWordIsTrue /\ TombstoneStands /\ WordsHaveGrounds
  BY DEF FinalWordIsTrue, TombstoneStands, WordsHaveGrounds, Both
<1> QED BY <1>1, <1>2, <1>3, <1>4, <1>5 DEF JoinIInv

\* Every step keeps the types.
LEMMA JoinTypes ==
  ASSUME JoinTypeOK, JoinNext
  PROVE  JoinTypeOK'
<1> USE JoinConstants DEF JoinTypeOK, LaneIds, Both
<1>1. CASE RaceFollowsFlow
  BY <1>1 DEF RaceFollowsFlow, RaceIsOver, clientSide, handlers, laneVars, sessionVars,
              RaceTypeOK, ClientTypeOK, HandlersTypeOK, ServerTypeOK
<1>2. CASE RaceAbandoned
  BY <1>2 DEF RaceAbandoned, RaceIsOver, clientSide, handlers, laneVars, sessionVars,
              RaceTypeOK, ClientTypeOK, HandlersTypeOK, ServerTypeOK
<1>3. CASE RaceInstalls
  <2>1. RaceTypeOK'
    BY <1>3 DEF RaceInstalls, handlers, laneVars, sessionVars, RaceTypeOK
  <2>2. ClientTypeOK'
    <3>1. CASE clientFlow = "done"
      BY <1>3, <3>1 DEF RaceInstalls, ClientTypeOK
    <3>2. CASE clientFlow # "done"
      BY <1>3, <3>2 DEF RaceInstalls, ClientTypeOK, RaceTypeOK
    <3> QED BY <3>1, <3>2
  <2>3. HandlersTypeOK'
    BY <1>3 DEF RaceInstalls, handlers, laneVars, sessionVars, HandlersTypeOK
  <2>4. ServerTypeOK'
    BY <1>3 DEF RaceInstalls, handlers, laneVars, sessionVars, ServerTypeOK
  <2> QED BY <2>1, <2>2, <2>3, <2>4
<1>4. CASE ClientSignals
  BY <1>4 DEF ClientSignals, raceVars, handlers, laneVars, sessionVars, RaceTypeOK,
              ClientTypeOK, HandlersTypeOK, ServerTypeOK
<1>5. CASE ServerSignals
  BY <1>5 DEF ServerSignals, raceVars, clientSide, handlers, laneVars, RaceTypeOK,
              ClientTypeOK, HandlersTypeOK, ServerTypeOK
<1>6. CASE RunSettles
  BY <1>6 DEF RunSettles, Complete, raceVars, clientSide, handlers, laneVars, RaceTypeOK,
              ClientTypeOK, HandlersTypeOK, ServerTypeOK
<1>7. CASE JoinOver
  BY <1>7 DEF JoinOver, joinVars, raceVars, clientSide, handlers, laneVars, sessionVars,
              RaceTypeOK, ClientTypeOK, HandlersTypeOK, ServerTypeOK
<1>8. CASE RoundStarts
  BY <1>8 DEF RoundStarts, clientSide, handlers, laneVars, sessionVars, RaceTypeOK,
              ClientTypeOK, HandlersTypeOK, ServerTypeOK
<1>9. CASE ClientSweeps
  BY <1>9 DEF ClientSweeps, raceVars, handlers, laneVars, sessionVars, RaceTypeOK,
              ClientTypeOK, HandlersTypeOK, ServerTypeOK
<1>10. CASE ServerSweeps
  BY <1>10 DEF ServerSweeps, raceVars, clientSide, handlers, RaceTypeOK, ClientTypeOK,
               HandlersTypeOK, ServerTypeOK
<1>11. CASE ServerFIN
  BY <1>11 DEF ServerFIN, raceVars, clientSide, handlers, laneVars, RaceTypeOK,
               ClientTypeOK, HandlersTypeOK, ServerTypeOK
<1>12. CASE WatcherRetains
  BY <1>12 DEF WatcherRetains, raceVars, clientSide, handlers, laneVars, RaceTypeOK,
               ClientTypeOK, HandlersTypeOK, ServerTypeOK
<1>13. CASE TombstoneExpires
  BY <1>13 DEF TombstoneExpires, raceVars, clientSide, handlers, laneVars, RaceTypeOK,
               ClientTypeOK, HandlersTypeOK, ServerTypeOK
<1>14. ASSUME NEW a \in Attempts, SeekerDials(a) PROVE JoinTypeOK'
  <2>1. RaceTypeOK'
    BY <1>14 DEF SeekerDials, Returns, laneVars, sessionVars, RaceTypeOK
  <2>2. ClientTypeOK'
    BY <1>14 DEF SeekerDials, Returns, laneVars, sessionVars, ClientTypeOK
  <2>3. HandlersTypeOK'
    BY <1>14 DEF SeekerDials, Returns, laneVars, sessionVars, HandlersTypeOK
  <2>4. ServerTypeOK'
    BY <1>14 DEF SeekerDials, Returns, laneVars, sessionVars, ServerTypeOK
  <2> QED BY <2>1, <2>2, <2>3, <2>4
<1>15. ASSUME NEW a \in Attempts, SeekerReads(a) PROVE JoinTypeOK'
  <2>1. RaceTypeOK'
    BY <1>15 DEF SeekerReads, Returns, HasEnded, handlers, laneVars, sessionVars, RaceTypeOK
  <2>2. ClientTypeOK'
    BY <1>15 DEF SeekerReads, Returns, HasEnded, handlers, laneVars, sessionVars, ClientTypeOK
  <2>3. HandlersTypeOK'
    BY <1>15 DEF SeekerReads, Returns, HasEnded, handlers, laneVars, sessionVars, HandlersTypeOK
  <2>4. ServerTypeOK'
    BY <1>15 DEF SeekerReads, Returns, HasEnded, handlers, laneVars, sessionVars, ServerTypeOK
  <2> QED BY <2>1, <2>2, <2>3, <2>4
<1>16. ASSUME NEW a \in Attempts, SeekerReturns(a) PROVE JoinTypeOK'
  <2>1. RaceTypeOK'
    BY <1>16 DEF SeekerReturns, Returns, HasEnded, handlers, laneVars, sessionVars, RaceTypeOK
  <2>2. ClientTypeOK'
    BY <1>16 DEF SeekerReturns, Returns, HasEnded, handlers, laneVars, sessionVars, ClientTypeOK
  <2>3. HandlersTypeOK'
    BY <1>16 DEF SeekerReturns, Returns, HasEnded, handlers, laneVars, sessionVars,
             HandlersTypeOK
  <2>4. ServerTypeOK'
    BY <1>16 DEF SeekerReturns, Returns, HasEnded, handlers, laneVars, sessionVars, ServerTypeOK
  <2> QED BY <2>1, <2>2, <2>3, <2>4
<1>17. ASSUME NEW a \in Attempts, RaceTakes(a) PROVE JoinTypeOK'
  <2>1. RaceTypeOK'
    <3>1. seeker' \in [Attempts -> {"none", "dialing", "joining", "opened", "returned", "taken"}]
      BY <1>17 DEF RaceTakes, Received, RaceTypeOK
    <3>2. outcome' \in [Attempts -> {"none", "error", "capacity", "rejected", "lane"}]
      BY <1>17 DEF RaceTakes, Received, RaceTypeOK
    <3>3. /\ racers' \subseteq Attempts /\ over' \subseteq Attempts /\ pending' \in Int
          /\ rescue' \in {"idle", "racing", "installing"} /\ winner' \in LaneIds
      BY <1>17 DEF RaceTakes, RaceTypeOK
    <3>4. gaveUp' \in BOOLEAN
      BY <1>17 DEF RaceTakes, RaceTypeOK
    <3> QED BY <3>1, <3>2, <3>3, <3>4 DEF RaceTypeOK
  <2>2. ClientTypeOK'
    BY <1>17 DEF RaceTakes, Received, clientSide, handlers, laneVars, sessionVars, ClientTypeOK
  <2>3. HandlersTypeOK'
    BY <1>17 DEF RaceTakes, Received, clientSide, handlers, laneVars, sessionVars,
             HandlersTypeOK
  <2>4. ServerTypeOK'
    BY <1>17 DEF RaceTakes, Received, clientSide, handlers, laneVars, sessionVars, ServerTypeOK
  <2> QED BY <2>1, <2>2, <2>3, <2>4
<1>18. ASSUME NEW a \in Attempts, RaceDrains(a) PROVE JoinTypeOK'
  BY <1>18 DEF RaceDrains, Received, Loser, handlers, laneVars, sessionVars, RaceTypeOK,
               ClientTypeOK, HandlersTypeOK, ServerTypeOK
<1>19. ASSUME NEW a \in Attempts, JoinLooksUp(a) PROVE JoinTypeOK'
  BY <1>19 DEF JoinLooksUp, Answers, Leaves, raceVars, clientSide, laneVars, sessionVars,
               RaceTypeOK, ClientTypeOK, HandlersTypeOK, ServerTypeOK
<1>20. ASSUME NEW a \in Attempts, JoinChecks(a) PROVE JoinTypeOK'
  BY <1>20 DEF JoinChecks, Answers, Leaves, raceVars, clientSide, laneVars, sessionVars,
               RaceTypeOK, ClientTypeOK, HandlersTypeOK, ServerTypeOK
<1>21. ASSUME NEW a \in Attempts, JoinAdmits(a) PROVE JoinTypeOK'
  <2>1. PICK gone \in Retirable : AddLane(a, gone)
    BY <1>21 DEF JoinAdmits
  <2>2. gone \subseteq LaneIds
    BY <2>1 DEF Retirable, Evictable, OpenLanes, ServerTypeOK
  <2>3. HandlersTypeOK'
    BY <2>1 DEF AddLane, Refusal, HandlersTypeOK
  <2>4. ServerTypeOK'
    BY <1>21, <2>1, <2>2 DEF JoinAdmits, AddLane, sessionVars, ServerTypeOK
  <2> QED BY <1>21, <2>3, <2>4
          DEF JoinAdmits, raceVars, clientSide, RaceTypeOK, ClientTypeOK
<1>22. ASSUME NEW a \in Attempts, JoinAnswers(a) PROVE JoinTypeOK'
  <2>1. RaceTypeOK'
    BY <1>22 DEF JoinAnswers, Answers, Leaves, Withdrawn, Dropped, raceVars, clientSide,
             sessionVars, RaceTypeOK
  <2>2. ClientTypeOK'
    BY <1>22 DEF JoinAnswers, Answers, Leaves, Withdrawn, Dropped, raceVars, clientSide,
             sessionVars, ClientTypeOK
  <2>3. HandlersTypeOK'
    BY <1>22 DEF JoinAnswers, Answers, Leaves, Withdrawn, Dropped, raceVars, clientSide,
             sessionVars, HandlersTypeOK
  <2>4. ServerTypeOK'
    BY <1>22 DEF JoinAnswers, Answers, Leaves, Withdrawn, Dropped, raceVars, clientSide,
             sessionVars, ServerTypeOK
  <2> QED BY <2>1, <2>2, <2>3, <2>4
<1>23. ASSUME NEW a \in Attempts, JoinActivates(a) PROVE JoinTypeOK'
  <2>1. RaceTypeOK'
    BY <1>23 DEF JoinActivates, Leaves, Withdrawn, Dropped, raceVars, clientSide, sessionVars,
             RaceTypeOK
  <2>2. ClientTypeOK'
    BY <1>23 DEF JoinActivates, Leaves, Withdrawn, Dropped, raceVars, clientSide, sessionVars,
             ClientTypeOK
  <2>3. HandlersTypeOK'
    BY <1>23 DEF JoinActivates, Leaves, Withdrawn, Dropped, raceVars, clientSide, sessionVars,
             HandlersTypeOK
  <2>4. ServerTypeOK'
    BY <1>23 DEF JoinActivates, Leaves, Withdrawn, Dropped, raceVars, clientSide, sessionVars,
             ServerTypeOK
  <2> QED BY <2>1, <2>2, <2>3, <2>4
<1>24. ASSUME NEW a \in Attempts, JoinDetaches(a) PROVE JoinTypeOK'
  BY <1>24 DEF JoinDetaches, Leaves, Dropped, raceVars, clientSide, sessionVars, RaceTypeOK,
               ClientTypeOK, HandlersTypeOK, ServerTypeOK
<1>25. ASSUME NEW l \in LaneIds, ServerLaneFails(l) PROVE JoinTypeOK'
  BY <1>25 DEF ServerLaneFails, Dropped, raceVars, clientSide, handlers, sessionVars,
               RaceTypeOK, ClientTypeOK, HandlersTypeOK, ServerTypeOK
<1>26. ASSUME NEW l \in LaneIds, LaneAges(l) PROVE JoinTypeOK'
  BY <1>26 DEF LaneAges, OpenLanes, raceVars, clientSide, handlers, sessionVars, RaceTypeOK,
               ClientTypeOK, HandlersTypeOK, ServerTypeOK
<1> QED BY <1>1, <1>2, <1>3, <1>4, <1>5, <1>6, <1>7, <1>8, <1>9, <1>10, <1>11, <1>12, <1>13,
           <1>14, <1>15, <1>16, <1>17, <1>18, <1>19, <1>20, <1>21, <1>22, <1>23, <1>24,
           <1>25, <1>26
       DEF JoinNext, JoinWork

\* A client's stream always belongs to somebody who will use it or close it.
LEMMA LosersStep ==
  ASSUME JoinTypeOK, LosersAreClosed, OneWinner, JoinNext
  PROVE  (LosersAreClosed /\ OneWinner)'
<1> USE JoinConstants DEF JoinTypeOK, RaceTypeOK, ClientTypeOK, LosersAreClosed, OneWinner, LaneIds
<1>1. CASE RaceFollowsFlow
  BY <1>1 DEF RaceFollowsFlow, RaceIsOver, clientSide, handlers, laneVars, sessionVars
<1>2. CASE RaceAbandoned
  BY <1>2 DEF RaceAbandoned, RaceIsOver, clientSide, handlers, laneVars, sessionVars
<1>3. CASE RaceInstalls
  <2>1. LosersAreClosed'
    BY <1>3 DEF RaceInstalls, handlers, laneVars, sessionVars
  <2>2. OneWinner'
    BY <1>3 DEF RaceInstalls, handlers, laneVars, sessionVars
  <2> QED BY <2>1, <2>2
<1>4. CASE ClientSignals
  BY <1>4 DEF ClientSignals, raceVars, handlers, laneVars, sessionVars
<1>5. CASE ServerSignals
  BY <1>5 DEF ServerSignals, raceVars, clientSide, handlers, laneVars
<1>6. CASE RunSettles
  BY <1>6 DEF RunSettles, Complete, raceVars, clientSide, handlers, laneVars
<1>7. CASE JoinOver
  BY <1>7 DEF JoinOver, joinVars, raceVars, clientSide, handlers, laneVars, sessionVars
<1>8. CASE RoundStarts
  BY <1>8 DEF RoundStarts, clientSide, handlers, laneVars, sessionVars
<1>9. CASE ClientSweeps
  BY <1>9 DEF ClientSweeps, raceVars, handlers, laneVars, sessionVars
<1>10. CASE ServerSweeps
  BY <1>10 DEF ServerSweeps, raceVars, clientSide, handlers
<1>11. CASE ServerFIN
  BY <1>11 DEF ServerFIN, raceVars, clientSide, handlers, laneVars
<1>12. CASE WatcherRetains
  BY <1>12 DEF WatcherRetains, raceVars, clientSide, handlers, laneVars
<1>13. CASE TombstoneExpires
  BY <1>13 DEF TombstoneExpires, raceVars, clientSide, handlers, laneVars
<1>14. ASSUME NEW a \in Attempts, SeekerDials(a) PROVE (LosersAreClosed /\ OneWinner)'
  <2>1. LosersAreClosed'
    BY <1>14 DEF SeekerDials, Returns, laneVars, sessionVars
  <2>2. OneWinner'
    BY <1>14 DEF SeekerDials, Returns, laneVars, sessionVars
  <2> QED BY <2>1, <2>2
<1>15. ASSUME NEW a \in Attempts, SeekerReads(a) PROVE (LosersAreClosed /\ OneWinner)'
  <2>1. CASE seeker' = [seeker EXCEPT ![a] = "opened"] /\ UNCHANGED <<outcome, clientEnd>>
    BY <1>15, <2>1 DEF SeekerReads
  <2>2. CASE /\ \E what \in {"capacity", "rejected", "error"} : Returns(a, what)
             /\ clientEnd' = [clientEnd EXCEPT ![a] = "closed"]
    BY <1>15, <2>2 DEF SeekerReads, Returns
  <2> QED BY <1>15, <2>1, <2>2 DEF SeekerReads
<1>16. ASSUME NEW a \in Attempts, SeekerReturns(a) PROVE (LosersAreClosed /\ OneWinner)'
  <2>1. LosersAreClosed'
    BY <1>16 DEF SeekerReturns, Returns, HasEnded, handlers, laneVars, sessionVars
  <2>2. OneWinner'
    BY <1>16 DEF SeekerReturns, Returns, HasEnded, handlers, laneVars, sessionVars
  <2> QED BY <2>1, <2>2
<1>17. ASSUME NEW a \in Attempts, RaceTakes(a) PROVE (LosersAreClosed /\ OneWinner)'
  BY <1>17 DEF RaceTakes, Received, clientSide, handlers, laneVars, sessionVars
<1>18. ASSUME NEW a \in Attempts, RaceDrains(a) PROVE (LosersAreClosed /\ OneWinner)'
  BY <1>18 DEF RaceDrains, Received, Loser, handlers, laneVars, sessionVars
<1>19. ASSUME NEW a \in Attempts, JoinLooksUp(a) PROVE (LosersAreClosed /\ OneWinner)'
  BY <1>19 DEF JoinLooksUp, Answers, Leaves, raceVars, clientSide, laneVars, sessionVars
<1>20. ASSUME NEW a \in Attempts, JoinChecks(a) PROVE (LosersAreClosed /\ OneWinner)'
  BY <1>20 DEF JoinChecks, Answers, Leaves, raceVars, clientSide, laneVars, sessionVars
<1>21. ASSUME NEW a \in Attempts, JoinAdmits(a) PROVE (LosersAreClosed /\ OneWinner)'
  BY <1>21 DEF JoinAdmits, Retirable, Counted, OpenLanes, Evictable, AddLane, Refusal,
               raceVars, clientSide, sessionVars
<1>22. ASSUME NEW a \in Attempts, JoinAnswers(a) PROVE (LosersAreClosed /\ OneWinner)'
  BY <1>22 DEF JoinAnswers, Answers, Leaves, Withdrawn, Dropped, raceVars, clientSide,
               sessionVars
<1>23. ASSUME NEW a \in Attempts, JoinActivates(a) PROVE (LosersAreClosed /\ OneWinner)'
  BY <1>23 DEF JoinActivates, Leaves, Withdrawn, Dropped, raceVars, clientSide, sessionVars
<1>24. ASSUME NEW a \in Attempts, JoinDetaches(a) PROVE (LosersAreClosed /\ OneWinner)'
  BY <1>24 DEF JoinDetaches, Leaves, Dropped, raceVars, clientSide, sessionVars
<1>25. ASSUME NEW l \in LaneIds, ServerLaneFails(l) PROVE (LosersAreClosed /\ OneWinner)'
  BY <1>25 DEF ServerLaneFails, Dropped, raceVars, clientSide, handlers, sessionVars
<1>26. ASSUME NEW l \in LaneIds, LaneAges(l) PROVE (LosersAreClosed /\ OneWinner)'
  BY <1>26 DEF LaneAges, OpenLanes, raceVars, clientSide, handlers, sessionVars
<1> QED BY <1>1, <1>2, <1>3, <1>4, <1>5, <1>6, <1>7, <1>8, <1>9, <1>10, <1>11, <1>12, <1>13,
           <1>14, <1>15, <1>16, <1>17, <1>18, <1>19, <1>20, <1>21, <1>22, <1>23, <1>24,
           <1>25, <1>26
       DEF JoinNext, JoinWork

\* A lane is staged and settled by the handler of its own attempt, and by no other.
LEMMA StagedStep ==
  ASSUME JoinTypeOK, StagedHaveHandlers, JoinsFollowDials, JoinNext
  PROVE  (StagedHaveHandlers /\ JoinsFollowDials)'
<1> USE JoinConstants DEF JoinTypeOK, RaceTypeOK, HandlersTypeOK, ServerTypeOK, StagedHaveHandlers,
          JoinsFollowDials, LaneIds
<1>1. CASE RaceFollowsFlow
  BY <1>1 DEF RaceFollowsFlow, RaceIsOver, clientSide, handlers, laneVars, sessionVars
<1>2. CASE RaceAbandoned
  BY <1>2 DEF RaceAbandoned, RaceIsOver, clientSide, handlers, laneVars, sessionVars
<1>3. CASE RaceInstalls
  BY <1>3 DEF RaceInstalls, handlers, laneVars, sessionVars
<1>4. CASE ClientSignals
  BY <1>4 DEF ClientSignals, raceVars, handlers, laneVars, sessionVars
<1>5. CASE ServerSignals
  BY <1>5 DEF ServerSignals, raceVars, clientSide, handlers, laneVars
<1>6. CASE RunSettles
  BY <1>6 DEF RunSettles, Complete, raceVars, clientSide, handlers, laneVars
<1>7. CASE JoinOver
  BY <1>7 DEF JoinOver, joinVars, raceVars, clientSide, handlers, laneVars, sessionVars
<1>8. CASE RoundStarts
  BY <1>8 DEF RoundStarts, clientSide, handlers, laneVars, sessionVars
<1>9. CASE ClientSweeps
  BY <1>9 DEF ClientSweeps, raceVars, handlers, laneVars, sessionVars
<1>10. CASE ServerSweeps
  BY <1>10 DEF ServerSweeps, raceVars, clientSide, handlers
<1>11. CASE ServerFIN
  BY <1>11 DEF ServerFIN, raceVars, clientSide, handlers, laneVars
<1>12. CASE WatcherRetains
  BY <1>12 DEF WatcherRetains, raceVars, clientSide, handlers, laneVars
<1>13. CASE TombstoneExpires
  BY <1>13 DEF TombstoneExpires, raceVars, clientSide, handlers, laneVars
<1>14. ASSUME NEW a \in Attempts, SeekerDials(a) PROVE (StagedHaveHandlers /\ JoinsFollowDials)'
  BY <1>14 DEF SeekerDials, Returns, laneVars, sessionVars
<1>15. ASSUME NEW a \in Attempts, SeekerReads(a) PROVE (StagedHaveHandlers /\ JoinsFollowDials)'
  BY <1>15 DEF SeekerReads, Returns, HasEnded, handlers, laneVars, sessionVars
<1>16. ASSUME NEW a \in Attempts, SeekerReturns(a) PROVE (StagedHaveHandlers /\ JoinsFollowDials)'
  BY <1>16 DEF SeekerReturns, Returns, HasEnded, handlers, laneVars, sessionVars
<1>17. ASSUME NEW a \in Attempts, RaceTakes(a) PROVE (StagedHaveHandlers /\ JoinsFollowDials)'
  BY <1>17 DEF RaceTakes, Received, clientSide, handlers, laneVars, sessionVars
<1>18. ASSUME NEW a \in Attempts, RaceDrains(a) PROVE (StagedHaveHandlers /\ JoinsFollowDials)'
  BY <1>18 DEF RaceDrains, Received, Loser, handlers, laneVars, sessionVars
<1>19. ASSUME NEW a \in Attempts, JoinLooksUp(a) PROVE (StagedHaveHandlers /\ JoinsFollowDials)'
  BY <1>19 DEF JoinLooksUp, Answers, Leaves, raceVars, clientSide, laneVars, sessionVars
<1>20. ASSUME NEW a \in Attempts, JoinChecks(a) PROVE (StagedHaveHandlers /\ JoinsFollowDials)'
  BY <1>20 DEF JoinChecks, Answers, Leaves, raceVars, clientSide, laneVars, sessionVars
<1>21. ASSUME NEW a \in Attempts, JoinAdmits(a) PROVE (StagedHaveHandlers /\ JoinsFollowDials)'
  <2>1. PICK gone \in Retirable : AddLane(a, gone)
    BY <1>21 DEF JoinAdmits
  <2>2. gone \subseteq LaneIds
    BY <2>1 DEF Retirable, Evictable, OpenLanes, ServerTypeOK
  <2>3. JoinsFollowDials'
    BY <1>21, <2>1 DEF JoinAdmits, AddLane, raceVars
  <2>4. ASSUME NEW b \in Attempts, b \in serverLanes', serverEnd'[b] = "staged"
        PROVE  admit'[b] \in {"answering", "written"}
    <3>1. CASE b = a
      <4>1. ~(a \in serverLanes /\ serverEnd[a] = "staged")
        BY <1>21 DEF JoinAdmits
      <4> QED BY <2>1, <2>4, <3>1, <4>1 DEF AddLane
    <3>2. CASE b # a
      <4>1. b \in serverLanes /\ serverEnd[b] = "staged" /\ admit'[b] = admit[b]
        BY <2>1, <2>4, <3>2 DEF AddLane
      <4> QED BY <4>1
    <3> QED BY <3>1, <3>2
  <2> QED BY <2>3, <2>4
<1>22. ASSUME NEW a \in Attempts, JoinAnswers(a) PROVE (StagedHaveHandlers /\ JoinsFollowDials)'
  <2>1. CASE admit' = [admit EXCEPT ![a] = "written"] /\ UNCHANGED <<serverLanes, serverEnd>>
    BY <1>22, <2>1 DEF JoinAnswers, raceVars
  <2>2. CASE Withdrawn(a) /\ Leaves(a)
    BY <1>22, <2>2 DEF JoinAnswers, Withdrawn, Dropped, Leaves, raceVars
  <2> QED BY <1>22, <2>1, <2>2 DEF JoinAnswers
<1>23. ASSUME NEW a \in Attempts, JoinActivates(a) PROVE (StagedHaveHandlers /\ JoinsFollowDials)'
  <2>1. CASE /\ serverEnd' = [serverEnd EXCEPT ![a] = "ready"]
             /\ admit' = [admit EXCEPT ![a] = "attached"] /\ UNCHANGED serverLanes
    BY <1>23, <2>1 DEF JoinActivates, raceVars
  <2>2. CASE Withdrawn(a) /\ Leaves(a)
    BY <1>23, <2>2 DEF JoinActivates, Withdrawn, Dropped, Leaves, raceVars
  <2> QED BY <1>23, <2>1, <2>2 DEF JoinActivates
<1>24. ASSUME NEW a \in Attempts, JoinDetaches(a) PROVE (StagedHaveHandlers /\ JoinsFollowDials)'
  BY <1>24 DEF JoinDetaches, Leaves, Dropped, raceVars, clientSide, sessionVars
<1>25. ASSUME NEW l \in LaneIds, ServerLaneFails(l) PROVE (StagedHaveHandlers /\ JoinsFollowDials)'
  BY <1>25 DEF ServerLaneFails, Dropped, raceVars, clientSide, handlers, sessionVars
<1>26. ASSUME NEW l \in LaneIds, LaneAges(l) PROVE (StagedHaveHandlers /\ JoinsFollowDials)'
  BY <1>26 DEF LaneAges, OpenLanes, raceVars, clientSide, handlers, sessionVars
<1> QED BY <1>1, <1>2, <1>3, <1>4, <1>5, <1>6, <1>7, <1>8, <1>9, <1>10, <1>11, <1>12, <1>13,
           <1>14, <1>15, <1>16, <1>17, <1>18, <1>19, <1>20, <1>21, <1>22, <1>23, <1>24,
           <1>25, <1>26
       DEF JoinNext, JoinWork

\* The open lanes can be counted, and fewer of them are within the limit.
LEMMA OpenLanesAreFinite ==
  ASSUME JoinTypeOK
  PROVE  /\ IsFiniteSet(OpenLanes) /\ Cardinality(OpenLanes) \in Nat
         /\ \A S : S \subseteq OpenLanes =>
              IsFiniteSet(S) /\ Cardinality(S) \in Nat /\ Cardinality(S) <= Cardinality(OpenLanes)
<1>1. IsFiniteSet(LaneIds)
  BY JoinConstants, FS_Singleton, FS_Union DEF LaneIds
<1>2. OpenLanes \in SUBSET LaneIds
  BY DEF OpenLanes, JoinTypeOK, ServerTypeOK
<1>3. IsFiniteSet(OpenLanes)
  BY <1>1, <1>2, FS_Subset
<1> QED BY <1>3, FS_Subset, FS_CardinalityType

\* Only an admission opens a lane at the server.
LEMMA OpenLanesOnlyLeave ==
  ASSUME JoinTypeOK, JoinNext, \A a \in Attempts : ~JoinAdmits(a)
  PROVE  OpenLanes' \subseteq OpenLanes
<1> USE DEF OpenLanes, JoinTypeOK, ServerTypeOK, LaneIds
<1>1. CASE \/ RaceFollowsFlow \/ RaceAbandoned \/ RaceInstalls \/ RoundStarts \/ ClientSweeps
           \/ ClientSignals \/ \E a \in Attempts :
                SeekerDials(a) \/ SeekerReads(a) \/ SeekerReturns(a) \/ RaceTakes(a) \/ RaceDrains(a)
  BY <1>1 DEF RaceFollowsFlow, RaceAbandoned, RaceInstalls, RoundStarts, ClientSweeps,
              ClientSignals, SeekerDials, SeekerReads, SeekerReturns, RaceTakes, RaceDrains, laneVars
<1>2. CASE \/ ServerSignals \/ RunSettles \/ JoinOver \/ ServerFIN \/ WatcherRetains
           \/ TombstoneExpires \/ \E a \in Attempts : JoinLooksUp(a) \/ JoinChecks(a)
  BY <1>2 DEF ServerSignals, RunSettles, JoinOver, ServerFIN, WatcherRetains, TombstoneExpires,
              JoinLooksUp, JoinChecks, laneVars, joinVars
<1>3. CASE ServerSweeps
  BY <1>3 DEF ServerSweeps
<1>4. ASSUME NEW a \in Attempts, JoinAnswers(a) PROVE OpenLanes' \subseteq OpenLanes
  BY <1>4 DEF JoinAnswers, Withdrawn, Dropped
<1>5. ASSUME NEW a \in Attempts, JoinActivates(a) PROVE OpenLanes' \subseteq OpenLanes
  BY <1>5 DEF JoinActivates, Withdrawn, Dropped
<1>6. ASSUME NEW a \in Attempts, JoinDetaches(a) PROVE OpenLanes' \subseteq OpenLanes
  BY <1>6 DEF JoinDetaches, Dropped
<1>7. ASSUME NEW l \in LaneIds, ServerLaneFails(l) \/ LaneAges(l)
      PROVE  OpenLanes' \subseteq OpenLanes
  BY <1>7 DEF ServerLaneFails, LaneAges, Dropped
<1> QED BY <1>1, <1>2, <1>3, <1>4, <1>5, <1>6, <1>7 DEF JoinNext, JoinWork

\* Whatever arrives at once, the limit holds: an admission counts what is left after it
\* has retired a lane.
LEMMA LimitStep ==
  ASSUME JoinTypeOK, Cardinality(OpenLanes) <= LaneLimit, JoinNext
  PROVE  Cardinality(OpenLanes') <= LaneLimit
<1> USE JoinConstants
<1>1. CASE \A a \in Attempts : ~JoinAdmits(a)
  BY <1>1, OpenLanesOnlyLeave, OpenLanesAreFinite
<1>2. ASSUME NEW a \in Attempts, JoinAdmits(a) PROVE Cardinality(OpenLanes') <= LaneLimit
  <2>1. PICK gone \in Retirable : AddLane(a, gone)
    BY <1>2 DEF JoinAdmits
  <2> DEFINE left == OpenLanes \ gone
  <2>2. /\ IsFiniteSet(left) /\ Cardinality(left) \in Nat
        /\ Cardinality(left) <= Cardinality(OpenLanes)
    BY OpenLanesAreFinite
  <2>3. CASE Cardinality(left) < LaneLimit /\ serverFlow # "done"
    <3>1. OpenLanes' \subseteq left \cup {a}
      BY <2>1, <2>3 DEF AddLane, Counted, OpenLanes, JoinTypeOK, ServerTypeOK, LaneIds
    <3>2. /\ IsFiniteSet(left \cup {a})
          /\ \/ Cardinality(left \cup {a}) = Cardinality(left)
             \/ Cardinality(left \cup {a}) = Cardinality(left) + 1
      BY <2>2, FS_AddElement
    <3>3. Cardinality(left \cup {a}) \in Nat
      BY <3>2, FS_CardinalityType
    <3>4. Cardinality(OpenLanes') <= Cardinality(left \cup {a}) /\ Cardinality(OpenLanes') \in Nat
      BY <3>1, <3>2, FS_Subset, FS_CardinalityType
    <3> QED BY <2>2, <2>3, <3>2, <3>3, <3>4
  <2>4. CASE ~(Cardinality(left) < LaneLimit /\ serverFlow # "done")
    <3>1. OpenLanes' \subseteq OpenLanes
      BY <2>1, <2>4 DEF AddLane, Counted, OpenLanes, JoinTypeOK, ServerTypeOK, LaneIds
    <3> QED BY <3>1, OpenLanesAreFinite
  <2> QED BY <2>3, <2>4
<1> QED BY <1>1, <1>2

\* A refusal for good and a final acknowledgement have their grounds, and keep them.
LEMMA WordsStep ==
  ASSUME JoinTypeOK, FinalWordIsTrue, TombstoneStands, WordsHaveGrounds, JoinNext
  PROVE  (FinalWordIsTrue /\ TombstoneStands /\ WordsHaveGrounds)'
<1> USE JoinConstants DEF JoinTypeOK, RaceTypeOK, HandlersTypeOK, ServerTypeOK, FinalWordIsTrue,
          TombstoneStands, WordsHaveGrounds, Both
<1>1. CASE RaceFollowsFlow
  BY <1>1 DEF RaceFollowsFlow, RaceIsOver, clientSide, handlers, laneVars, sessionVars
<1>2. CASE RaceAbandoned
  BY <1>2 DEF RaceAbandoned, RaceIsOver, clientSide, handlers, laneVars, sessionVars
<1>3. CASE RaceInstalls
  BY <1>3 DEF RaceInstalls, handlers, laneVars, sessionVars
<1>4. CASE ClientSignals
  BY <1>4 DEF ClientSignals, raceVars, handlers, laneVars, sessionVars
<1>5. CASE ServerSignals
  BY <1>5 DEF ServerSignals, raceVars, clientSide, handlers, laneVars
<1>6. CASE RunSettles
  BY <1>6 DEF RunSettles, Complete, raceVars, clientSide, handlers, laneVars
<1>7. CASE JoinOver
  BY <1>7 DEF JoinOver, joinVars, raceVars, clientSide, handlers, laneVars, sessionVars
<1>8. CASE RoundStarts
  BY <1>8 DEF RoundStarts, clientSide, handlers, laneVars, sessionVars
<1>9. CASE ClientSweeps
  BY <1>9 DEF ClientSweeps, raceVars, handlers, laneVars, sessionVars
<1>10. CASE ServerSweeps
  BY <1>10 DEF ServerSweeps, raceVars, clientSide, handlers
<1>11. CASE ServerFIN
  BY <1>11 DEF ServerFIN, raceVars, clientSide, handlers, laneVars
<1>12. CASE WatcherRetains
  BY <1>12 DEF WatcherRetains, raceVars, clientSide, handlers, laneVars
<1>13. CASE TombstoneExpires
  BY <1>13 DEF TombstoneExpires, raceVars, clientSide, handlers, laneVars
<1>14. ASSUME NEW a \in Attempts, SeekerDials(a) PROVE (FinalWordIsTrue /\ TombstoneStands /\ WordsHaveGrounds)'
  BY <1>14 DEF SeekerDials, Returns, laneVars, sessionVars
<1>15. ASSUME NEW a \in Attempts, SeekerReads(a) PROVE (FinalWordIsTrue /\ TombstoneStands /\ WordsHaveGrounds)'
  BY <1>15 DEF SeekerReads, Returns, HasEnded, handlers, laneVars, sessionVars
<1>16. ASSUME NEW a \in Attempts, SeekerReturns(a) PROVE (FinalWordIsTrue /\ TombstoneStands /\ WordsHaveGrounds)'
  BY <1>16 DEF SeekerReturns, Returns, HasEnded, handlers, laneVars, sessionVars
<1>17. ASSUME NEW a \in Attempts, RaceTakes(a) PROVE (FinalWordIsTrue /\ TombstoneStands /\ WordsHaveGrounds)'
  BY <1>17 DEF RaceTakes, Received, clientSide, handlers, laneVars, sessionVars
<1>18. ASSUME NEW a \in Attempts, RaceDrains(a) PROVE (FinalWordIsTrue /\ TombstoneStands /\ WordsHaveGrounds)'
  BY <1>18 DEF RaceDrains, Received, Loser, handlers, laneVars, sessionVars
<1>19. ASSUME NEW a \in Attempts, JoinLooksUp(a) PROVE (FinalWordIsTrue /\ TombstoneStands /\ WordsHaveGrounds)'
  BY <1>19 DEF JoinLooksUp, Answers, Leaves, raceVars, clientSide, laneVars, sessionVars
<1>20. ASSUME NEW a \in Attempts, JoinChecks(a) PROVE (FinalWordIsTrue /\ TombstoneStands /\ WordsHaveGrounds)'
  BY <1>20 DEF JoinChecks, Answers, Leaves, raceVars, clientSide, laneVars, sessionVars
<1>21. ASSUME NEW a \in Attempts, JoinAdmits(a) PROVE (FinalWordIsTrue /\ TombstoneStands /\ WordsHaveGrounds)'
  BY <1>21 DEF JoinAdmits, Retirable, Counted, OpenLanes, Evictable, AddLane, Refusal,
               raceVars, clientSide, sessionVars
<1>22. ASSUME NEW a \in Attempts, JoinAnswers(a) PROVE (FinalWordIsTrue /\ TombstoneStands /\ WordsHaveGrounds)'
  BY <1>22 DEF JoinAnswers, Answers, Leaves, Withdrawn, Dropped, raceVars, clientSide,
               sessionVars
<1>23. ASSUME NEW a \in Attempts, JoinActivates(a) PROVE (FinalWordIsTrue /\ TombstoneStands /\ WordsHaveGrounds)'
  BY <1>23 DEF JoinActivates, Leaves, Withdrawn, Dropped, raceVars, clientSide, sessionVars
<1>24. ASSUME NEW a \in Attempts, JoinDetaches(a) PROVE (FinalWordIsTrue /\ TombstoneStands /\ WordsHaveGrounds)'
  BY <1>24 DEF JoinDetaches, Leaves, Dropped, raceVars, clientSide, sessionVars
<1>25. ASSUME NEW l \in LaneIds, ServerLaneFails(l) PROVE (FinalWordIsTrue /\ TombstoneStands /\ WordsHaveGrounds)'
  BY <1>25 DEF ServerLaneFails, Dropped, raceVars, clientSide, handlers, sessionVars
<1>26. ASSUME NEW l \in LaneIds, LaneAges(l) PROVE (FinalWordIsTrue /\ TombstoneStands /\ WordsHaveGrounds)'
  BY <1>26 DEF LaneAges, OpenLanes, raceVars, clientSide, handlers, sessionVars
<1> QED BY <1>1, <1>2, <1>3, <1>4, <1>5, <1>6, <1>7, <1>8, <1>9, <1>10, <1>11, <1>12, <1>13,
           <1>14, <1>15, <1>16, <1>17, <1>18, <1>19, <1>20, <1>21, <1>22, <1>23, <1>24,
           <1>25, <1>26
       DEF JoinNext, JoinWork

\* The invariant holds of every reachable state.
THEOREM JoinInvariance == JoinSpec => []JoinIInv
<1>1. JoinIInv /\ [JoinNext]_joinVars => JoinIInv'
  <2> SUFFICES ASSUME JoinIInv, [JoinNext]_joinVars PROVE JoinIInv'
    OBVIOUS
  <2>1. CASE UNCHANGED joinVars
    <3>1. /\ UNCHANGED <<racers, rescue, pending, over, gaveUp, winner, seeker, outcome>>
          /\ UNCHANGED <<clientEnd, clientLanes, clientFlow, admit, answer>>
          /\ UNCHANGED <<serverEnd, serverLanes, aged>>
          /\ UNCHANGED <<serverFlow, fins, runner, completed, registered>>
      BY <2>1 DEF joinVars, raceVars, clientSide, handlers, laneVars, sessionVars
    <3>2. JoinTypeOK'
      BY <3>1 DEF JoinIInv, JoinTypeOK, RaceTypeOK, ClientTypeOK, HandlersTypeOK, ServerTypeOK
    <3>3. (LosersAreClosed /\ OneWinner /\ JoinsFollowDials)'
      BY <3>1 DEF JoinIInv, LosersAreClosed, OneWinner, JoinsFollowDials
    <3>4. SlotsAreKept'
      BY <3>1 DEF JoinIInv, SlotsAreKept, OpenLanes, StagedHaveHandlers
    <3>5. (FinalWordIsTrue /\ TombstoneStands /\ WordsHaveGrounds)'
      BY <3>1 DEF JoinIInv, FinalWordIsTrue, TombstoneStands, WordsHaveGrounds
    <3> QED BY <3>2, <3>3, <3>4, <3>5 DEF JoinIInv
  <2>2. CASE JoinNext
    <3>1. JoinTypeOK'
      BY <2>2, JoinTypes DEF JoinIInv
    <3>2. (LosersAreClosed /\ OneWinner)'
      BY <2>2, LosersStep DEF JoinIInv
    <3>3. (StagedHaveHandlers /\ JoinsFollowDials)'
      BY <2>2, StagedStep DEF JoinIInv, SlotsAreKept
    <3>4. (Cardinality(OpenLanes) <= LaneLimit)'
      BY <2>2, LimitStep DEF JoinIInv, SlotsAreKept
    <3>5. (FinalWordIsTrue /\ TombstoneStands /\ WordsHaveGrounds)'
      BY <2>2, WordsStep DEF JoinIInv
    <3> QED BY <3>1, <3>2, <3>3, <3>4, <3>5 DEF JoinIInv, SlotsAreKept
  <2> QED BY <2>1, <2>2
<1> QED BY JoinInitInv, <1>1, PTL DEF JoinSpec

\* A race for a lane leaves no stream open, the server keeps its cap and settles every
\* lane it staged, and what a client is told for good is true (client.go:1994,
\* server.go:534), whatever is lost, late or refused on the way.
THEOREM JoiningIsSafe == JoinSpec => []JoinInv
<1>1. JoinIInv => JoinInv
  BY DEF JoinIInv, JoinInv, CostsInv, FinalInv
<1> QED BY <1>1, JoinInvariance, PTL


\* "A freshly admitted lane may still be waiting on the peer's decision": the JOIN of
\* another attempt closes no lane before that lane's time (mpflow.go:914).
THEOREM NoYoungLaneIsEvicted == JoinSpec => YoungLanesStay
<1> DEFINE Stay ==
      \A a, b \in Attempts :
        a # b /\ admit[b] = "admitting" /\ admit'[b] # "admitting"
        /\ a \in OpenLanes /\ a \notin OpenLanes' => a \in aged
<1>1. JoinIInv /\ [JoinNext]_joinVars => [Stay]_joinVars
  <2> SUFFICES ASSUME JoinIInv, JoinNext, NEW a \in Attempts, NEW b \in Attempts, a # b,
                      admit[b] = "admitting", admit'[b] # "admitting",
                      a \in OpenLanes, a \notin OpenLanes'
               PROVE  a \in aged
    BY DEF joinVars
  <2>1. JoinTypeOK /\ JoinsFollowDials
    BY DEF JoinIInv
  <2>2. JoinAdmits(b)
    <3> USE <2>1 DEF JoinTypeOK, HandlersTypeOK, JoinsFollowDials
    <3>1. CASE \/ RaceFollowsFlow \/ RaceAbandoned \/ RaceInstalls \/ RoundStarts \/ ClientSweeps
               \/ ClientSignals \/ ServerSignals \/ RunSettles \/ JoinOver
      BY <3>1 DEF RaceFollowsFlow, RaceAbandoned, RaceInstalls, RoundStarts, ClientSweeps,
                  ClientSignals, ServerSignals, RunSettles, JoinOver, handlers, joinVars
    <3>2. CASE ServerSweeps \/ ServerFIN \/ WatcherRetains \/ TombstoneExpires
               \/ \E l \in LaneIds : ServerLaneFails(l) \/ LaneAges(l)
      BY <3>2 DEF ServerSweeps, ServerFIN, WatcherRetains, TombstoneExpires, ServerLaneFails,
                  LaneAges, handlers
    <3>3. ASSUME NEW c \in Attempts,
                 SeekerReads(c) \/ SeekerReturns(c) \/ RaceTakes(c) \/ RaceDrains(c)
          PROVE  FALSE
      BY <3>3 DEF SeekerReads, SeekerReturns, RaceTakes, RaceDrains, handlers
    <3>4. ASSUME NEW c \in Attempts, SeekerDials(c) PROVE FALSE
      BY <3>4 DEF SeekerDials
    <3>5. ASSUME NEW c \in Attempts,
                 \/ JoinLooksUp(c) \/ JoinChecks(c) \/ JoinAnswers(c) \/ JoinActivates(c)
                 \/ JoinDetaches(c)
          PROVE  FALSE
      BY <3>5 DEF JoinLooksUp, JoinChecks, JoinAnswers, JoinActivates, JoinDetaches, Leaves
    <3>6. ASSUME NEW c \in Attempts, JoinAdmits(c), c # b PROVE FALSE
      BY <3>6 DEF JoinAdmits, AddLane
    <3> QED BY <3>1, <3>2, <3>3, <3>4, <3>5, <3>6 DEF JoinNext, JoinWork
  <2>3. PICK gone \in Retirable : AddLane(b, gone)
    BY <2>2 DEF JoinAdmits
  <2>4. a \in gone
    BY <2>1, <2>3 DEF AddLane, OpenLanes, JoinTypeOK, ServerTypeOK, LaneIds
  <2> QED BY <2>3, <2>4 DEF Retirable, Evictable
<1> QED BY JoinInvariance, <1>1, PTL DEF JoinSpec, YoungLanesStay
-----------------------------------------------------------------------------
(* The demultiplexer.  Three things hold it together beside its types: while   *)
(* the connection lives there is one demultiplexer, every lane that reads has *)
(* a queue of it, and a queue is one flow's of one demultiplexer              *)
(* (LanesBelong).  Then the queue a leaving lane lets go of is its own, and the *)
(* count of lanes in a queue is what says whether it was the last.            *)
(*                                                                         *)
(* The frames: a step moves a frame from the network, the held ones or one    *)
(* queue to one other place, so what arrived stays accounted for.  That the    *)
(* selection by flow neither drops nor adds any is the lemma AmongSelects,     *)
(* along the length of the sequence.                                         *)

Elems(s) == {s[i] : i \in DOMAIN s}

LEMMA AppendElems ==
  ASSUME NEW D, NEW s \in Seq(D), NEW x \in D PROVE Elems(Append(s, x)) = Elems(s) \cup {x}
<1>1. /\ Len(s) \in Nat /\ DOMAIN s = 1..Len(s)
      /\ DOMAIN Append(s, x) = 1..(Len(s) + 1) /\ Append(s, x)[Len(s) + 1] = x
      /\ \A i \in 1..Len(s) : Append(s, x)[i] = s[i]
  OBVIOUS
<1>2. 1..(Len(s) + 1) = 1..Len(s) \cup {Len(s) + 1}
  BY <1>1
<1> QED BY <1>1, <1>2 DEF Elems

\* One step of the selection of module BulkDemux.
KeptNext(S, s, g, i) ==
  IF i = 0 THEN <<>> ELSE IF s[i] \in S THEN Append(g[i - 1], s[i]) ELSE g[i - 1]

Kept(S, s) == CHOOSE g : g = [i \in 0..Len(s) |-> KeptNext(S, s, g, i)]

LEMMA AmongIsKept == ASSUME NEW S, NEW s PROVE Among(S, s) = Kept(S, s)[Len(s)]
BY DEF Among, Kept, KeptNext

\* The selection's recursion has a solution.
LEMMA KeptUnfolds ==
  ASSUME NEW S, NEW D, NEW s \in Seq(D)
  PROVE  \A i \in 0..Len(s) : Kept(S, s)[i] = KeptNext(S, s, Kept(S, s), i)
<1> DEFINE Solved(n) == \E g : g = [i \in 0..n |-> KeptNext(S, s, g, i)]
           Open == {n \in Nat : ~Solved(n)}
<1>1. Solved(0)
  <2>1. [i \in 0..0 |-> <<>>] = [i \in 0..0 |-> KeptNext(S, s, [j \in 0..0 |-> <<>>], i)]
    BY DEF KeptNext
  <2> QED BY <2>1
<1>2. ASSUME NEW n \in Nat, Solved(n) PROVE Solved(n + 1)
  <2>1. PICK g : g = [i \in 0..n |-> KeptNext(S, s, g, i)]
    BY <1>2
  <2> DEFINE h == [i \in 0..(n + 1) |-> KeptNext(S, s, g, i)]
  <2>2. ASSUME NEW i \in 0..(n + 1) PROVE KeptNext(S, s, h, i) = KeptNext(S, s, g, i)
    <3>1. CASE i = 0
      BY <3>1 DEF KeptNext
    <3>2. CASE i # 0
      <4>1. i - 1 \in 0..n /\ i - 1 \in 0..(n + 1)
        BY <3>2
      <4>2. h[i - 1] = g[i - 1]
        BY <2>1, <4>1
      <4> HIDE DEF h
      <4> QED BY <3>2, <4>2 DEF KeptNext
    <3> QED BY <3>1, <3>2
  <2>3. h = [i \in 0..(n + 1) |-> KeptNext(S, s, h, i)]
    BY <2>2
  <2> QED BY <2>3
<1>3. Open = {}
  <2> SUFFICES ASSUME Open # {} PROVE FALSE
    OBVIOUS
  <2>1. \E n \in Open : \A m \in Open : n <= m
    <3>1. Open \subseteq Nat
      OBVIOUS
    <3> HIDE DEF Open
    <3> QED BY <3>1, LeastNatural
  <2>2. PICK n \in Open : \A m \in Open : n <= m
    BY <2>1
  <2> HIDE DEF Solved
  <2>3. n # 0 /\ n \in Nat /\ ~Solved(n)
    BY <1>1, <2>2
  <2>4. n - 1 \in Nat /\ n - 1 \notin Open
    BY <2>2, <2>3
  <2>5. Solved(n - 1 + 1)
    BY <1>2, <2>4
  <2> QED BY <2>3, <2>5
<1>4. Len(s) \in Nat
  OBVIOUS
<1>5. Solved(Len(s))
  <2> HIDE DEF Solved
  <2> QED BY <1>3, <1>4
<1>6. Kept(S, s) = [i \in 0..Len(s) |-> KeptNext(S, s, Kept(S, s), i)]
  BY <1>5 DEF Kept
<1> HIDE DEF Solved, Open
<1> QED BY <1>6

\* What is selected are the frames of s that are in S, and no more than there are.
LEMMA AmongSelects ==
  ASSUME NEW S, NEW D, NEW s \in Seq(D)
  PROVE  Among(S, s) \in Seq(D) /\ Len(Among(S, s)) <= Len(s) /\ Elems(Among(S, s)) = Elems(s) \cap S
<1> DEFINE k == Kept(S, s)
           Fine(i) == k[i] \in Seq(D) /\ Len(k[i]) <= i /\ Elems(k[i]) = {s[j] : j \in 1..i} \cap S
           Bad == {i \in 0..Len(s) : ~Fine(i)}
<1>0. Len(s) \in Nat /\ DOMAIN s = 1..Len(s) /\ \A i \in 1..Len(s) : s[i] \in D
  OBVIOUS
<1>1. \A i \in 0..Len(s) : k[i] = KeptNext(S, s, k, i)
  BY KeptUnfolds
<1> HIDE DEF k
<1>2. Fine(0)
  <2>1. k[0] = <<>>
    BY <1>0, <1>1 DEF KeptNext
  <2> QED BY <2>1 DEF Elems
<1>3. ASSUME NEW i \in 1..Len(s), Fine(i - 1) PROVE Fine(i)
  <2>1. i - 1 \in Nat /\ {s[j] : j \in 1..i} = {s[j] : j \in 1..(i - 1)} \cup {s[i]}
    BY <1>0
  <2>2. k[i] = IF s[i] \in S THEN Append(k[i - 1], s[i]) ELSE k[i - 1]
    BY <1>0, <1>1 DEF KeptNext
  <2>3. CASE s[i] \in S
    <3>1. k[i] = Append(k[i - 1], s[i]) /\ k[i - 1] \in Seq(D) /\ s[i] \in D
      BY <1>0, <1>3, <2>2, <2>3
    <3>2. k[i] \in Seq(D) /\ Len(k[i]) = Len(k[i - 1]) + 1
      BY <3>1
    <3>3. Elems(k[i]) = Elems(k[i - 1]) \cup {s[i]}
      BY <3>1, AppendElems
    <3>4. Len(k[i]) <= i
      BY <1>0, <1>3, <3>1, <3>2
    <3> QED BY <1>3, <2>1, <2>3, <3>2, <3>3, <3>4
  <2>4. CASE s[i] \notin S
    <3>1. k[i] = k[i - 1]
      BY <2>2, <2>4
    <3> QED BY <1>0, <1>3, <2>1, <2>4, <3>1
  <2> QED BY <2>3, <2>4
<1>4. Bad = {}
  <2> SUFFICES ASSUME Bad # {} PROVE FALSE
    OBVIOUS
  <2>1. \E n \in Bad : \A m \in Bad : n <= m
    <3>1. Bad \subseteq Nat
      BY <1>0
    <3> HIDE DEF Bad
    <3> QED BY <3>1, LeastNatural
  <2>2. PICK n \in Bad : \A m \in Bad : n <= m
    BY <2>1
  <2> HIDE DEF Fine
  <2>3. n \in 1..Len(s) /\ ~Fine(n)
    BY <1>0, <1>2, <2>2
  <2>4. n - 1 \in 0..Len(s) /\ n - 1 \notin Bad
    BY <1>0, <2>2, <2>3
  <2> QED BY <1>3, <2>3, <2>4
<1>5. Fine(Len(s))
  <2> HIDE DEF Fine
  <2> QED BY <1>0, <1>4
<1> QED BY <1>0, <1>5, AmongIsKept DEF Elems, k

ChanType == [frames : Seq(BulkFrames), lanes : Nat, closed : BOOLEAN]

DemuxTypeOK ==
  /\ path \in {"open", "dying", "closed"}
  /\ made \in 0..2 /\ entry \in 0..made /\ routing \subseteq 1..made
  /\ chans \in Seq(ChanType)
  /\ flows \in [Demuxes -> [BulkFlows -> 0..Len(chans)]]
  /\ held \in [Demuxes -> Seq(BulkFrames)]
  /\ lane \in [BulkReaders -> {"idle", "found", "reading", "gone"}]
  /\ using \in [BulkReaders -> 0..made] /\ reads \in [BulkReaders -> 0..Len(chans)]
  /\ coming \subseteq BulkFrames /\ spent \subseteq BulkFrames

Reading == {r \in BulkReaders : lane[r] = "reading"}

\* A lane that found a demultiplexer uses one, a lane that reads has a queue; while the
\* connection lives there is no second demultiplexer; and a queue is one flow's.
LanesBelong ==
  /\ \A r \in BulkReaders : /\ lane[r] \in {"found", "reading"} => using[r] # 0
                            /\ lane[r] = "reading" => reads[r] # 0
  /\ IsFiniteSet(Reading)
  /\ path # "closed" => entry = made /\ made <= 1
  /\ \A d \in Demuxes, f \in BulkFlows : d > made => flows[d][f] = 0
  /\ \A d \in Demuxes, f \in BulkFlows : flows[d][f] # 0 =>
       /\ \A r \in Reading : reads[r] = flows[d][f] => r[1] = f
       /\ \A b \in Demuxes, g \in BulkFlows : flows[b][g] = flows[d][f] => b = d /\ g = f

DemuxIInv == DemuxTypeOK /\ LanesBelong /\ DemuxInv

LEMMA DemuxInitInv == DemuxInit => DemuxIInv
<1> SUFFICES ASSUME DemuxInit PROVE DemuxIInv
  OBVIOUS
<1>1. Len(chans) = 0 /\ DOMAIN chans = {} /\ chans \in Seq(ChanType)
  BY DEF DemuxInit
<1>2. DemuxTypeOK
  BY <1>1 DEF DemuxInit, DemuxTypeOK
<1>3. Reading = {}
  BY DEF DemuxInit, Reading
<1>4. LanesBelong
  BY <1>3, FS_EmptySet DEF DemuxInit, LanesBelong, Demuxes
<1>5. SharesAreHeld
  BY DEF DemuxInit, SharesAreHeld
<1>6. FramesFindTheirFlow
  BY <1>1, BulkDemuxConstants DEF DemuxInit, FramesFindTheirFlow, Demuxes
<1> QED BY <1>2, <1>4, <1>5, <1>6 DEF DemuxIInv, DemuxInv

\* One queue becomes e, and the others stay.
LEMMA OneChan ==
  ASSUME DemuxTypeOK, NEW c \in 1..Len(chans), NEW e \in ChanType, chans' = [chans EXCEPT ![c] = e]
  PROVE  /\ chans' \in Seq(ChanType) /\ Len(chans') = Len(chans) /\ DOMAIN chans' = 1..Len(chans)
         /\ chans'[c] = e /\ \A b \in (1..Len(chans)) \ {c} : chans'[b] = chans[b]
<1>1. chans \in Seq(ChanType) /\ Len(chans) \in Nat
  BY DEF DemuxTypeOK
<1> QED BY <1>1

LEMMA ChanIn ==
  ASSUME DemuxTypeOK, NEW c \in 1..Len(chans)
  PROVE  /\ chans[c] \in ChanType /\ chans[c].frames \in Seq(BulkFrames) /\ chans[c].lanes \in Nat
         /\ chans[c].closed \in BOOLEAN
<1>1. chans \in Seq(ChanType) /\ Len(chans) \in Nat
  BY DEF DemuxTypeOK
<1>2. chans[c] \in ChanType
  BY <1>1
<1> QED BY <1>2 DEF ChanType

\* What each step does to the queues.
LEMMA TakeQueue ==
  ASSUME DemuxTypeOK, LanesBelong, NEW r \in BulkReaders, Take(r)
  PROVE  LET c == reads[r] IN
         /\ c \in 1..Len(chans) /\ chans[c].frames # <<>>
         /\ chans' \in Seq(ChanType) /\ Len(chans') = Len(chans)
         /\ chans'[c].frames = Tail(chans[c].frames)
         /\ chans'[c].lanes = chans[c].lanes /\ chans'[c].closed = chans[c].closed
         /\ \A b \in (1..Len(chans)) \ {c} : chans'[b] = chans[b]
         /\ spent' = spent \cup {Head(chans[c].frames)}
<1> DEFINE c == reads[r]
           e == [chans[c] EXCEPT !.frames = Tail(chans[c].frames)]
<1>1. c \in 1..Len(chans) /\ chans[c].frames # <<>>
  BY DEF Take, LanesBelong, DemuxTypeOK
<1>2. chans[c] \in ChanType /\ Tail(chans[c].frames) \in Seq(BulkFrames)
  BY <1>1, ChanIn
<1>3. e \in ChanType /\ e.frames = Tail(chans[c].frames) /\ e.lanes = chans[c].lanes /\ e.closed = chans[c].closed
  BY <1>2 DEF ChanType
<1>4. chans' = [chans EXCEPT ![c] = e] /\ spent' = spent \cup {Head(chans[c].frames)}
  BY <1>1 DEF Take
<1> HIDE DEF e
<1>5. /\ chans' \in Seq(ChanType) /\ Len(chans') = Len(chans)
      /\ chans'[c] = e /\ \A b \in (1..Len(chans)) \ {c} : chans'[b] = chans[b]
  <2> HIDE DEF c
  <2> QED BY <1>1, <1>3, <1>4, OneChan
<1> QED BY <1>1, <1>3, <1>4, <1>5

LEMMA ReleasedQueue ==
  ASSUME DemuxTypeOK, NEW d \in Demuxes, NEW f \in BulkFlows, flows[d][f] # 0, Released(d, f)
  PROVE  LET c == flows[d][f] IN
         /\ c \in 1..Len(chans) /\ chans' \in Seq(ChanType) /\ Len(chans') = Len(chans)
         /\ chans'[c].frames = chans[c].frames
         /\ \A b \in (1..Len(chans)) \ {c} : chans'[b] = chans[b]
         /\ \/ /\ chans[c].lanes > 1 /\ chans'[c].lanes = chans[c].lanes - 1
               /\ chans'[c].closed = chans[c].closed /\ flows' = flows
            \/ chans[c].lanes <= 1 /\ flows' = [flows EXCEPT ![d][f] = 0]
<1> DEFINE c == flows[d][f]
           e == IF chans[c].lanes > 1 THEN [chans[c] EXCEPT !.lanes = chans[c].lanes - 1]
                ELSE [chans[c] EXCEPT !.lanes = 0, !.closed = TRUE]
<1>1. c \in 1..Len(chans)
  BY DEF DemuxTypeOK
<1>2. chans[c] \in ChanType /\ chans[c].lanes \in Nat
  BY <1>1, ChanIn
<1>3. e \in ChanType /\ e.frames = chans[c].frames
  <2>1. CASE chans[c].lanes > 1
    <3>1. e = [chans[c] EXCEPT !.lanes = chans[c].lanes - 1] /\ chans[c].lanes - 1 \in Nat
      BY <1>2, <2>1
    <3> HIDE DEF e
    <3> QED BY <1>2, <3>1 DEF ChanType
  <2>2. CASE ~(chans[c].lanes > 1)
    <3>1. e = [chans[c] EXCEPT !.lanes = 0, !.closed = TRUE]
      BY <2>2
    <3> HIDE DEF e
    <3> QED BY <1>2, <3>1 DEF ChanType
  <2> QED BY <2>1, <2>2
<1>4. chans[c].lanes > 1 => e.lanes = chans[c].lanes - 1 /\ e.closed = chans[c].closed
  BY <1>2 DEF ChanType
<1>5. chans' = [chans EXCEPT ![c] = e]
  BY DEF Released
<1>6. IF chans[c].lanes > 1 THEN flows' = flows ELSE flows' = [flows EXCEPT ![d][f] = 0]
  BY DEF Released
<1> HIDE DEF e
<1>7. /\ chans' \in Seq(ChanType) /\ Len(chans') = Len(chans)
      /\ chans'[c] = e /\ \A b \in (1..Len(chans)) \ {c} : chans'[b] = chans[b]
  <2> HIDE DEF c
  <2> QED BY <1>1, <1>3, <1>5, OneChan
<1> HIDE DEF c
<1>8. chans[c].lanes > 1 \/ chans[c].lanes <= 1
  BY <1>2
<1> QED BY <1>1, <1>3, <1>4, <1>6, <1>7, <1>8 DEF c

LEMMA RoutedQueue ==
  ASSUME DemuxTypeOK, NEW d \in Demuxes, NEW m \in BulkFrames, flows[d][m[1]] # 0, Route(d, m)
  PROVE  LET c == flows[d][m[1]] IN
         /\ c \in 1..Len(chans) /\ chans' \in Seq(ChanType) /\ Len(chans') = Len(chans)
         /\ chans'[c].lanes = chans[c].lanes /\ chans'[c].closed = chans[c].closed
         /\ \A b \in (1..Len(chans)) \ {c} : chans'[b] = chans[b]
         /\ \/ chans'[c].frames = Append(chans[c].frames, m) /\ spent' = spent
            \/ chans'[c].frames = chans[c].frames /\ spent' = spent \cup {m}
         /\ held' = held
<1> DEFINE c == flows[d][m[1]]
           e == [chans[c] EXCEPT !.frames = Append(chans[c].frames, m)]
<1>0. m[1] \in BulkFlows
  BY BulkDemuxConstants
<1>1. c \in 1..Len(chans)
  BY <1>0 DEF DemuxTypeOK
<1>2. chans[c] \in ChanType /\ chans[c].frames \in Seq(BulkFrames)
  BY <1>1, ChanIn
<1>3. e \in ChanType /\ e.frames = Append(chans[c].frames, m) /\ e.lanes = chans[c].lanes /\ e.closed = chans[c].closed
  <2>1. Append(chans[c].frames, m) \in Seq(BulkFrames)
    BY <1>2
  <2> QED BY <1>2, <2>1 DEF ChanType
<1>4. /\ \/ chans' = [chans EXCEPT ![c] = e] /\ spent' = spent
         \/ chans' = chans /\ spent' = spent \cup {m}
      /\ held' = held
  BY <1>1 DEF Route
<1> HIDE DEF e
<1>5. CASE chans' = [chans EXCEPT ![c] = e] /\ spent' = spent
  <2>1. /\ chans' \in Seq(ChanType) /\ Len(chans') = Len(chans)
        /\ chans'[c] = e /\ \A b \in (1..Len(chans)) \ {c} : chans'[b] = chans[b]
    <3> HIDE DEF c
    <3> QED BY <1>1, <1>3, <1>5, OneChan
  <2> HIDE DEF c
  <2> QED BY <1>1, <1>3, <1>4, <1>5, <2>1 DEF c
<1>6. CASE chans' = chans /\ spent' = spent \cup {m}
  BY <1>1, <1>4, <1>6 DEF DemuxTypeOK
<1> QED BY <1>4, <1>5, <1>6

\* What is held and the queues of a lane that subscribes.
LEMMA SubscribeQueue ==
  ASSUME DemuxTypeOK, LanesBelong, NEW r \in BulkReaders, Subscribe(r)
  PROVE  LET d == using[r]  f == r[1] IN
         /\ d \in Demuxes /\ d \in 1..made /\ f \in BulkFlows /\ lane[r] = "found"
         /\ lane' = [lane EXCEPT ![r] = "reading"]
         /\ \/ /\ flows[d][f] = 0
               /\ chans' \in Seq(ChanType) /\ Len(chans') = Len(chans) + 1
               /\ \A c \in 1..Len(chans) : chans'[c] = chans[c]
               /\ chans'[Len(chans) + 1].lanes = 1 /\ ~chans'[Len(chans) + 1].closed
               /\ flows' = [flows EXCEPT ![d][f] = Len(chans) + 1]
               /\ reads' = [reads EXCEPT ![r] = Len(chans) + 1]
               /\ held'[d] \in Seq(BulkFrames) /\ held' = [held EXCEPT ![d] = held'[d]]
               /\ Len(held'[d]) <= Len(held[d])
               /\ Elems(held'[d]) = {m \in Elems(held[d]) : m[1] # f}
               /\ spent' \cup Elems(chans'[Len(chans) + 1].frames)
                    = spent \cup {m \in Elems(held[d]) : m[1] = f}
            \/ /\ flows[d][f] # 0 /\ flows[d][f] \in 1..Len(chans)
               /\ chans' \in Seq(ChanType) /\ Len(chans') = Len(chans)
               /\ chans'[flows[d][f]].frames = chans[flows[d][f]].frames
               /\ chans'[flows[d][f]].closed = chans[flows[d][f]].closed
               /\ chans'[flows[d][f]].lanes = chans[flows[d][f]].lanes + 1
               /\ \A c \in (1..Len(chans)) \ {flows[d][f]} : chans'[c] = chans[c]
               /\ reads' = [reads EXCEPT ![r] = flows[d][f]]
               /\ UNCHANGED <<flows, held, spent>>
<1> DEFINE d == using[r]
           f == r[1]
<1>1. d \in Demuxes /\ d \in 1..made /\ f \in BulkFlows /\ lane[r] = "found" /\ lane' = [lane EXCEPT ![r] = "reading"]
  BY BulkDemuxConstants DEF Subscribe, DemuxTypeOK, LanesBelong, Demuxes
<1>2. CASE flows[d][f] = 0
  <2> DEFINE early == Waiting(d, f)
             n == IF Len(early) < BulkQueueFrames THEN Len(early) ELSE BulkQueueFrames
             keep == SubSeq(early, 1, n)
             e == [frames |-> keep, lanes |-> 1, closed |-> FALSE]
             rest == Among(BulkFrames \ OfFlow(f), held[d])
  <2>1. /\ chans' = Append(chans, e) /\ flows' = [flows EXCEPT ![d][f] = Len(chans) + 1]
        /\ reads' = [reads EXCEPT ![r] = Len(chans) + 1]
        /\ held' = [held EXCEPT ![d] = rest]
        /\ spent' = spent \cup {early[i] : i \in Len(keep) + 1 .. Len(early)}
    BY <1>2 DEF Subscribe
  <2>2. held[d] \in Seq(BulkFrames) /\ held \in [Demuxes -> Seq(BulkFrames)]
    BY <1>1 DEF DemuxTypeOK
  <2>3. /\ early \in Seq(BulkFrames) /\ Elems(early) = {m \in Elems(held[d]) : m[1] = f}
        /\ rest \in Seq(BulkFrames) /\ Elems(rest) = {m \in Elems(held[d]) : m[1] # f}
        /\ Len(rest) <= Len(held[d])
    <3>1. Elems(held[d]) \subseteq BulkFrames
      BY <2>2 DEF Elems
    <3>2. /\ early \in Seq(BulkFrames) /\ Elems(early) = Elems(held[d]) \cap OfFlow(f)
          /\ rest \in Seq(BulkFrames) /\ Elems(rest) = Elems(held[d]) \cap (BulkFrames \ OfFlow(f))
          /\ Len(rest) <= Len(held[d])
      BY <2>2, AmongSelects DEF Waiting
    <3> HIDE DEF early, rest
    <3> QED BY <3>1, <3>2 DEF OfFlow
  <2> HIDE DEF early, rest
  <2>4. n \in 0..Len(early) /\ Len(early) \in Nat
    BY <2>3, BulkDemuxConstants
  <2> HIDE DEF n
  <2>5. keep \in Seq(BulkFrames) /\ Len(keep) = n /\ \A i \in 1..n : keep[i] = early[i]
    BY <2>3, <2>4
  <2> HIDE DEF keep
  <2>6. {early[i] : i \in Len(keep) + 1 .. Len(early)} \cup Elems(keep) = Elems(early)
    <3>1. Elems(keep) = {early[i] : i \in 1..n}
      BY <2>5 DEF Elems
    <3>2. Elems(early) = {early[i] : i \in 1..Len(early)}
      BY <2>3 DEF Elems
    <3>3. 1..Len(early) = (1..n) \cup (n + 1 .. Len(early))
      BY <2>4
    <3> QED BY <2>5, <3>1, <3>2, <3>3
  <2>7. e \in ChanType /\ e.frames = keep /\ e.lanes = 1 /\ ~e.closed
    BY <2>5 DEF ChanType
  <2> HIDE DEF e
  <2>8. /\ chans' \in Seq(ChanType) /\ Len(chans') = Len(chans) + 1
        /\ \A c \in 1..Len(chans) : chans'[c] = chans[c]
        /\ chans'[Len(chans) + 1] = e
    BY <2>1, <2>7 DEF DemuxTypeOK
  <2>9. held'[d] = rest /\ held' = [held EXCEPT ![d] = held'[d]]
    BY <1>1, <2>1, <2>2
  <2>10. spent' \cup Elems(keep) = spent \cup Elems(early)
    BY <2>1, <2>6
  <2> HIDE DEF d, f
  <2> QED BY <1>1, <1>2, <2>1, <2>3, <2>7, <2>8, <2>9, <2>10 DEF d, f
<1>3. CASE flows[d][f] # 0
  <2> DEFINE c == flows[d][f]
             e == [chans[c] EXCEPT !.lanes = chans[c].lanes + 1]
  <2>1. c \in 1..Len(chans)
    BY <1>1, <1>3 DEF DemuxTypeOK
  <2>2. chans[c] \in ChanType /\ chans[c].lanes + 1 \in Nat
    BY <2>1, ChanIn
  <2>3. e \in ChanType /\ e.frames = chans[c].frames /\ e.closed = chans[c].closed /\ e.lanes = chans[c].lanes + 1
    BY <2>2 DEF ChanType
  <2>4. /\ chans' = [chans EXCEPT ![c] = e] /\ reads' = [reads EXCEPT ![r] = c]
        /\ UNCHANGED <<flows, held, spent>>
    BY <1>3, <2>1 DEF Subscribe
  <2> HIDE DEF e
  <2>5. /\ chans' \in Seq(ChanType) /\ Len(chans') = Len(chans)
        /\ chans'[c] = e /\ \A b \in (1..Len(chans)) \ {c} : chans'[b] = chans[b]
    <3> HIDE DEF c
    <3> QED BY <2>1, <2>3, <2>4, OneChan
  <2> HIDE DEF c
  <2>6. c = flows[d][f]
    BY DEF c
  <2> HIDE DEF d, f
  <2> QED BY <1>1, <1>3, <2>1, <2>3, <2>4, <2>5, <2>6 DEF d, f
<1> QED BY <1>2, <1>3

\* Holding a frame keeps it or what was there, within the limit, or gives it up.
LEMMA HeldFrames ==
  ASSUME DemuxTypeOK, NEW d \in Demuxes, NEW m \in BulkFrames, Hold(d, m)
  PROVE  /\ chans' = chans /\ held' = [held EXCEPT ![d] = held'[d]] /\ held'[d] \in Seq(BulkFrames)
         /\ Len(held[d]) <= HeldLimit => Len(held'[d]) <= HeldLimit
         /\ Elems(held'[d]) \subseteq Elems(held[d]) \cup {m}
         /\ spent' \cup Elems(held'[d]) = spent \cup Elems(held[d]) \cup {m}
<1> DEFINE young == Among(BulkFrames \ expired, held[d])
           old == Elems(held[d]) \cap expired
<1>1. held[d] \in Seq(BulkFrames) /\ held \in [Demuxes -> Seq(BulkFrames)] /\ Elems(held[d]) \subseteq BulkFrames
  BY DEF DemuxTypeOK, Elems
<1>2. young \in Seq(BulkFrames) /\ Len(young) <= Len(held[d]) /\ Elems(young) = Elems(held[d]) \cap (BulkFrames \ expired)
  BY <1>1, AmongSelects
<1>3. Elems(young) \cup old = Elems(held[d])
  BY <1>1, <1>2
<1>4. /\ chans' = chans
      /\ \/ Len(young) < HeldLimit /\ held' = [held EXCEPT ![d] = Append(young, m)] /\ spent' = spent \cup old
         \/ held' = [held EXCEPT ![d] = young] /\ spent' = spent \cup old \cup {m}
  BY DEF Hold, Elems
<1> HIDE DEF young, old
<1>5. CASE Len(young) < HeldLimit /\ held' = [held EXCEPT ![d] = Append(young, m)] /\ spent' = spent \cup old
  <2>1. held'[d] = Append(young, m)
    BY <1>1, <1>5
  <2>2. held'[d] \in Seq(BulkFrames) /\ Len(held'[d]) = Len(young) + 1 /\ Elems(held'[d]) = Elems(young) \cup {m}
    <3>1. Append(young, m) \in Seq(BulkFrames) /\ Len(Append(young, m)) = Len(young) + 1
      BY <1>2
    <3>2. Elems(Append(young, m)) = Elems(young) \cup {m}
      BY <1>2, AppendElems
    <3> QED BY <2>1, <3>1, <3>2
  <2>3. Len(held'[d]) <= HeldLimit
    BY <1>2, <1>5, <2>2, BulkDemuxConstants
  <2>4. held' = [held EXCEPT ![d] = held'[d]]
    BY <1>5, <2>1
  <2> QED BY <1>3, <1>4, <1>5, <2>2, <2>3, <2>4
<1>6. CASE held' = [held EXCEPT ![d] = young] /\ spent' = spent \cup old \cup {m}
  <2>1. held'[d] = young
    BY <1>1, <1>6
  <2>2. Len(held[d]) <= HeldLimit => Len(held'[d]) <= HeldLimit
    <3>1. Len(young) \in Nat /\ Len(held[d]) \in Nat /\ HeldLimit \in Nat
      BY <1>1, <1>2, BulkDemuxConstants
    <3> QED BY <1>2, <2>1, <3>1
  <2>3. held' = [held EXCEPT ![d] = held'[d]]
    BY <1>6, <2>1
  <2> QED BY <1>2, <1>3, <1>4, <1>6, <2>1, <2>2, <2>3
<1> QED BY <1>4, <1>5, <1>6

\* The end of run changes the queues' closing and nothing else of them.
LEMMA EndedQueues ==
  ASSUME DemuxTypeOK, NEW d \in Demuxes, RunEnds(d)
  PROVE  /\ chans' \in Seq(ChanType) /\ Len(chans') = Len(chans)
         /\ \A c \in 1..Len(chans) : chans'[c].frames = chans[c].frames
<1>1. chans \in Seq(ChanType) /\ Len(chans) \in Nat /\ DOMAIN chans = 1..Len(chans)
  BY DEF DemuxTypeOK
<1> DEFINE n(c) == IF \E f \in BulkFlows : flows[d][f] = c THEN [chans[c] EXCEPT !.closed = TRUE] ELSE chans[c]
<1>2. chans' = [c \in 1..Len(chans) |-> n(c)]
  BY <1>1 DEF RunEnds
<1>3. ASSUME NEW c \in 1..Len(chans) PROVE n(c) \in ChanType /\ n(c).frames = chans[c].frames
  <2>1. chans[c] \in ChanType
    BY ChanIn
  <2> QED BY <2>1 DEF ChanType
<1> HIDE DEF n
<1>4. chans' \in [1..Len(chans) -> ChanType]
  BY <1>2, <1>3
<1>5. chans' \in Seq(ChanType) /\ Len(chans') = Len(chans)
  BY <1>1, <1>4
<1> QED BY <1>2, <1>3, <1>5

\* What was queued and what is held, of all demultiplexers.
Queued == UNION {Elems(chans[c].frames) : c \in 1..Len(chans)}
Held == UNION {Elems(held[d]) : d \in Demuxes}

\* The steps on the frames, each with what it does to them.
LEMMA DemuxTypes ==
  ASSUME DemuxTypeOK, LanesBelong, [DemuxNext]_demuxVars PROVE DemuxTypeOK'
<1> USE DEF Demuxes
<1>0. Len(chans) \in Nat /\ \A d \in Demuxes, f \in BulkFlows : flows[d][f] \in 0..Len(chans)
  BY DEF DemuxTypeOK
<1>1. ASSUME NEW r \in BulkReaders, FindDemux(r) PROVE DemuxTypeOK'
  <2>1. /\ lane' = [lane EXCEPT ![r] = "found"] /\ made \in 0..2 /\ entry \in 0..made
        /\ UNCHANGED <<path, flows, held, expired, chans, reads, coming, spent>>
    BY <1>1 DEF FindDemux, DemuxTypeOK
  <2>2. made' \in 0..2 /\ made <= made' /\ entry' \in 0..made' /\ routing' \subseteq 1..made'
    <3>0. routing \subseteq 1..made
      BY DEF DemuxTypeOK
    <3>1. CASE entry # 0
      <4>1. UNCHANGED <<entry, made, routing>>
        BY <1>1, <3>1 DEF FindDemux
      <4> QED BY <2>1, <3>0, <4>1
    <3>2. CASE entry = 0
      <4>1. made < 2 /\ made' = made + 1 /\ entry' = made + 1 /\ routing' = routing \cup {made + 1}
        BY <1>1, <3>2 DEF FindDemux
      <4>2. 1..made \subseteq 1..made' /\ made + 1 \in 1..made'
        BY <2>1, <4>1
      <4> QED BY <2>1, <3>0, <4>1, <4>2
    <3> QED BY <3>1, <3>2
  <2>3. \E u \in 0..made' : using' = [using EXCEPT ![r] = u]
    BY <1>1, <2>1 DEF FindDemux
  <2>4. using' \in [BulkReaders -> 0..made']
    <3>1. using \in [BulkReaders -> 0..made']
      BY <2>1, <2>2 DEF DemuxTypeOK
    <3> QED BY <2>3, <3>1
  <2> QED BY <2>1, <2>2, <2>4 DEF DemuxTypeOK
<1>2. ASSUME NEW r \in BulkReaders, Subscribe(r) PROVE DemuxTypeOK'
  <2> DEFINE d == using[r]
             f == r[1]
  <2>1. /\ d \in Demuxes /\ f \in BulkFlows /\ lane' = [lane EXCEPT ![r] = "reading"]
        /\ UNCHANGED <<path, entry, made, routing, using, coming>>
    BY <1>2, SubscribeQueue DEF Subscribe
  <2>2. chans' \in Seq(ChanType) /\ Len(chans') \in {Len(chans), Len(chans) + 1}
    BY <1>2, SubscribeQueue
  <2>3. /\ flows' \in [Demuxes -> [BulkFlows -> 0..Len(chans')]]
        /\ reads' \in [BulkReaders -> 0..Len(chans')]
    <3>1. CASE flows[d][f] = 0
      <4>1. /\ Len(chans') = Len(chans) + 1 /\ flows' = [flows EXCEPT ![d][f] = Len(chans) + 1]
            /\ reads' = [reads EXCEPT ![r] = Len(chans) + 1]
        BY <1>2, <3>1, SubscribeQueue
      <4> HIDE DEF d, f
      <4> QED BY <1>0, <2>1, <4>1 DEF DemuxTypeOK
    <3>2. CASE flows[d][f] # 0
      <4>1. flows[d][f] \in 1..Len(chans) /\ Len(chans') = Len(chans) /\ reads' = [reads EXCEPT ![r] = flows[d][f]] /\ flows' = flows
        BY <1>2, <3>2, SubscribeQueue
      <4> HIDE DEF d, f
      <4> QED BY <4>1 DEF DemuxTypeOK
    <3> QED BY <3>1, <3>2
  <2>4. held' \in [Demuxes -> Seq(BulkFrames)]
    <3>1. \/ held' = held
          \/ held'[d] \in Seq(BulkFrames) /\ held' = [held EXCEPT ![d] = held'[d]]
      BY <1>2, SubscribeQueue
    <3> HIDE DEF d
    <3> QED BY <2>1, <3>1 DEF DemuxTypeOK
  <2>5. spent' \subseteq BulkFrames
    <3>1. spent' = spent \/ \E X : spent' \cup X = spent \cup {m \in Elems(held[d]) : m[1] = f}
      BY <1>2, SubscribeQueue
    <3>2. Elems(held[d]) \subseteq BulkFrames
      BY <2>1 DEF DemuxTypeOK, Elems
    <3> QED BY <3>1, <3>2 DEF DemuxTypeOK
  <2> QED BY <2>1, <2>2, <2>3, <2>4, <2>5 DEF DemuxTypeOK
<1>3. ASSUME NEW r \in BulkReaders, Take(r) PROVE DemuxTypeOK'
  <2> DEFINE c == reads[r]
  <2>1. /\ c \in 1..Len(chans) /\ chans[c].frames # <<>> /\ chans' \in Seq(ChanType) /\ Len(chans') = Len(chans)
        /\ spent' = spent \cup {Head(chans[c].frames)}
    BY <1>3, TakeQueue
  <2>2. Head(chans[c].frames) \in BulkFrames
    BY <2>1, ChanIn
  <2>3. UNCHANGED <<path, entry, made, routing, flows, held, lane, using, reads, coming>>
    BY <1>3 DEF Take
  <2> QED BY <2>1, <2>2, <2>3 DEF DemuxTypeOK
<1>4. ASSUME NEW r \in BulkReaders, Leave(r) PROVE DemuxTypeOK'
  <2>1. lane' = [lane EXCEPT ![r] = "gone"] /\ UNCHANGED <<path, entry, made, routing, held, using, reads, coming, spent>>
    BY <1>4 DEF Leave
  <2>2. CASE entry # 0 /\ flows[entry][r[1]] # 0
    <3>1. entry \in Demuxes /\ r[1] \in BulkFlows /\ Released(entry, r[1])
      <4>1. entry \in Demuxes
        BY <2>2 DEF DemuxTypeOK
      <4>2. r[1] \in BulkFlows
        BY BulkDemuxConstants
      <4> QED BY <1>4, <2>2, <4>1, <4>2 DEF Leave
    <3>2. /\ chans' \in Seq(ChanType) /\ Len(chans') = Len(chans)
          /\ flows' = flows \/ flows' = [flows EXCEPT ![entry][r[1]] = 0]
      BY <2>2, <3>1, ReleasedQueue
    <3>3. flows' \in [Demuxes -> [BulkFlows -> 0..Len(chans)]]
      <4> DEFINE f == r[1]
      <4>1. entry \in Demuxes /\ f \in BulkFlows /\ (flows' = flows \/ flows' = [flows EXCEPT ![entry][f] = 0])
        BY <3>1, <3>2
      <4> HIDE DEF f
      <4>2. flows \in [Demuxes -> [BulkFlows -> 0..Len(chans)]] /\ 0 \in 0..Len(chans)
        BY <1>0 DEF DemuxTypeOK
      <4>3. CASE flows' = [flows EXCEPT ![entry][f] = 0]
        <5>1. [flows[entry] EXCEPT ![f] = 0] \in [BulkFlows -> 0..Len(chans)]
          BY <4>1, <4>2
        <5>2. flows' = [flows EXCEPT ![entry] = [flows[entry] EXCEPT ![f] = 0]]
          BY <4>1, <4>2, <4>3
        <5> QED BY <4>1, <4>2, <5>1, <5>2
      <4> QED BY <4>1, <4>2, <4>3
    <3> QED BY <2>1, <3>2, <3>3 DEF DemuxTypeOK
  <2>3. CASE ~(entry # 0 /\ flows[entry][r[1]] # 0)
    BY <1>4, <2>1, <2>3 DEF Leave, DemuxTypeOK
  <2> QED BY <2>2, <2>3
<1>5. ASSUME NEW d \in Demuxes, NEW m \in BulkFrames, Receive(d, m) PROVE DemuxTypeOK'
  <2>1. Route(d, m) /\ m \in coming /\ coming' = coming \ {m}
        /\ UNCHANGED <<path, entry, made, routing, flows, lane, using, reads>>
    BY <1>5 DEF Receive
  <2>2. CASE flows[d][m[1]] = 0
    <3>1. Hold(d, m)
      BY <2>1, <2>2 DEF Route
    <3>2. /\ chans' = chans /\ held' = [held EXCEPT ![d] = held'[d]] /\ held'[d] \in Seq(BulkFrames)
          /\ spent' \cup Elems(held'[d]) = spent \cup Elems(held[d]) \cup {m}
      BY <3>1, HeldFrames
    <3>3. Elems(held[d]) \subseteq BulkFrames
      BY DEF DemuxTypeOK, Elems
    <3>4. spent' \subseteq BulkFrames
      BY <3>2, <3>3 DEF DemuxTypeOK
    <3>5. held' \in [Demuxes -> Seq(BulkFrames)]
      BY <3>2 DEF DemuxTypeOK
    <3> QED BY <2>1, <3>2, <3>4, <3>5 DEF DemuxTypeOK
  <2>3. CASE flows[d][m[1]] # 0
    <3>1. /\ chans' \in Seq(ChanType) /\ Len(chans') = Len(chans) /\ held' = held
          /\ spent' = spent \/ spent' = spent \cup {m}
      BY <2>1, <2>3, RoutedQueue
    <3> QED BY <2>1, <3>1 DEF DemuxTypeOK
  <2> QED BY <2>2, <2>3
<1>6. ASSUME NEW d \in Demuxes, RunEnds(d) PROVE DemuxTypeOK'
  <2>1. chans' \in Seq(ChanType) /\ Len(chans') = Len(chans)
    BY <1>6, EndedQueues
  <2>2. flows' \in [Demuxes -> [BulkFlows -> 0..Len(chans)]]
    BY <1>0, <1>6 DEF RunEnds, DemuxTypeOK
  <2> QED BY <1>6, <2>1, <2>2 DEF RunEnds, DemuxTypeOK
<1>7. CASE Age
  BY <1>7 DEF Age, DemuxTypeOK
<1>8. CASE ConnectionEnds
  BY <1>8 DEF ConnectionEnds, DemuxTypeOK
<1>9. CASE CleanerRuns
  BY <1>9 DEF CleanerRuns, DemuxTypeOK
<1>10. CASE UNCHANGED demuxVars
  BY <1>10 DEF demuxVars, DemuxTypeOK
<1> QED BY <1>1, <1>2, <1>3, <1>4, <1>5, <1>6, <1>7, <1>8, <1>9, <1>10 DEF DemuxNext

LEMMA ElemsIn == ASSUME NEW D, NEW s \in Seq(D) PROVE Elems(s) \subseteq D
BY DEF Elems

\* One queue changes: the rest of what is queued stays.
LEMMA OneQueue ==
  ASSUME DemuxTypeOK, NEW c \in 1..Len(chans), Len(chans') = Len(chans),
         \A b \in (1..Len(chans)) \ {c} : chans'[b] = chans[b]
  PROVE  \E rest : Queued = rest \cup Elems(chans[c].frames) /\ Queued' = rest \cup Elems(chans'[c].frames)
<1> DEFINE rest == UNION {Elems(chans[b].frames) : b \in (1..Len(chans)) \ {c}}
<1>1. Queued = rest \cup Elems(chans[c].frames)
  <2> HIDE DEF Elems
  <2> QED BY DEF Queued
<1>2. rest = UNION {Elems(chans'[b].frames) : b \in (1..Len(chans)) \ {c}}
  <2> HIDE DEF Elems
  <2> QED OBVIOUS
<1> HIDE DEF rest
<1>3. Queued' = UNION {Elems(chans'[b].frames) : b \in 1..Len(chans)}
  BY DEF Queued
<1>4. Queued' = rest \cup Elems(chans'[c].frames)
  <2> HIDE DEF Elems
  <2> QED BY <1>2, <1>3
<1> QED BY <1>1, <1>4

\* The same for what is held.
LEMMA OneHeld ==
  ASSUME NEW d \in Demuxes, held \in [Demuxes -> Seq(BulkFrames)], held' = [held EXCEPT ![d] = held'[d]]
  PROVE  \E rest : Held = rest \cup Elems(held[d]) /\ Held' = rest \cup Elems(held'[d])
<1> DEFINE rest == UNION {Elems(held[b]) : b \in Demuxes \ {d}}
<1>1. Held = rest \cup Elems(held[d])
  BY DEF Held
<1>2. \A b \in Demuxes \ {d} : held'[b] = held[b]
  OBVIOUS
<1>3. rest = UNION {Elems(held'[b]) : b \in Demuxes \ {d}}
  BY <1>2
<1> HIDE DEF rest
<1>4. Held' = UNION {Elems(held'[b]) : b \in Demuxes}
  BY DEF Held
<1>5. Held' = rest \cup Elems(held'[d])
  BY <1>3, <1>4
<1> QED BY <1>1, <1>5

\* The invariant of the frames, in these terms.
LEMMA FramesReadAs ==
  ASSUME DemuxTypeOK
  PROVE  FramesFindTheirFlow <=>
           /\ BulkFrames \ coming = spent \cup Queued \cup Held
           /\ \A d \in Demuxes : /\ Len(held[d]) <= HeldLimit
                                 /\ \A m \in Elems(held[d]) : flows[d][m[1]] = 0
<1>1. DOMAIN chans = 1..Len(chans)
  BY DEF DemuxTypeOK
<1> QED BY <1>1 DEF FramesFindTheirFlow, Queued, Held, Elems

LEMMA FramesNextReadAs ==
  ASSUME DemuxTypeOK'
  PROVE  FramesFindTheirFlow' <=>
           /\ BulkFrames \ coming' = spent' \cup Queued' \cup Held'
           /\ \A d \in Demuxes : /\ Len(held'[d]) <= HeldLimit
                                 /\ \A m \in Elems(held'[d]) : flows'[d][m[1]] = 0
<1>1. DOMAIN chans' = 1..Len(chans')
  BY DEF DemuxTypeOK
<1> QED BY <1>1 DEF FramesFindTheirFlow, Queued, Held, Elems

\* No step loses a frame.
LEMMA FramesStay ==
  ASSUME DemuxIInv, DemuxTypeOK', [DemuxNext]_demuxVars PROVE FramesFindTheirFlow'
<1>1. DemuxTypeOK /\ LanesBelong
  BY DEF DemuxIInv
<1> DEFINE All == BulkFrames \ coming = spent \cup Queued \cup Held
           Wait(d) == Len(held[d]) <= HeldLimit /\ \A m \in Elems(held[d]) : flows[d][m[1]] = 0
           Unsubscribed == \A d \in Demuxes : Wait(d)
<1>2. All /\ Unsubscribed
  BY <1>1, FramesReadAs DEF DemuxIInv, DemuxInv
<1> SUFFICES All' /\ Unsubscribed'
  BY FramesNextReadAs
<1>3. held \in [Demuxes -> Seq(BulkFrames)] /\ \A d \in Demuxes : Elems(held[d]) \subseteq BulkFrames
  BY <1>1, ElemsIn DEF DemuxTypeOK
<1>4. \A m \in BulkFrames : m[1] \in BulkFlows
  BY BulkDemuxConstants
<1>5. CASE UNCHANGED <<flows, held, chans, coming, spent>>
  BY <1>2, <1>5 DEF Queued, Held, Elems
<1>6. ASSUME NEW r \in BulkReaders, Subscribe(r) PROVE All' /\ Unsubscribed'
  <2> DEFINE d == using[r]
             f == r[1]
  <2>1. coming' = coming /\ d \in Demuxes /\ f \in BulkFlows
    BY <1>1, <1>6, SubscribeQueue DEF Subscribe
  <2>2. CASE flows[d][f] = 0
    <3> DEFINE n == Len(chans) + 1
    <3>1. /\ chans' \in Seq(ChanType) /\ Len(chans') = n
          /\ \A c \in 1..Len(chans) : chans'[c] = chans[c]
          /\ flows' = [flows EXCEPT ![d][f] = n]
          /\ held' = [held EXCEPT ![d] = held'[d]] /\ held'[d] \in Seq(BulkFrames)
          /\ Len(held'[d]) <= Len(held[d])
          /\ Elems(held'[d]) = {m \in Elems(held[d]) : m[1] # f}
          /\ spent' \cup Elems(chans'[n].frames) = spent \cup {m \in Elems(held[d]) : m[1] = f}
      BY <1>1, <1>6, <2>2, SubscribeQueue
    <3> HIDE DEF d, f
    <3>2. Queued' = Queued \cup Elems(chans'[n].frames)
      <4>1. 1..n = 1..Len(chans) \cup {n}
        BY <1>1 DEF DemuxTypeOK
      <4> HIDE DEF n
      <4> QED BY <3>1, <4>1 DEF Queued
    <3> HIDE DEF n
    <3>3. PICK rest : Held = rest \cup Elems(held[d]) /\ Held' = rest \cup Elems(held'[d])
      <4> HIDE DEF Elems
      <4> QED BY <1>3, <2>1, <3>1, OneHeld
    <3>4. All'
      BY <1>2, <2>1, <3>1, <3>2, <3>3
    <3>5. ASSUME NEW b \in Demuxes PROVE Wait(b)'
      <4>1. CASE b = d
        <5>1. Len(held'[d]) <= HeldLimit
          BY <1>2, <1>3, <2>1, <3>1, BulkDemuxConstants
        <5>2. ASSUME NEW m \in Elems(held'[d]) PROVE flows'[d][m[1]] = 0
          <6>1. m \in Elems(held[d]) /\ m[1] # f /\ flows[d][m[1]] = 0 /\ m[1] \in BulkFlows
            BY <1>2, <1>3, <1>4, <2>1, <3>1
          <6> QED BY <1>1, <2>1, <3>1, <6>1 DEF DemuxTypeOK
        <5> QED BY <4>1, <5>1, <5>2
      <4>2. CASE b # d
        <5>1. held'[b] = held[b] /\ flows'[b] = flows[b]
          BY <1>1, <1>3, <3>1, <4>2 DEF DemuxTypeOK
        <5> QED BY <1>2, <5>1 DEF Elems
      <4> QED BY <4>1, <4>2
    <3> HIDE DEF Wait
    <3> QED BY <3>4, <3>5
  <2>3. CASE flows[d][f] # 0
    <3> DEFINE c == flows[d][f]
    <3>1. /\ c \in 1..Len(chans) /\ chans'[c].frames = chans[c].frames /\ Len(chans') = Len(chans)
          /\ \A b \in (1..Len(chans)) \ {c} : chans'[b] = chans[b]
          /\ UNCHANGED <<flows, held, spent>>
      BY <1>1, <1>6, <2>3, SubscribeQueue
    <3> HIDE DEF c
    <3>2. Queued' = Queued
      BY <1>1, <3>1, OneQueue
    <3> QED BY <1>2, <2>1, <3>1, <3>2 DEF Held, Elems
  <2> QED BY <2>2, <2>3
<1>7. ASSUME NEW r \in BulkReaders, Take(r) PROVE All' /\ Unsubscribed'
  <2> DEFINE c == reads[r]
  <2>1. /\ c \in 1..Len(chans) /\ chans[c].frames # <<>> /\ Len(chans') = Len(chans)
        /\ chans'[c].frames = Tail(chans[c].frames)
        /\ \A b \in (1..Len(chans)) \ {c} : chans'[b] = chans[b]
        /\ spent' = spent \cup {Head(chans[c].frames)}
        /\ UNCHANGED <<flows, held, coming>>
    BY <1>1, <1>7, TakeQueue DEF Take
  <2>2. Elems(chans[c].frames) = Elems(chans'[c].frames) \cup {Head(chans[c].frames)}
    <3> DEFINE s == chans[c].frames
    <3>1. s \in Seq(BulkFrames) /\ s # <<>>
      BY <1>1, <2>1, ChanIn
    <3> HIDE DEF s
    <3>2. /\ Len(s) \in Nat \ {0} /\ DOMAIN s = 1..Len(s) /\ DOMAIN Tail(s) = 1..(Len(s) - 1)
          /\ Head(s) = s[1] /\ \A i \in 1..(Len(s) - 1) : Tail(s)[i] = s[i + 1]
      BY <3>1
    <3>3. Elems(Tail(s)) = {s[i + 1] : i \in 1..(Len(s) - 1)}
      BY <3>2 DEF Elems
    <3>4. \A j \in 1..Len(s) : j = 1 \/ \E i \in 1..(Len(s) - 1) : j = i + 1
      <4> SUFFICES ASSUME NEW j \in 1..Len(s), j # 1 PROVE j - 1 \in 1..(Len(s) - 1) /\ j = (j - 1) + 1
        OBVIOUS
      <4> QED BY <3>2
    <3>5. \A i \in 1..(Len(s) - 1) : i + 1 \in 1..Len(s)
      BY <3>2
    <3>6. Elems(s) = Elems(Tail(s)) \cup {Head(s)}
      <4>1. Elems(s) = {s[j] : j \in 1..Len(s)} /\ Head(s) \in Elems(s)
        BY <3>2 DEF Elems
      <4>2. Elems(Tail(s)) \subseteq Elems(s)
        BY <3>3, <3>5, <4>1
      <4>3. ASSUME NEW j \in 1..Len(s) PROVE s[j] \in Elems(Tail(s)) \cup {Head(s)}
        BY <3>2, <3>3, <3>4
      <4> QED BY <4>1, <4>2, <4>3
    <3> QED BY <2>1, <3>6 DEF s
  <2> HIDE DEF c
  <2>3. PICK rest : /\ Queued = rest \cup Elems(chans[c].frames)
                    /\ Queued' = rest \cup Elems(chans'[c].frames)
    <3> HIDE DEF Elems
    <3> QED BY <1>1, <2>1, OneQueue
  <2>4. Held' = Held
    BY <2>1 DEF Held, Elems
  <2>5. All'
    BY <1>2, <2>1, <2>2, <2>3, <2>4
  <2> QED BY <1>2, <2>1, <2>5 DEF Elems
<1>8. ASSUME NEW r \in BulkReaders, Leave(r) PROVE All' /\ Unsubscribed'
  <2>1. UNCHANGED <<held, coming, spent>>
    BY <1>8 DEF Leave
  <2>2. CASE entry # 0 /\ flows[entry][r[1]] # 0
    <3> DEFINE f == r[1]
               c == flows[entry][f]
    <3>1. entry \in Demuxes /\ f \in BulkFlows /\ Released(entry, f)
      <4>1. entry \in Demuxes
        BY <1>1, <2>2 DEF DemuxTypeOK, Demuxes
      <4>2. f \in BulkFlows
        BY BulkDemuxConstants
      <4> QED BY <1>8, <2>2, <4>1, <4>2 DEF Leave
    <3>2. /\ c \in 1..Len(chans) /\ Len(chans') = Len(chans) /\ chans'[c].frames = chans[c].frames
          /\ \A b \in (1..Len(chans)) \ {c} : chans'[b] = chans[b]
          /\ flows' = flows \/ flows' = [flows EXCEPT ![entry][f] = 0]
      BY <1>1, <2>2, <3>1, ReleasedQueue
    <3> HIDE DEF f, c
    <3>3. Queued' = Queued
      BY <1>1, <3>2, OneQueue
    <3>4. \A d \in Demuxes, g \in BulkFlows : flows[d][g] = 0 => flows'[d][g] = 0
      <4>1. flows \in [Demuxes -> [BulkFlows -> 0..Len(chans)]]
        BY <1>1 DEF DemuxTypeOK
      <4>2. CASE flows' = [flows EXCEPT ![entry][f] = 0]
        BY <3>1, <4>1, <4>2
      <4> QED BY <3>2, <4>2
    <3>5. All'
      BY <1>2, <2>1, <3>3 DEF Held, Elems
    <3>6. ASSUME NEW d \in Demuxes PROVE Wait(d)'
      BY <1>2, <1>3, <1>4, <2>1, <3>4 DEF Elems
    <3> HIDE DEF Wait
    <3> QED BY <3>5, <3>6
  <2>3. CASE ~(entry # 0 /\ flows[entry][r[1]] # 0)
    BY <1>5, <1>8, <2>1, <2>3 DEF Leave
  <2> QED BY <2>2, <2>3
<1>9. ASSUME NEW d \in Demuxes, NEW m \in BulkFrames, Receive(d, m) PROVE All' /\ Unsubscribed'
  <2>1. Route(d, m) /\ coming' = coming \ {m} /\ m \in coming /\ flows' = flows
    BY <1>9 DEF Receive
  <2>2. BulkFrames \ coming' = (BulkFrames \ coming) \cup {m}
    BY <2>1
  <2>3. CASE flows[d][m[1]] = 0
    <3>1. Hold(d, m)
      BY <2>1, <2>3 DEF Route
    <3>2. /\ chans' = chans /\ held' = [held EXCEPT ![d] = held'[d]] /\ held'[d] \in Seq(BulkFrames)
          /\ Len(held[d]) <= HeldLimit => Len(held'[d]) <= HeldLimit
          /\ Elems(held'[d]) \subseteq Elems(held[d]) \cup {m}
          /\ spent' \cup Elems(held'[d]) = spent \cup Elems(held[d]) \cup {m}
      BY <1>1, <3>1, HeldFrames
    <3>3. PICK rest : Held = rest \cup Elems(held[d]) /\ Held' = rest \cup Elems(held'[d])
      <4> HIDE DEF Elems
      <4> QED BY <1>3, <3>2, OneHeld
    <3>4. Queued' = Queued
      BY <3>2 DEF Queued, Elems
    <3>5. All'
      BY <1>2, <2>2, <3>2, <3>3, <3>4
    <3>6. ASSUME NEW b \in Demuxes PROVE Wait(b)'
      <4>1. CASE b = d
        BY <1>2, <2>1, <2>3, <3>2, <4>1
      <4>2. CASE b # d
        <5>1. held'[b] = held[b]
          BY <1>3, <3>2, <4>2
        <5> QED BY <1>2, <2>1, <5>1 DEF Elems
      <4> QED BY <4>1, <4>2
    <3> HIDE DEF Wait
    <3> QED BY <3>5, <3>6
  <2>4. CASE flows[d][m[1]] # 0
    <3> DEFINE c == flows[d][m[1]]
    <3>1. /\ c \in 1..Len(chans) /\ Len(chans') = Len(chans)
          /\ \A b \in (1..Len(chans)) \ {c} : chans'[b] = chans[b]
          /\ \/ chans'[c].frames = Append(chans[c].frames, m) /\ spent' = spent
             \/ chans'[c].frames = chans[c].frames /\ spent' = spent \cup {m}
          /\ held' = held
      BY <1>1, <2>1, <2>4, RoutedQueue
    <3> HIDE DEF c
    <3>2. Elems(Append(chans[c].frames, m)) = Elems(chans[c].frames) \cup {m}
      <4> DEFINE s == chans[c].frames
      <4>1. s \in Seq(BulkFrames)
        BY <1>1, <3>1, ChanIn
      <4> HIDE DEF s
      <4>4. Elems(Append(s, m)) = Elems(s) \cup {m}
        BY <4>1, AppendElems
      <4> QED BY <4>4 DEF s
    <3>3. PICK rest : /\ Queued = rest \cup Elems(chans[c].frames)
                      /\ Queued' = rest \cup Elems(chans'[c].frames)
      <4> HIDE DEF Elems
      <4> QED BY <1>1, <3>1, OneQueue
    <3>4. Held' = Held
      BY <3>1 DEF Held, Elems
    <3>5. All'
      BY <1>2, <2>2, <3>1, <3>2, <3>3, <3>4
    <3> QED BY <1>2, <2>1, <3>1, <3>5 DEF Elems
  <2> QED BY <2>3, <2>4
<1>10. ASSUME NEW d \in Demuxes, RunEnds(d) PROVE All' /\ Unsubscribed'
  <2>1. /\ Len(chans') = Len(chans) /\ \A c \in 1..Len(chans) : chans'[c].frames = chans[c].frames
        /\ UNCHANGED <<held, coming, spent>> /\ flows' = [flows EXCEPT ![d] = [f \in BulkFlows |-> 0]]
    BY <1>1, <1>10, EndedQueues DEF RunEnds
  <2>2. Queued' = Queued
    BY <2>1 DEF Queued
  <2>3. \A b \in Demuxes, g \in BulkFlows : flows[b][g] = 0 => flows'[b][g] = 0
    BY <1>1, <2>1 DEF DemuxTypeOK
  <2>4. All'
    BY <1>2, <2>1, <2>2 DEF Held, Elems
  <2>5. ASSUME NEW b \in Demuxes PROVE Wait(b)'
    <3>1. held'[b] = held[b] /\ \A m \in Elems(held[b]) : m[1] \in BulkFlows /\ flows[b][m[1]] = 0
      BY <1>2, <1>3, <1>4, <2>1
    <3>2. \A m \in Elems(held[b]) : flows'[b][m[1]] = 0
      BY <2>3, <3>1
    <3> QED BY <1>2, <3>1, <3>2 DEF Elems
  <2> HIDE DEF Wait
  <2> QED BY <2>4, <2>5
<1>11. ASSUME NEW r \in BulkReaders, FindDemux(r) PROVE UNCHANGED <<flows, held, chans, coming, spent>>
  BY <1>11 DEF FindDemux
<1>12. Age \/ ConnectionEnds \/ CleanerRuns \/ UNCHANGED demuxVars => UNCHANGED <<flows, held, chans, coming, spent>>
  BY DEF Age, ConnectionEnds, CleanerRuns, demuxVars
<1> HIDE DEF All, Unsubscribed
<1> QED BY <1>5, <1>6, <1>7, <1>8, <1>9, <1>10, <1>11, <1>12 DEF DemuxNext

\* A lane that reads belongs to the flow of its queue, whatever the step.
LEMMA LanesStay ==
  ASSUME DemuxTypeOK, DemuxTypeOK', LanesBelong, SharesAreHeld, [DemuxNext]_demuxVars PROVE LanesBelong'
<1> DEFINE Found(r) == /\ lane[r] \in {"found", "reading"} => using[r] # 0
                       /\ lane[r] = "reading" => reads[r] # 0
           Single == path # "closed" => entry = made /\ made <= 1
           Later == \A d \in Demuxes, f \in BulkFlows : d > made => flows[d][f] = 0
           Own(d, f) == flows[d][f] # 0 =>
             /\ \A r \in Reading : reads[r] = flows[d][f] => r[1] = f
             /\ \A b \in Demuxes, g \in BulkFlows : flows[b][g] = flows[d][f] => b = d /\ g = f
           Owned == \A d \in Demuxes, f \in BulkFlows : Own(d, f)
           Finds == \A r \in BulkReaders : Found(r)
           Goal == Finds' /\ IsFiniteSet(Reading') /\ Single' /\ Later' /\ Owned'
<1>1. Finds /\ IsFiniteSet(Reading) /\ Single /\ Later /\ Owned
  BY DEF LanesBelong
<1> SUFFICES Goal
  BY DEF LanesBelong
<1>2. made \in 0..2 /\ entry \in 0..made /\ Len(chans) \in Nat
  BY DEF DemuxTypeOK
<1>3. \A d \in Demuxes, f \in BulkFlows : flows[d][f] \in 0..Len(chans)
  BY DEF DemuxTypeOK
<1>4. /\ lane \in [BulkReaders -> {"idle", "found", "reading", "gone"}]
      /\ using \in [BulkReaders -> 0..made] /\ reads \in [BulkReaders -> 0..Len(chans)]
      /\ flows \in [Demuxes -> [BulkFlows -> 0..Len(chans)]]
  BY DEF DemuxTypeOK
<1>5. ASSUME NEW r \in BulkReaders, FindDemux(r) PROVE Goal
  <2>1. lane[r] = "idle" /\ lane' = [lane EXCEPT ![r] = "found"] /\ UNCHANGED <<path, flows, reads>>
    BY <1>5 DEF FindDemux
  <2>2. Reading' = Reading
    BY <1>4, <2>1 DEF Reading
  <2>3. made <= made' /\ Single'
    BY <1>1, <1>2, <1>5 DEF FindDemux
  <2>4. \E u : u # 0 /\ using' = [using EXCEPT ![r] = u]
    <3>1. CASE entry # 0
      BY <1>5, <3>1 DEF FindDemux
    <3>2. CASE entry = 0
      <4>1. using' = [using EXCEPT ![r] = made + 1] /\ made + 1 # 0
        BY <1>2, <1>5, <3>2 DEF FindDemux
      <4> QED BY <4>1
    <3> QED BY <3>1, <3>2
  <2>5. Finds'
    BY <1>1, <1>4, <2>1, <2>4
  <2>6. Later'
    <3>1. made' \in Nat /\ \A d \in Demuxes : d \in Nat
      BY DEF DemuxTypeOK, Demuxes
    <3> QED BY <1>1, <1>2, <2>1, <2>3, <3>1
  <2>7. Owned'
    BY <1>1, <2>1, <2>2
  <2> HIDE DEF Single
  <2> QED BY <1>1, <2>2, <2>3, <2>5, <2>6, <2>7
<1>6. ASSUME NEW r \in BulkReaders, Subscribe(r) PROVE Goal
  <2> DEFINE d == using[r]
             f == r[1]
  <2>1. /\ d \in Demuxes /\ d \in 1..made /\ f \in BulkFlows /\ lane[r] = "found"
        /\ lane' = [lane EXCEPT ![r] = "reading"] /\ UNCHANGED <<path, entry, made, using>>
    BY <1>6, SubscribeQueue DEF Subscribe
  <2>2. Reading' = Reading \cup {r} /\ r \notin Reading
    BY <1>4, <2>1 DEF Reading
  <2>3. IsFiniteSet(Reading')
    BY <1>1, <2>2, FS_AddElement
  <2>4. CASE flows[d][f] = 0
    <3> DEFINE n == Len(chans) + 1
    <3>1. flows' = [flows EXCEPT ![d][f] = n] /\ reads' = [reads EXCEPT ![r] = n]
      BY <1>6, <2>4, SubscribeQueue
    <3>2. /\ n # 0 /\ \A b \in Demuxes, g \in BulkFlows : flows[b][g] # n
          /\ \A q \in BulkReaders : reads[q] # n
      BY <1>2, <1>3, <1>4
    <3> HIDE DEF d, f, n
    <3>3. /\ flows'[d][f] = n
          /\ \A b \in Demuxes, g \in BulkFlows : b # d \/ g # f => flows'[b][g] = flows[b][g]
      BY <1>4, <2>1, <3>1
    <3>4. reads'[r] = n /\ \A q \in BulkReaders : q # r => reads'[q] = reads[q]
      BY <1>4, <3>1
    <3>5. Finds'
      BY <1>1, <1>4, <2>1, <3>2, <3>4
    <3>6. Later'
      <4>1. ~(d > made) /\ made' = made
        BY <1>2, <2>1
      <4> QED BY <1>1, <3>3, <4>1
    <3>7. ASSUME NEW b \in Demuxes, NEW g \in BulkFlows PROVE Own(b, g)'
      <4>1. CASE b = d /\ g = f
        <5>1. \A q \in Reading' : reads'[q] = n => q = r
          BY <2>2, <3>2, <3>4 DEF Reading
        <5> QED BY <3>2, <3>3, <4>1, <5>1 DEF f
      <4>2. CASE b # d \/ g # f
        <5>1. flows'[b][g] = flows[b][g] /\ flows[b][g] # n
          BY <3>2, <3>3, <4>2
        <5>2. ASSUME NEW q \in Reading', reads'[q] = flows[b][g], flows[b][g] # 0 PROVE q[1] = g
          <6>1. q # r /\ q \in Reading /\ reads'[q] = reads[q]
            BY <2>2, <3>4, <5>1, <5>2 DEF Reading
          <6>2. Own(b, g)
            BY <1>1
          <6> QED BY <5>2, <6>1, <6>2
        <5>3. ASSUME NEW a \in Demuxes, NEW h \in BulkFlows, flows'[a][h] = flows[b][g], flows[b][g] # 0
              PROVE  a = b /\ h = g
          BY <1>1, <3>3, <5>1, <5>3
        <5> QED BY <5>1, <5>2, <5>3
      <4> QED BY <4>1, <4>2
    <3>8. Single'
      BY <1>1, <2>1
    <3> HIDE DEF Own, Later, Finds, Single
    <3> QED BY <2>3, <3>5, <3>6, <3>7, <3>8
  <2>5. CASE flows[d][f] # 0
    <3> DEFINE c == flows[d][f]
    <3>1. c # 0 /\ reads' = [reads EXCEPT ![r] = c] /\ flows' = flows
      BY <1>6, <2>5, SubscribeQueue
    <3>2. \A b \in Demuxes, g \in BulkFlows : flows[b][g] = c => g = f
      BY <1>1, <2>1, <2>5
    <3> HIDE DEF c, d
    <3>3. Finds'
      BY <1>1, <1>4, <2>1, <3>1 DEF d
    <3>4. Later' /\ Single'
      BY <1>1, <2>1, <3>1
    <3>5. Owned'
      <4>1. \A q \in Reading' : (q = r /\ reads'[q] = c) \/ (q \in Reading /\ reads'[q] = reads[q])
        BY <1>4, <2>2, <3>1 DEF Reading
      <4> QED BY <1>1, <3>1, <3>2, <4>1
    <3> QED BY <2>3, <3>3, <3>4, <3>5
  <2> QED BY <2>4, <2>5
<1>7. ASSUME NEW r \in BulkReaders, Leave(r) PROVE Goal
  <2>1. lane' = [lane EXCEPT ![r] = "gone"] /\ UNCHANGED <<path, entry, made, using, reads>>
    BY <1>7 DEF Leave
  <2>2. Reading' \subseteq Reading
    BY <1>4, <2>1 DEF Reading
  <2>3. IsFiniteSet(Reading')
    BY <1>1, <2>2, FS_Subset
  <2>4. \A d \in Demuxes, g \in BulkFlows : flows'[d][g] \in {0, flows[d][g]}
    <3>1. CASE entry # 0 /\ flows[entry][r[1]] # 0
      <4> DEFINE f == r[1]
      <4>1. entry \in Demuxes /\ f \in BulkFlows /\ Released(entry, f)
        <5>1. entry \in Demuxes
          BY <1>2, <3>1 DEF Demuxes
        <5>2. f \in BulkFlows
          BY BulkDemuxConstants
        <5> QED BY <1>7, <3>1, <5>1, <5>2 DEF Leave
      <4>2. flows' = flows \/ flows' = [flows EXCEPT ![entry][f] = 0]
        BY <3>1, <4>1, ReleasedQueue
      <4> HIDE DEF f
      <4>3. CASE flows' = [flows EXCEPT ![entry][f] = 0]
        BY <1>4, <4>1, <4>3
      <4> QED BY <4>2, <4>3
    <3>2. CASE ~(entry # 0 /\ flows[entry][r[1]] # 0)
      BY <1>7, <3>2 DEF Leave
    <3> QED BY <3>1, <3>2
  <2>5. Finds'
    BY <1>1, <1>4, <2>1
  <2>6. Owned'
    BY <1>1, <2>1, <2>2, <2>4
  <2> QED BY <1>1, <2>1, <2>3, <2>4, <2>5, <2>6
<1>8. CASE UNCHANGED <<path, entry, made, flows, lane, using, reads>>
  BY <1>1, <1>8 DEF Reading
<1>9. ASSUME NEW d \in Demuxes, RunEnds(d) PROVE Goal
  <2>1. /\ UNCHANGED <<path, entry, made, lane, using, reads>>
        /\ flows' = [flows EXCEPT ![d] = [f \in BulkFlows |-> 0]]
    BY <1>9 DEF RunEnds
  <2>2. \A b \in Demuxes, g \in BulkFlows : flows'[b][g] \in {0, flows[b][g]}
    BY <1>4, <2>1
  <2>3. Reading' = Reading
    BY <2>1 DEF Reading
  <2>4. Owned'
    BY <1>1, <2>1, <2>2, <2>3
  <2> QED BY <1>1, <2>1, <2>2, <2>3, <2>4
<1>10. CASE ConnectionEnds \/ CleanerRuns
  <2>1. UNCHANGED <<made, flows, lane, using, reads>> /\ Reading' = Reading
    BY <1>10 DEF ConnectionEnds, CleanerRuns, Reading
  <2>2. Single'
    BY <1>1, <1>10, <2>1 DEF ConnectionEnds, CleanerRuns
  <2> HIDE DEF Single
  <2> QED BY <1>1, <2>1, <2>2
<1>11. (\E r \in BulkReaders : Take(r)) \/ (\E d \in Demuxes, m \in BulkFrames : Receive(d, m)) \/ Age \/ UNCHANGED demuxVars
         => UNCHANGED <<path, entry, made, flows, lane, using, reads>>
  BY DEF Take, Receive, Age, demuxVars
<1> HIDE DEF Goal
<1> QED BY <1>5, <1>6, <1>7, <1>8, <1>9, <1>10, <1>11 DEF DemuxNext

\* No step takes a queue from a lane that reads it.
LEMMA SharesStay ==
  ASSUME DemuxTypeOK, DemuxTypeOK', LanesBelong, SharesAreHeld, [DemuxNext]_demuxVars PROVE SharesAreHeld'
<1> DEFINE Shared(d, f) == LET c == flows[d][f] IN
             c # 0 => ~chans[c].closed /\ Readers(c) # {} /\ chans[c].lanes = Cardinality(Readers(c))
           Follows(d, r) == lane[r] = "reading" /\ using[r] = d => flows[d][r[1]] = reads[r]
           Fine(d) == (\A f \in BulkFlows : Shared(d, f)) /\ (\A r \in BulkReaders : Follows(d, r))
<1>1. path # "closed" => \A d \in routing : Fine(d)
  BY DEF SharesAreHeld
<1> SUFFICES ASSUME path' # "closed", NEW d \in routing' PROVE Fine(d)'
  BY DEF SharesAreHeld
<1> DEFINE After(c) == {q \in BulkReaders : lane'[q] = "reading" /\ reads'[q] = c}
           Then(g) == flows'[d][g] # 0 =>
             /\ ~chans'[flows'[d][g]].closed /\ After(flows'[d][g]) # {}
             /\ chans'[flows'[d][g]].lanes = Cardinality(After(flows'[d][g]))
<1>0. ASSUME \A g \in BulkFlows : Then(g),
             \A q \in BulkReaders : lane'[q] = "reading" /\ using'[q] = d => flows'[d][q[1]] = reads'[q]
      PROVE  Fine(d)'
  BY <1>0 DEF Readers
<1>2. made \in 0..2 /\ entry \in 0..made /\ Len(chans) \in Nat /\ routing \subseteq 1..made
  BY DEF DemuxTypeOK
<1>3. \A b \in Demuxes, f \in BulkFlows : flows[b][f] \in 0..Len(chans)
  BY DEF DemuxTypeOK
<1>4. /\ lane \in [BulkReaders -> {"idle", "found", "reading", "gone"}]
      /\ using \in [BulkReaders -> 0..made] /\ reads \in [BulkReaders -> 0..Len(chans)]
      /\ flows \in [Demuxes -> [BulkFlows -> 0..Len(chans)]]
  BY DEF DemuxTypeOK
<1>5. path # "closed" /\ entry = made /\ made <= 1
  <2>1. path # "closed"
    BY DEF DemuxNext, FindDemux, Subscribe, Take, Leave, Receive, RunEnds, Age, ConnectionEnds, CleanerRuns, demuxVars
  <2> QED BY <2>1 DEF LanesBelong
<1>6. \A r \in BulkReaders : r[1] \in BulkFlows
  BY BulkDemuxConstants
<1>7. \A c : IsFiniteSet(Readers(c)) /\ Cardinality(Readers(c)) \in Nat
  <2> TAKE c
  <2>1. Readers(c) \subseteq Reading /\ IsFiniteSet(Reading)
    BY DEF LanesBelong, Readers, Reading
  <2> QED BY <2>1, FS_Subset, FS_CardinalityType
<1> HIDE DEF After
<1>7a. ASSUME d \in routing, NEW g \in BulkFlows, flows[d][g] # 0
       PROVE  /\ ~chans[flows[d][g]].closed /\ Readers(flows[d][g]) # {}
              /\ chans[flows[d][g]].lanes = Cardinality(Readers(flows[d][g]))
  BY <1>1, <1>5, <1>7a
<1>8. ASSUME NEW r \in BulkReaders, FindDemux(r) PROVE Fine(d)'
  <2>1. /\ lane[r] = "idle" /\ lane' = [lane EXCEPT ![r] = "found"] /\ UNCHANGED <<flows, chans, reads>>
    BY <1>8 DEF FindDemux
  <2>2. \A c : After(c) = Readers(c)
    BY <1>4, <2>1 DEF Readers, After
  <2>3. CASE d \in routing
    <3>1. \A f \in BulkFlows : Then(f)
      BY <1>7a, <2>1, <2>2, <2>3
    <3>2. \A q \in BulkReaders : lane'[q] = "reading" => lane[q] = "reading" /\ using'[q] = using[q]
      BY <1>4, <1>8, <2>1 DEF FindDemux
    <3>3. \A q \in BulkReaders : (lane'[q] = "reading" /\ using'[q] = d => flows'[d][q[1]] = reads'[q])
      BY <1>1, <1>5, <2>1, <2>3, <3>2
    <3> QED BY <1>0, <3>1, <3>3
  <2>4. CASE d \notin routing
    <3>1. entry = 0 /\ d = made + 1 /\ made = 0
      BY <1>5, <1>8, <2>4 DEF FindDemux
    <3>2. d = 1 /\ d \in Demuxes
      BY <3>1 DEF Demuxes
    <3>3. \A f \in BulkFlows : flows[d][f] = 0
      BY <3>1, <3>2 DEF LanesBelong
    <3>4. \A q \in BulkReaders : lane[q] # "reading"
      BY <1>4, <3>1 DEF LanesBelong
    <3>5. \A q \in BulkReaders : lane'[q] # "reading"
      BY <1>4, <2>1, <3>4
    <3> QED BY <1>0, <2>1, <3>3, <3>5
  <2> QED BY <2>3, <2>4
<1>9. ASSUME NEW r \in BulkReaders, Subscribe(r) PROVE Fine(d)'
  <2> DEFINE f == r[1]
  <2>1. /\ using[r] \in Demuxes /\ using[r] \in 1..made /\ lane[r] = "found"
        /\ lane' = [lane EXCEPT ![r] = "reading"] /\ UNCHANGED <<path, entry, made, routing, using>>
    BY <1>9, SubscribeQueue DEF Subscribe
  <2>2. d \in routing /\ using[r] = d /\ d \in Demuxes /\ f \in BulkFlows
    <3>1. d \in routing /\ f \in BulkFlows /\ d \in 1..made
      BY <1>2, <1>6, <2>1
    <3>2. using[r] = 1 /\ d = 1
      BY <1>2, <1>5, <2>1, <3>1
    <3> QED BY <2>1, <3>1, <3>2
  <2>3. Fine(d)
    BY <1>1, <1>5, <2>2
  <2>4. CASE flows[d][f] = 0
    <3> DEFINE n == Len(chans) + 1
    <3>1. /\ \A c \in 1..Len(chans) : chans'[c] = chans[c]
          /\ chans'[n].lanes = 1 /\ ~chans'[n].closed
          /\ flows' = [flows EXCEPT ![d][f] = n] /\ reads' = [reads EXCEPT ![r] = n]
      BY <1>9, <2>2, <2>4, SubscribeQueue
    <3>2. /\ n # 0 /\ n \notin 1..Len(chans) /\ \A q \in BulkReaders : reads[q] # n
      BY <1>2, <1>4
    <3> HIDE DEF n
    <3>3. flows'[d][f] = n /\ \A g \in BulkFlows \ {f} : flows'[d][g] = flows[d][g]
      BY <1>4, <2>2, <3>1
    <3>4. After(n) = {r}
      BY <1>4, <2>1, <3>1, <3>2 DEF Readers, After
    <3>5. \A c \in 1..Len(chans) : After(c) = Readers(c)
      BY <1>4, <2>1, <3>1, <3>2 DEF Readers, After
    <3>6. ASSUME NEW g \in BulkFlows PROVE Then(g)
      <4>1. CASE g = f
        <5>1. flows'[d][g] = n /\ n # 0 /\ After(n) # {} /\ Cardinality(After(n)) = 1
          BY <3>2, <3>3, <3>4, <4>1, FS_Singleton
        <5> QED BY <3>1, <5>1
      <4>2. CASE g # f /\ flows[d][g] # 0
        <5>1. flows[d][g] \in 1..Len(chans) /\ flows'[d][g] = flows[d][g]
          BY <1>3, <2>2, <3>3, <4>2
        <5> QED BY <1>7a, <2>2, <3>1, <3>5, <4>2, <5>1
      <4>3. CASE g # f /\ flows[d][g] = 0
        BY <3>3, <4>3
      <4> QED BY <4>1, <4>2, <4>3
    <3>7. ASSUME NEW q \in BulkReaders, lane'[q] = "reading", using'[q] = d PROVE flows'[d][q[1]] = reads'[q]
      <4>1. CASE q = r
        BY <1>4, <3>1, <3>3, <4>1
      <4>2. CASE q # r
        <5>1. lane[q] = "reading" /\ reads'[q] = reads[q] /\ using[q] = d
          BY <1>4, <2>1, <3>1, <3>7, <4>2
        <5>2. flows[d][q[1]] = reads[q] /\ reads[q] # 0
          BY <2>3, <5>1 DEF LanesBelong
        <5> QED BY <1>6, <2>4, <3>3, <5>1, <5>2
      <4> QED BY <4>1, <4>2
    <3> QED BY <1>0, <3>6, <3>7
  <2>5. CASE flows[d][f] # 0
    <3> DEFINE c == flows[d][f]
    <3>1. /\ c \in 1..Len(chans) /\ chans'[c].closed = chans[c].closed /\ chans'[c].lanes = chans[c].lanes + 1
          /\ \A b \in (1..Len(chans)) \ {c} : chans'[b] = chans[b]
          /\ reads' = [reads EXCEPT ![r] = c] /\ flows' = flows
      BY <1>9, <2>2, <2>5, SubscribeQueue
    <3>2. c # 0 /\ c = flows[d][f]
      BY <2>5
    <3> HIDE DEF c
    <3>3. After(c) = Readers(c) \cup {r} /\ r \notin Readers(c)
      BY <1>4, <2>1, <3>1 DEF Readers, After
    <3>4. Cardinality(After(c)) = Cardinality(Readers(c)) + 1
      BY <1>7, <3>3, FS_AddElement
    <3>5. \A b : b # c => After(b) = Readers(b)
      BY <1>4, <2>1, <3>1 DEF Readers, After
    <3>6. ASSUME NEW g \in BulkFlows PROVE Then(g)
      <4>1. CASE flows[d][g] = c
        <5>1. ~chans[c].closed /\ chans[c].lanes = Cardinality(Readers(c))
          BY <2>2, <2>3, <3>2
        <5> QED BY <3>1, <3>3, <3>4, <4>1, <5>1
      <4>2. CASE flows[d][g] # c /\ flows[d][g] # 0
        <5>1. flows[d][g] \in (1..Len(chans)) \ {c}
          BY <1>3, <2>2, <4>2
        <5> QED BY <2>3, <3>1, <3>5, <4>2, <5>1
      <4>3. CASE flows[d][g] = 0
        BY <3>1, <4>3
      <4> QED BY <4>1, <4>2, <4>3
    <3>7. ASSUME NEW q \in BulkReaders, lane'[q] = "reading", using'[q] = d PROVE flows'[d][q[1]] = reads'[q]
      <4>1. CASE q = r
        BY <1>4, <3>1, <3>2, <4>1
      <4>2. CASE q # r
        <5>1. lane[q] = "reading" /\ reads'[q] = reads[q] /\ using[q] = d
          BY <1>4, <2>1, <3>1, <3>7, <4>2
        <5> QED BY <2>3, <3>1, <5>1
      <4> QED BY <4>1, <4>2
    <3> QED BY <1>0, <3>6, <3>7
  <2> QED BY <2>4, <2>5
<1>10. ASSUME UNCHANGED <<routing, flows, lane, using, reads>>,
              \A c \in 1..Len(chans) : chans'[c].lanes = chans[c].lanes /\ chans'[c].closed = chans[c].closed
       PROVE  Fine(d)'
  <2>1. d \in routing /\ d \in Demuxes
    BY <1>2, <1>5, <1>10 DEF Demuxes
  <2>2. \A c : After(c) = Readers(c)
    BY <1>10 DEF Readers, After
  <2>3. ASSUME NEW f \in BulkFlows, flows[d][f] # 0 PROVE flows[d][f] \in 1..Len(chans)
    BY <1>3, <2>1, <2>3
  <2>4. \A g \in BulkFlows : Then(g)
    BY <1>10, <1>7a, <2>1, <2>2, <2>3
  <2> QED BY <1>0, <1>1, <1>5, <1>10, <2>1, <2>4
<1>11. ASSUME NEW r \in BulkReaders, Leave(r) PROVE Fine(d)'
  <2> DEFINE f == r[1]
             c == flows[d][f]
  <2>1. /\ lane[r] = "reading" /\ lane' = [lane EXCEPT ![r] = "gone"]
        /\ UNCHANGED <<path, entry, made, routing, using, reads>>
    BY <1>11 DEF Leave
  <2>2. d \in routing /\ entry = d /\ d \in Demuxes /\ f \in BulkFlows /\ using[r] = d
    BY <1>2, <1>4, <1>5, <1>6, <2>1 DEF LanesBelong, Demuxes
  <2>3. Fine(d)
    BY <1>1, <1>5, <2>2
  <2>4. c = reads[r] /\ c # 0
    BY <2>1, <2>2, <2>3 DEF LanesBelong
  <2>5. Released(d, f)
    BY <1>2, <1>11, <2>2, <2>4 DEF Leave
  <2>6. /\ c \in 1..Len(chans) /\ \A b \in (1..Len(chans)) \ {c} : chans'[b] = chans[b]
        /\ \/ /\ chans[c].lanes > 1 /\ chans'[c].lanes = chans[c].lanes - 1
              /\ chans'[c].closed = chans[c].closed /\ flows' = flows
           \/ chans[c].lanes <= 1 /\ flows' = [flows EXCEPT ![d][f] = 0]
    BY <2>2, <2>4, <2>5, ReleasedQueue
  <2>7. ~chans[c].closed /\ chans[c].lanes = Cardinality(Readers(c))
    BY <2>2, <2>3, <2>4
  <2>8. \A g \in BulkFlows : flows[d][g] = c => g = f
    BY <2>2, <2>4 DEF LanesBelong
  <2>9. c = flows[d][f]
    OBVIOUS
  <2> HIDE DEF c, f
  <2>10. After(c) = Readers(c) \ {r} /\ r \in Readers(c) /\ \A b : b # c => After(b) = Readers(b)
    BY <1>4, <2>1, <2>4 DEF Readers, After
  <2>11. Cardinality(After(c)) = Cardinality(Readers(c)) - 1
    BY <1>7, <2>10, FS_RemoveElement
  <2>12. ASSUME NEW g \in BulkFlows, g # f, flows[d][g] # 0
         PROVE  ~chans'[flows[d][g]].closed /\ After(flows[d][g]) # {}
                /\ chans'[flows[d][g]].lanes = Cardinality(After(flows[d][g]))
    <3>1. flows[d][g] \in (1..Len(chans)) \ {c}
      BY <1>3, <2>2, <2>8, <2>12
    <3> QED BY <2>3, <2>6, <2>10, <2>12, <3>1
  <2>13. CASE chans[c].lanes > 1
    <3>1. /\ chans'[c].lanes = chans[c].lanes - 1 /\ chans'[c].closed = chans[c].closed /\ flows' = flows
      BY <1>7, <2>6, <2>7, <2>13
    <3>2. After(c) # {}
      <4>1. Cardinality(After(c)) # 0
        BY <1>7, <2>7, <2>11, <2>13
      <4> QED BY <4>1, FS_EmptySet
    <3>3. ASSUME NEW g \in BulkFlows PROVE Then(g)
      <4>1. CASE g = f
        BY <2>7, <2>9, <2>11, <3>1, <3>2, <4>1
      <4>2. CASE g # f
        BY <2>12, <3>1, <4>2
      <4> QED BY <4>1, <4>2
    <3>4. ASSUME NEW q \in BulkReaders PROVE (lane'[q] = "reading" /\ using'[q] = d => flows'[d][q[1]] = reads'[q])
      BY <1>4, <2>1, <2>3, <3>1
    <3> QED BY <1>0, <3>3, <3>4
  <2>14. CASE chans[c].lanes <= 1
    <3>1. flows' = [flows EXCEPT ![d][f] = 0]
      BY <1>7, <2>6, <2>7, <2>14
    <3>2. flows'[d][f] = 0 /\ \A g \in BulkFlows \ {f} : flows'[d][g] = flows[d][g]
      BY <1>4, <2>2, <3>1
    <3>3. After(c) = {}
      <4>1. Cardinality(After(c)) \in Nat /\ IsFiniteSet(After(c))
        <5>1. After(c) \subseteq Readers(c)
          BY <2>10
        <5> QED BY <1>7, <5>1, FS_Subset, FS_CardinalityType
      <4>2. Cardinality(After(c)) = 0
        BY <1>7, <2>7, <2>11, <2>14, <4>1
      <4> QED BY <4>1, <4>2, FS_EmptySet
    <3>4. ASSUME NEW g \in BulkFlows PROVE Then(g)
      <4>1. CASE g = f
        BY <3>2, <4>1
      <4>2. CASE g # f
        BY <2>12, <3>2, <4>2
      <4> QED BY <4>1, <4>2
    <3>5. ASSUME NEW q \in BulkReaders, lane'[q] = "reading", using'[q] = d PROVE flows'[d][q[1]] = reads'[q]
      <4>1. lane[q] = "reading" /\ using[q] = d /\ q # r /\ reads'[q] = reads[q]
        BY <1>4, <2>1, <3>5
      <4>2. flows[d][q[1]] = reads[q]
        BY <2>3, <4>1
      <4>3. reads[q] # c
        BY <2>1, <3>3, <3>5, <4>1 DEF Readers, After
      <4>4. q[1] # f
        BY <2>9, <4>2, <4>3
      <4> QED BY <1>6, <3>2, <4>1, <4>2, <4>4
    <3> QED BY <1>0, <3>4, <3>5
  <2>15. chans[c].lanes \in Nat
    BY <1>7, <2>7
  <2> QED BY <2>13, <2>14, <2>15
<1>12. ASSUME NEW b \in Demuxes, RunEnds(b) PROVE FALSE
  <2>1. routing' = routing \ {b} /\ b \in routing
    BY <1>12 DEF RunEnds
  <2> QED BY <1>2, <1>5, <2>1
<1>13. ASSUME NEW r \in BulkReaders, Take(r) PROVE Fine(d)'
  <2>1. /\ UNCHANGED <<routing, flows, lane, using, reads>>
        /\ \A c \in 1..Len(chans) : chans'[c].lanes = chans[c].lanes /\ chans'[c].closed = chans[c].closed
    BY <1>13, TakeQueue DEF Take
  <2> QED BY <1>10, <2>1
<1>14. ASSUME NEW b \in Demuxes, NEW m \in BulkFrames, Receive(b, m) PROVE Fine(d)'
  <2>1. UNCHANGED <<routing, flows, lane, using, reads>> /\ Route(b, m)
    BY <1>14 DEF Receive
  <2>2. \A c \in 1..Len(chans) : chans'[c].lanes = chans[c].lanes /\ chans'[c].closed = chans[c].closed
    <3>1. CASE flows[b][m[1]] = 0
      BY <2>1, <3>1 DEF Route, Hold
    <3>2. CASE flows[b][m[1]] # 0
      BY <2>1, <3>2, RoutedQueue
    <3> QED BY <3>1, <3>2
  <2> QED BY <1>10, <2>1, <2>2
<1>15. CASE Age \/ ConnectionEnds \/ CleanerRuns \/ UNCHANGED demuxVars
  <2>1. UNCHANGED <<routing, flows, chans, lane, using, reads>>
    BY <1>15 DEF Age, ConnectionEnds, CleanerRuns, demuxVars
  <2> QED BY <1>10, <2>1
<1> HIDE DEF Fine
<1> QED BY <1>8, <1>9, <1>11, <1>12, <1>13, <1>14, <1>15 DEF DemuxNext

\* No lane ever shuts or takes the queue another lane of its flow reads, the counts of
\* the queues are their lanes', and a frame that arrived before, during or after its
\* flow's subscription is in exactly the places the code looks in
\* (subscribe, release and holdLocked, codedlane.go:117-225).
THEOREM FramesFindTheirLanes == DemuxSpec => []DemuxInv
<1>1. DemuxIInv /\ [DemuxNext]_demuxVars => DemuxIInv'
  <2> SUFFICES ASSUME DemuxIInv, [DemuxNext]_demuxVars PROVE DemuxIInv'
    OBVIOUS
  <2>1. DemuxTypeOK /\ LanesBelong /\ SharesAreHeld
    BY DEF DemuxIInv, DemuxInv
  <2>2. DemuxTypeOK'
    BY <2>1, DemuxTypes
  <2>3. LanesBelong'
    BY <2>1, <2>2, LanesStay
  <2>4. SharesAreHeld'
    BY <2>1, <2>2, SharesStay
  <2>5. FramesFindTheirFlow'
    BY <2>2, FramesStay
  <2> QED BY <2>2, <2>3, <2>4, <2>5 DEF DemuxIInv, DemuxInv
<1>2. DemuxIInv => DemuxInv
  BY DEF DemuxIInv
<1> QED BY <1>1, <1>2, DemuxInitInv, PTL DEF DemuxSpec
===============================================================================
