----------------------------- MODULE ControlPool -----------------------------
(***************************************************************************)
(* The client's shared control connection (queqiao/internal/pep/client.go):  *)
(* one generation at a time, dialled by a single background attempt for all  *)
(* the flows that wait for it, replaced after a failure, a network change    *)
(* or an idle close, and closed with the client.                             *)
(*                                                                         *)
(* An attempt is named by its epoch, and so is the connection it makes.      *)
(* Every name here begins with Control: module MCEndpoints explores this pool *)
(* beside the pool of bulk connections, module BulkPool.                     *)
(***************************************************************************)
EXTENDS Integers, FiniteSets

CONSTANTS
  ControlFlows,      \* goroutines that open a control stream, each its own flow
  ControlMaxEpoch    \* bound: dials and resets

ASSUME ControlConstants == ControlMaxEpoch \in Nat

VARIABLES
  generation,   \* quicGeneration, 0 for nil
  dial,         \* quicDial, 0 for nil
  epoch,        \* quicEpoch
  attempt,      \* controlQUICDial and its goroutine
  control,      \* the connection of each epoch and its packet socket
  closing,      \* connections a goroutine is about to close, the mutex released
  opener,       \* dialPooledQUICLane, one per flow
  streams,      \* quicPoolActive
  idler,        \* CloseIdleConnections: the generation it is about to retire
  stoppedAt,    \* the epoch CloseWithError left behind, 0 before it is called
  resetAt       \* the epoch the last reset left behind

controlVars == <<generation, dial, epoch, attempt, control, closing, opener, streams,
                 idler, stoppedAt, resetAt>>

Nil         == 0
Epochs      == 1 .. ControlMaxEpoch
Unopened    == [pc |-> "idle", id |-> Nil, since |-> 0]
IsOpen(c)   == control[c] \in {"alive", "dead"}
\* conn.Context().Err() == nil
Alive(c)    == control[c] = "alive"

ControlInit ==
  /\ generation = Nil /\ dial = Nil /\ epoch = 0 /\ resetAt = 0
  /\ attempt = [a \in Epochs |-> "none"]
  /\ control = [c \in Epochs |-> "none"]
  /\ closing = {}
  /\ opener = [f \in ControlFlows |-> Unopened]
  /\ streams = 0 /\ idler = Nil /\ stoppedAt = 0

-----------------------------------------------------------------------------
(* acquireControlQUICGeneration *)

\* A flow goes on to its next step, with the attempt or connection it looks at.
Goes(f, pc, id) ==
  opener' = [opener EXCEPT ![f] = [pc |-> pc, id |-> id, since |-> opener[f].since]]

\* A flow begins to dial; it remembers what was reset before it did.
ControlBegin(f) ==
  /\ opener[f].pc = "idle"
  /\ opener' = [opener EXCEPT ![f] = [pc |-> "asking", id |-> Nil, since |-> resetAt]]
  /\ UNCHANGED <<generation, dial, epoch, attempt, control, closing, streams, idler,
                 stoppedAt, resetAt>>

\* The generation is there and alive.
ControlReuse(f) ==
  /\ opener[f].pc = "asking" /\ generation # Nil /\ Alive(generation)
  /\ Goes(f, "opening", generation)
  /\ UNCHANGED <<generation, dial, epoch, attempt, control, closing, streams, idler,
                 stoppedAt, resetAt>>

\* None is: take a dead one out, to close it behind the mutex, and join the dial in
\* flight or start one.
ControlAwait(f) ==
  /\ opener[f].pc = "asking" /\ ~(generation # Nil /\ Alive(generation))
  /\ closing' = closing \cup ({generation} \ {Nil})
  /\ generation' = Nil
  /\ \/ /\ dial # Nil
        /\ Goes(f, "waiting", dial)
        /\ UNCHANGED <<dial, epoch, attempt>>
     \/ /\ dial = Nil /\ epoch < ControlMaxEpoch
        /\ epoch' = epoch + 1
        /\ dial' = epoch + 1
        /\ attempt' = [attempt EXCEPT ![epoch + 1] = "dialing"]
        /\ Goes(f, "waiting", epoch + 1)
  /\ UNCHANGED <<control, streams, idler, stoppedAt, resetAt>>

\* done was closed: a superseded attempt sends its waiters round again.
ControlWake(f) ==
  LET a == opener[f].id IN
  /\ opener[f].pc = "waiting"
  /\ \/ attempt[a] = "superseded" /\ Goes(f, "asking", Nil)
     \/ attempt[a] = "failed" /\ opener' = [opener EXCEPT ![f] = Unopened]
     \/ attempt[a] = "installed" /\ Goes(f, "opening", a)
  /\ UNCHANGED <<generation, dial, epoch, attempt, control, closing, streams, idler,
                 stoppedAt, resetAt>>

\* The caller's context ends before a stream is open.
ControlGivesUp(f) ==
  /\ opener[f].pc \in {"asking", "waiting", "opening"}
  /\ opener' = [opener EXCEPT ![f] = Unopened]
  /\ UNCHANGED <<generation, dial, epoch, attempt, control, closing, streams, idler,
                 stoppedAt, resetAt>>

-----------------------------------------------------------------------------
(* runControlQUICDial *)

\* dialQUICConnection returned with a connection, or without one.
ControlDialed(a) ==
  /\ attempt[a] = "dialing"
  /\ \/ attempt' = [attempt EXCEPT ![a] = "made"] /\ control' = [control EXCEPT ![a] = "alive"]
     \/ attempt' = [attempt EXCEPT ![a] = "refused"] /\ UNCHANGED control
  /\ UNCHANGED <<generation, dial, epoch, closing, opener, streams, idler, stoppedAt, resetAt>>

\* Variants named Mut... are faulty readings of the definition that follows them;
\* no specification uses them, a property must fail when one replaces it.
MutCurrent(a) == dial \in {Nil, a}

\* The attempt is still the pool's: no reset came in between.
Current(a) == dial = a /\ epoch = a

\* Publish under the mutex, to the pool and to the waiters.
ControlPublish(a) ==
  /\ attempt[a] \in {"made", "refused"} /\ Current(a)
  /\ dial' = Nil
  /\ generation' = IF attempt[a] = "made" THEN a ELSE generation
  /\ attempt' = [attempt EXCEPT ![a] = IF @ = "made" THEN "installed" ELSE "failed"]
  /\ UNCHANGED <<epoch, control, closing, opener, streams, idler, stoppedAt, resetAt>>

\* What a superseded attempt made is closed before its waiters are told.
ControlSupersede(a) ==
  /\ attempt[a] \in {"made", "refused"} /\ ~Current(a)
  /\ control' = [control EXCEPT ![a] = IF attempt[a] = "made" THEN "closed" ELSE @]
  /\ attempt' = [attempt EXCEPT ![a] = "superseded"]
  /\ UNCHANGED <<generation, dial, epoch, closing, opener, streams, idler, stoppedAt, resetAt>>

-----------------------------------------------------------------------------
(* Streams on a generation *)

\* OpenStreamSync succeeded; the stream is counted afterwards.
ControlOpens(f) ==
  /\ opener[f].pc = "opening" /\ Alive(opener[f].id)
  /\ Goes(f, "streaming", opener[f].id)
  /\ streams' = streams + 1
  /\ UNCHANGED <<generation, dial, epoch, attempt, control, closing, idler, stoppedAt, resetAt>>

MutRetired(g) == Nil

\* retireControlQUICGeneration forgets its own generation, never a newer one.
Retired(g) == IF generation = g THEN Nil ELSE generation

\* OpenStreamSync failed because the connection is gone.
ControlOpenFails(f) ==
  LET g == opener[f].id IN
  /\ opener[f].pc = "opening" /\ ~Alive(g)
  /\ generation' = Retired(g)
  /\ closing' = closing \cup {g}
  /\ opener' = [opener EXCEPT ![f] = Unopened]
  /\ UNCHANGED <<dial, epoch, attempt, control, streams, idler, stoppedAt, resetAt>>

\* transportFailed: the connection is gone, or a timeout says it makes no progress.
ControlFailed(f) ==
  LET g == opener[f].id IN
  /\ opener[f].pc = "streaming"
  /\ generation' = Retired(g)
  /\ closing' = closing \cup {g}
  /\ UNCHANGED <<dial, epoch, attempt, control, opener, streams, idler, stoppedAt, resetAt>>

\* The count never falls below zero.
OneLess(n) == IF n > 0 THEN n - 1 ELSE 0

MutStreamEnds(f) ==
  /\ opener[f].pc = "streaming"
  /\ opener' = [opener EXCEPT ![f] = Unopened]
  /\ streams' \in {OneLess(streams), OneLess(OneLess(streams))}
  /\ UNCHANGED <<generation, dial, epoch, attempt, control, closing, idler, stoppedAt, resetAt>>

\* controlPoolStreamConn.Close: however often it is called, it counts once.
ControlStreamEnds(f) ==
  /\ opener[f].pc = "streaming"
  /\ opener' = [opener EXCEPT ![f] = Unopened]
  /\ streams' = OneLess(streams)
  /\ UNCHANGED <<generation, dial, epoch, attempt, control, closing, idler, stoppedAt, resetAt>>

-----------------------------------------------------------------------------
(* CloseIdleConnections, NetworkChanged, CloseWithError, and the network *)

ControlIdleLooks ==
  /\ idler = Nil /\ generation # Nil /\ streams = 0
  /\ idler' = generation
  /\ UNCHANGED <<generation, dial, epoch, attempt, control, closing, opener, streams,
                 stoppedAt, resetAt>>

ControlIdleRetires ==
  /\ idler # Nil
  /\ generation' = Retired(idler)
  /\ closing' = closing \cup {idler}
  /\ idler' = Nil
  /\ UNCHANGED <<dial, epoch, attempt, control, opener, streams, stoppedAt, resetAt>>

MutForgets == {}

\* What closeControlQUICPool takes out to close.
Forgets == {generation} \ {Nil}

\* closeControlQUICPool: the pool forgets its generation and the dial in flight.
ControlReset ==
  /\ epoch < ControlMaxEpoch
  /\ epoch' = epoch + 1
  /\ resetAt' = epoch + 1
  /\ generation' = Nil
  /\ dial' = Nil
  /\ closing' = closing \cup Forgets
  /\ UNCHANGED <<attempt, control, opener, streams, idler>>

ControlNetworkChanged == ControlReset /\ UNCHANGED stoppedAt
ControlStop           == stoppedAt = 0 /\ ControlReset /\ stoppedAt' = epoch + 1

ControlCloses(c) ==
  /\ c \in closing
  /\ closing' = closing \ {c}
  /\ control' = [control EXCEPT ![c] = "closed"]
  /\ UNCHANGED <<generation, dial, epoch, attempt, opener, streams, idler, stoppedAt, resetAt>>

\* The connection ends by itself; its socket stays.
ControlDies(c) ==
  /\ control[c] = "alive"
  /\ control' = [control EXCEPT ![c] = "dead"]
  /\ UNCHANGED <<generation, dial, epoch, attempt, closing, opener, streams, idler,
                 stoppedAt, resetAt>>

\* What goes on without a new request or event.
ControlWork ==
  \/ \E f \in ControlFlows : ControlReuse(f) \/ ControlAwait(f) \/ ControlWake(f)
                             \/ ControlOpens(f) \/ ControlOpenFails(f)
  \/ \E a \in Epochs : ControlDialed(a) \/ ControlPublish(a) \/ ControlSupersede(a)
                       \/ ControlCloses(a)
  \/ ControlIdleRetires

ControlNext ==
  \/ ControlWork
  \/ \E f \in ControlFlows : ControlBegin(f) \/ ControlGivesUp(f) \/ ControlFailed(f)
                             \/ ControlStreamEnds(f)
  \/ \E c \in Epochs : ControlDies(c)
  \/ ControlIdleLooks \/ ControlNetworkChanged \/ ControlStop

ControlSpec == ControlInit /\ [][ControlNext]_controlVars

-----------------------------------------------------------------------------
(* Properties *)

ControlTypeOK ==
  /\ generation \in Epochs \cup {Nil} /\ dial \in Epochs \cup {Nil} /\ idler \in Epochs \cup {Nil}
  /\ epoch \in 0 .. ControlMaxEpoch /\ resetAt \in 0 .. ControlMaxEpoch
  /\ attempt \in [Epochs -> {"none", "dialing", "made", "refused", "installed", "failed",
                             "superseded"}]
  /\ control \in [Epochs -> {"none", "alive", "dead", "closed"}]
  /\ closing \subseteq Epochs /\ stoppedAt \in 0 .. ControlMaxEpoch /\ streams \in Nat
  /\ opener \in [ControlFlows -> [pc: {"idle", "asking", "waiting", "opening", "streaming"},
                                  id: Epochs \cup {Nil}, since: 0 .. ControlMaxEpoch]]

\* quicPoolActive "keeps the count of flows sharing the pooled control connection
\* accurate": the idle close and the move to a bulk connection rely on it.
StreamsCounted == streams = Cardinality({f \in ControlFlows : opener[f].pc = "streaming"})

\* Every open connection, with the socket beneath it, is the pool's generation, is
\* about to be closed, or is still in the hands of the attempt that made it: no
\* interleaving of failures, resets and late dials leaks one.
NoConnectionForgotten ==
  \A c \in Epochs : IsOpen(c) => c = generation \/ c \in closing \/ attempt[c] = "made"

\* A flow that began after a network change never gets a connection that was
\* dialled before it ("instead of inheriting a connection bound to the old path").
NothingInherited ==
  \A f \in ControlFlows : opener[f].pc \in {"opening", "streaming"} => opener[f].id > opener[f].since

\* The pool holds a generation or a dial in flight, never both, and either is newer
\* than the last reset; no attempt is newer than quicEpoch.
OneAtATime ==
  /\ generation = Nil \/ dial = Nil
  /\ generation # Nil => generation > resetAt
  /\ dial # Nil => dial > resetAt
  /\ resetAt <= epoch
  /\ \A a \in Epochs : attempt[a] # "none" => a <= epoch

\* What a flow waits for, or has been given, is newer than the reset before its dial.
Newer ==
  \A f \in ControlFlows :
    /\ opener[f].since <= resetAt
    /\ opener[f].pc \in {"waiting", "opening", "streaming"} => opener[f].id > opener[f].since

\* The inductive invariant behind the two properties above: a late dial must find no
\* room, or publishing it would drop a generation or bring an old path back.
ControlInv == ControlTypeOK /\ NoConnectionForgotten /\ OneAtATime /\ Newer

\* A late failure "can never close the healthy generation which replaced it": the
\* pool loses a generation that is alive and in nobody's sight of closing only to a
\* reset, to an idle close or to a flow that used this very generation.
OnlyItsOwnGeneration ==
  [][generation # Nil /\ generation' # generation =>
       \/ ~Alive(generation) \/ resetAt' # resetAt \/ idler = generation
       \/ \E f \in ControlFlows : opener[f].id = generation]_controlVars

\* "This also closes the shutdown race where a waiter wakes after its old epoch was
\* superseded and would otherwise start one last connection": no flow that began
\* before the client was stopped waits for a dial that began after it.
NoLastConnection ==
  \A f \in ControlFlows :
    opener[f].pc = "waiting" /\ opener[f].since < stoppedAt => opener[f].id < stoppedAt
=============================================================================
