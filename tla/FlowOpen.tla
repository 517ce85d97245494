------------------------------ MODULE FlowOpen ------------------------------
(***************************************************************************)
(* Opening a TCP flow, at both ends: DialConn with its admission, retries and  *)
(* OPEN handshake (pep/client.go), and the server's admission, its session     *)
(* handler and registry (pep/server.go).                                       *)
(*                                                                         *)
(* A flow <<c, i>> belongs to client c.  Every attempt opens a session of its   *)
(* own, <<f, k>>; the server may go on with it after the client gave it up.     *)
(* Go channels used as counting semaphores are kept as the counts they hold,    *)
(* so that they can disagree with who took a place.                             *)
(***************************************************************************)
EXTENDS Naturals, FiniteSets

CONSTANTS
  OpenFlows,       \* the flows applications dial, pairs <<client, number>>
  SessionLimits,   \* values of the limit on the sessions all clients share
  PendingMax,      \* MaxPendingOpens of a client
  OpenSessions,    \* pairs <<flow, attempt>>: flowOpenAttempts of a flow, or fewer
                   \* when its caller never stays for more
  ServerMax        \* MaxSessions of the server

OpenClients == {f[1] : f \in OpenFlows}

ASSUME OpenAssumption ==
  /\ SessionLimits \subseteq Nat \ {0} /\ PendingMax \in Nat \ {0}
  /\ OpenSessions \subseteq OpenFlows \X (Nat \ {0}) /\ ServerMax \in Nat \ {0}
  /\ \A f \in OpenFlows : <<f, 1>> \in OpenSessions
  /\ OpenFlows # {} /\ IsFiniteSet(OpenClients)

VARIABLES
  sessionMax,      \* the configured limit
  openDial,            \* flow -> idle, opening, waiting, running, over
  openAttempt,         \* flow -> the attempt it is at
  slot,            \* flow -> the pool its session slot came from
  reservedUsed,    \* client -> len(reserved)
  sharedUsed,      \* len(shared)
  pendingUsed,     \* client -> len(pendingOpens)
  stream,          \* session -> the client's end of its stream: none, open, closed
  reply,           \* session -> what the server wrote: none, ok, reset
  handler,         \* session -> none, reading, dialing, checking, answering, running, gone
  destination,     \* sessions whose connection to the destination is open
  semaphore,       \* len(Server.semaphore)
  sessions,        \* the keys of Server.sessions
  tombstones       \* sessions whose entry a timer will remove

\* NewSharedSessionLimits: half of the whole is set aside in equal parts.
Reserve == sessionMax \div (2 * Cardinality(OpenClients))
SharedMax == sessionMax - Reserve * Cardinality(OpenClients)

openClientVars == <<openDial, openAttempt, slot, reservedUsed, sharedUsed, pendingUsed>>
openServerVars == <<handler, destination, semaphore, sessions, tombstones>>
openVars == <<sessionMax, openClientVars, stream, reply, openServerVars>>

OpenInit ==
  /\ sessionMax \in SessionLimits
  /\ openDial = [f \in OpenFlows |-> "idle"] /\ openAttempt = [f \in OpenFlows |-> 0]
  /\ slot = [f \in OpenFlows |-> "none"]
  /\ reservedUsed = [c \in OpenClients |-> 0] /\ sharedUsed = 0
  /\ pendingUsed = [c \in OpenClients |-> 0]
  /\ stream = [x \in OpenSessions |-> "none"] /\ reply = [x \in OpenSessions |-> "none"]
  /\ handler = [x \in OpenSessions |-> "none"]
  /\ destination = {} /\ semaphore = 0 /\ sessions = {} /\ tombstones = {}

Session(f) == <<f, openAttempt[f]>>

-----------------------------------------------------------------------------
\* The client.  SessionLimit.acquire: the reservation first, then the shared pool.
TakesSlot(f) ==
  \/ /\ reservedUsed[f[1]] < Reserve
     /\ slot' = [slot EXCEPT ![f] = "reserved"]
     /\ reservedUsed' = [reservedUsed EXCEPT ![f[1]] = @ + 1]
     /\ UNCHANGED sharedUsed
  \/ /\ reservedUsed[f[1]] >= Reserve /\ sharedUsed < SharedMax
     /\ slot' = [slot EXCEPT ![f] = "shared"]
     /\ sharedUsed' = sharedUsed + 1
     /\ UNCHANGED reservedUsed

MutReturnsSlot(f) ==
  /\ slot' = [slot EXCEPT ![f] = "none"]
  /\ IF reservedUsed[f[1]] > 0
       THEN reservedUsed' = [reservedUsed EXCEPT ![f[1]] = @ - 1] /\ UNCHANGED sharedUsed
       ELSE sharedUsed' = sharedUsed - 1 /\ UNCHANGED reservedUsed

\* sessionSlot.release: to the pool it came from.
ReturnsSlot(f) ==
  /\ slot' = [slot EXCEPT ![f] = "none"]
  /\ IF slot[f] = "reserved"
       THEN reservedUsed' = [reservedUsed EXCEPT ![f[1]] = @ - 1] /\ UNCHANGED sharedUsed
       ELSE sharedUsed' = sharedUsed - 1 /\ UNCHANGED reservedUsed

\* A dial without a slot, or without room among the pending opens, fails at once and
\* leaves everything as it was.
DialBegins(f) ==
  /\ openDial[f] = "idle"
  /\ \/ /\ TakesSlot(f) /\ pendingUsed[f[1]] < PendingMax
        /\ pendingUsed' = [pendingUsed EXCEPT ![f[1]] = @ + 1]
        /\ openDial' = [openDial EXCEPT ![f] = "opening"]
        /\ openAttempt' = [openAttempt EXCEPT ![f] = 1]
     \/ /\ \/ reservedUsed[f[1]] >= Reserve /\ sharedUsed >= SharedMax
           \/ pendingUsed[f[1]] >= PendingMax
        /\ openDial' = [openDial EXCEPT ![f] = "over"]
        /\ UNCHANGED <<openAttempt, slot, reservedUsed, sharedUsed, pendingUsed>>
  /\ UNCHANGED <<stream, reply, openServerVars>>

\* openFlowMode and dialPipelinedFlow: a lane, an OPEN on it, and then the wait for the
\* acknowledgement or, optimistically, none.
DialSendsOpen(f) ==
  /\ openDial[f] = "opening"
  /\ stream' = [stream EXCEPT ![Session(f)] = "open"]
  /\ openDial' = [openDial EXCEPT ![f] = "waiting"]
  /\ UNCHANGED <<openAttempt, slot, reservedUsed, sharedUsed, pendingUsed, reply, openServerVars>>

Succeeds(f) ==
  /\ openDial' = [openDial EXCEPT ![f] = "running"]
  /\ pendingUsed' = [pendingUsed EXCEPT ![f[1]] = @ - 1]
  /\ UNCHANGED <<openAttempt, slot, reservedUsed, sharedUsed, stream>>

GivesUp(f) ==
  /\ openDial' = [openDial EXCEPT ![f] = "over"]
  /\ pendingUsed' = [pendingUsed EXCEPT ![f[1]] = @ - 1]
  /\ ReturnsSlot(f)
  /\ UNCHANGED openAttempt

\* The loop of openFlowWithRetries after an attempt that nobody answered.
Retries(f) ==
  \/ /\ <<f, openAttempt[f] + 1>> \in OpenSessions
     /\ openDial' = [openDial EXCEPT ![f] = "opening"]
     /\ openAttempt' = [openAttempt EXCEPT ![f] = @ + 1]
     /\ UNCHANGED <<slot, reservedUsed, sharedUsed, pendingUsed>>
  \/ GivesUp(f)       \* the last attempt, or the caller's context ended

Closed(f) == [stream EXCEPT ![Session(f)] = "closed"]

\* The dial of the lane fails.
DialFails(f) ==
  /\ openDial[f] = "opening" /\ Retries(f)
  /\ UNCHANGED <<stream, reply, openServerVars>>

\* The OPEN was sent.  Without waiting the flow runs at once; otherwise the answer
\* decides, and a timeout or a lost stream counts as no answer.
DialProceeds(f) ==
  /\ openDial[f] = "waiting"
  /\ \/ Succeeds(f)
     \/ reply[Session(f)] = "reset" /\ GivesUp(f) /\ stream' = Closed(f)
     \/ Retries(f) /\ stream' = Closed(f)
  /\ UNCHANGED <<reply, openServerVars>>

\* run returns, or the first addLane failed: the slot goes back.
FlowFinishes(f) ==
  /\ openDial[f] = "running"
  /\ openDial' = [openDial EXCEPT ![f] = "over"]
  /\ ReturnsSlot(f)
  /\ stream' = Closed(f)
  /\ UNCHANGED <<openAttempt, pendingUsed, reply, openServerVars>>

-----------------------------------------------------------------------------
\* The server.  handleQUIC: a stream is handled if there is room, else closed.
ServerAccepts(x) ==
  /\ stream[x] # "none" /\ handler[x] = "none"
  /\ IF semaphore < ServerMax
       THEN /\ semaphore' = semaphore + 1
            /\ handler' = [handler EXCEPT ![x] = "reading"]
       ELSE /\ handler' = [handler EXCEPT ![x] = "gone"]
            /\ UNCHANGED semaphore
  /\ UNCHANGED <<openClientVars, stream, reply, destination, sessions, tombstones>>

\* Every return of handleSession releases its place and closes the destination.
Returning(x) ==
  /\ handler' = [handler EXCEPT ![x] = "gone"]
  /\ semaphore' = semaphore - 1
  /\ destination' = destination \ {x}

Refuses(x) == Returning(x) /\ reply' = [reply EXCEPT ![x] = "reset"]

\* The OPEN is read, or the stream is lost, or what was read is no valid OPEN.
ServerReads(x) ==
  /\ handler[x] = "reading"
  /\ \/ /\ handler' = [handler EXCEPT ![x] = "dialing"]
        /\ UNCHANGED <<reply, semaphore, destination>>
     \/ Returning(x) /\ UNCHANGED reply
  /\ UNCHANGED <<openClientVars, stream, sessions, tombstones>>

\* The destination policy dials, without any lock.
ServerDials(x) ==
  /\ handler[x] = "dialing"
  /\ \/ /\ destination' = destination \cup {x}
        /\ handler' = [handler EXCEPT ![x] = "checking"]
        /\ UNCHANGED <<reply, semaphore>>
     \/ Refuses(x)
  /\ UNCHANGED <<openClientVars, stream, sessions, tombstones>>

\* registerSession, under the registry's mutex: tombstones count as sessions.
ServerRegisters(x) ==
  /\ handler[x] = "checking"
  /\ IF Cardinality(sessions) < ServerMax
       THEN /\ sessions' = sessions \cup {x}
            /\ handler' = [handler EXCEPT ![x] = "answering"]
            /\ UNCHANGED <<reply, semaphore, destination>>
       ELSE Refuses(x) /\ UNCHANGED sessions
  /\ UNCHANGED <<openClientVars, stream, tombstones>>

\* The deferred unregisterSession.
Unregistered(x) == sessions \ {x}

ServerAnswers(x) ==
  /\ handler[x] = "answering"
  /\ \/ /\ reply' = [reply EXCEPT ![x] = "ok"]
        /\ handler' = [handler EXCEPT ![x] = "running"]
        /\ UNCHANGED <<semaphore, destination, sessions>>
     \/ /\ Returning(x) /\ sessions' = Unregistered(x)
        /\ UNCHANGED reply
  /\ UNCHANGED <<openClientVars, stream, tombstones>>

MutServerFinishes(x) ==
  /\ handler[x] = "running"
  /\ Returning(x)
  /\ \/ UNCHANGED <<sessions, tombstones>>
     \/ sessions' = Unregistered(x) /\ UNCHANGED tombstones
  /\ UNCHANGED <<openClientVars, stream, reply>>

\* run returns: a completed flow leaves its entry to the tombstone's timer, any other
\* takes it along.
ServerFinishes(x) ==
  /\ handler[x] = "running"
  /\ Returning(x)
  /\ \/ tombstones' = tombstones \cup {x} /\ UNCHANGED sessions
     \/ sessions' = Unregistered(x) /\ UNCHANGED tombstones
  /\ UNCHANGED <<openClientVars, stream, reply>>

ServerForgets(x) ==
  /\ x \in tombstones
  /\ tombstones' = tombstones \ {x}
  /\ sessions' = Unregistered(x)
  /\ UNCHANGED <<openClientVars, stream, reply, handler, destination, semaphore>>

OpenNext ==
  /\ UNCHANGED sessionMax
  /\ \/ \E f \in OpenFlows :
          \/ DialBegins(f) \/ DialSendsOpen(f) \/ DialFails(f)
          \/ DialProceeds(f) \/ FlowFinishes(f)
     \/ \E x \in OpenSessions :
          \/ ServerAccepts(x) \/ ServerReads(x) \/ ServerDials(x) \/ ServerRegisters(x)
          \/ ServerAnswers(x) \/ ServerFinishes(x) \/ ServerForgets(x)

OpenSpec == OpenInit /\ [][OpenNext]_openVars

-----------------------------------------------------------------------------
Handled(x) == handler[x] \notin {"none", "gone"}
Took(c, pool) == {f \in OpenFlows : f[1] = c /\ slot[f] = pool}

\* Every place is held by somebody who will give it back, on every path: a session slot
\* by a flow that is opening or running and counts in the pool it came from, a pending
\* place by an open in progress, the server's by a handler, a registry entry by a handler
\* or a timer; a destination connection by a handler, even for a session the client gave
\* up; and a client never holds an open stream it has no flow for.
OpenInv ==
  /\ \A c \in OpenClients :
       /\ reservedUsed[c] = Cardinality(Took(c, "reserved")) /\ reservedUsed[c] <= Reserve
       /\ pendingUsed[c] = Cardinality({f \in OpenFlows :
                              f[1] = c /\ openDial[f] \in {"opening", "waiting"}})
  /\ sharedUsed = Cardinality({f \in OpenFlows : slot[f] = "shared"}) /\ sharedUsed <= SharedMax
  /\ \A f \in OpenFlows : slot[f] # "none" <=> openDial[f] \in {"opening", "waiting", "running"}
  /\ semaphore = Cardinality({x \in OpenSessions : Handled(x)})
  /\ \A x \in sessions : handler[x] \in {"answering", "running"} \/ x \in tombstones
  /\ \A x \in destination : handler[x] \in {"checking", "answering", "running"}
  /\ \A x \in OpenSessions : stream[x] = "open" =>
       openAttempt[x[1]] = x[2] /\ openDial[x[1]] \in {"waiting", "running"}
=============================================================================
