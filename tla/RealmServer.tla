---------------------------- MODULE RealmServer ----------------------------
(***************************************************************************)
(* A Hysteria2 server's registration with the realm control                *)
(* (hysteria2/realm/server.go, control.go): the run loop's heartbeats and  *)
(* resets, the shared discovery of the server's addresses, the control's   *)
(* sessions, answers that are lost, and Close.  An address list is the     *)
(* number of the network it was discovered in.                             *)
(***************************************************************************)
EXTENDS Naturals, FiniteSets

CONSTANTS Networks,   \* bound: networks the machine passes through
          Tickets     \* bound: registrations

(* Networks and sessions are counted.                                      *)
ASSUME RealmConstants == Networks \in Nat /\ Tickets \in Nat

VARIABLES network, resetSignal,
          cache,      \* [of, fresh]: addresses and addressesAt
          flight,     \* connectFlight: the network it began in, 0 for none
          runner,     \* the run loop: [at, what, id, bound]
          event,      \* a punch event's goroutine: none, discovers
          ticket,     \* sessionID, 0 for none
          published,  \* lastPublishedAddresses
          control,    \* session -> its addresses, 0 for none (the control's side)
          issued,     \* sessions the control has given out
          lost,       \* heartbeats whose answer was lost; registrations likewise
          closing     \* Close: [at, id], at is no, deregisters or done

realmVars == <<network, resetSignal, cache, flight, runner, event, ticket, published, control, issued,
               lost, closing>>

RunnerRests == [at |-> "waits", what |-> 0, id |-> 0, bound |-> 0]

RealmInit ==
  /\ network = 1 /\ resetSignal = TRUE /\ cache = [of |-> 0, fresh |-> FALSE] /\ flight = 0
  /\ runner = RunnerRests /\ event = "none" /\ ticket = 0 /\ published = 0
  /\ control = [t \in 1..Tickets |-> 0] /\ issued = 0
  /\ lost = [beats |-> FALSE, tickets |-> {}] /\ closing = [at |-> "no", id |-> 0]

Cancelled == closing.at # "no"
Live(t) == t # 0 /\ control[t] # 0

(* The environment: another network, of which the service is told.         *)
NetworkChanges ==
  /\ network < Networks /\ network' = network + 1 /\ resetSignal' = TRUE
  /\ UNCHANGED <<cache, flight, runner, event, ticket, published, control, issued, lost, closing>>

CacheAges ==
  /\ cache.fresh /\ cache' = [cache EXCEPT !.fresh = FALSE]
  /\ UNCHANGED <<network, resetSignal, flight, runner, event, ticket, published, control, issued, lost, closing>>

(* connectAddresses shares one discovery among those who ask meanwhile.    *)
Flying == IF flight = 0 THEN network ELSE flight

EventArrives ==
  /\ event = "none" /\ Live(ticket) /\ ~Cancelled /\ ~cache.fresh
  /\ event' = "discovers" /\ flight' = Flying
  /\ UNCHANGED <<network, resetSignal, cache, runner, ticket, published, control, issued, lost, closing>>

(* handleReset: what is cached is old; then connectAddresses.              *)
RunResets ==
  /\ runner = RunnerRests /\ resetSignal /\ ~Cancelled /\ resetSignal' = FALSE
  /\ cache' = [cache EXCEPT !.fresh = FALSE]
  /\ runner' = [RunnerRests EXCEPT !.at = "looks", !.bound = network]
  /\ UNCHANGED <<network, flight, event, ticket, published, control, issued, lost, closing>>

RunLooks ==
  /\ runner.at = "looks"
  /\ runner' = [runner EXCEPT !.at = IF cache.fresh THEN "found" ELSE "discovers",
                              !.bound = IF cache.fresh \/ flight # 0 THEN 0 ELSE @]
  /\ flight' = IF cache.fresh THEN flight ELSE Flying
  /\ UNCHANGED <<network, resetSignal, cache, event, ticket, published, control, issued, lost, closing>>

(* The discovery ends: in some network since it began, or with an error,   *)
(* which sends the run loop back and the event to what is cached.          *)
FlightEnds ==
  /\ flight # 0 /\ flight' = 0 /\ event' = "none"
  /\ \/ /\ \E n \in flight..network : cache' = [of |-> n, fresh |-> TRUE]
        /\ runner' = IF runner.at = "discovers" THEN [runner EXCEPT !.at = "found"] ELSE runner
     \/ /\ runner' = IF runner.at = "discovers" THEN RunnerRests ELSE runner
        /\ UNCHANGED cache
  /\ UNCHANGED <<network, resetSignal, ticket, published, control, issued, lost, closing>>

(* reRegister and handleHeartbeat fix what they will send; only a change   *)
(* is published.                                                           *)
Registers == [at |-> "registers", what |-> cache.of, id |-> 0, bound |-> 0]
Unpublished == IF cache.of = published THEN 0 ELSE cache.of
Beats == [at |-> "beats", what |-> Unpublished, id |-> ticket, bound |-> 0]

(* A request of a cancelled context is not sent.                           *)
Sent(request) == IF Cancelled THEN RunnerRests ELSE request

RunFound ==
  /\ runner.at = "found" /\ runner' = Sent(IF ticket = 0 THEN Registers ELSE Beats)
  /\ UNCHANGED <<network, resetSignal, cache, flight, event, ticket, published, control, issued, lost, closing>>

HeartbeatDue ==
  /\ runner = RunnerRests /\ ~Cancelled /\ (ticket # 0 \/ cache.of # 0)
  /\ runner' = IF ticket = 0 THEN Registers ELSE Beats
  /\ UNCHANGED <<network, resetSignal, cache, flight, event, ticket, published, control, issued, lost, closing>>

(* The control's side of a registration, and of a heartbeat.               *)
ControlRegisters ==
  /\ runner.at = "registers" /\ issued < Tickets /\ issued' = issued + 1
  /\ control' = [control EXCEPT ![issued + 1] = runner.what]
  /\ runner' = [runner EXCEPT !.at = "registered", !.id = issued + 1]
  /\ UNCHANGED <<network, resetSignal, cache, flight, event, ticket, published, lost, closing>>

ControlHears ==
  /\ runner.at = "beats"
  /\ runner' = [runner EXCEPT !.at = IF Live(runner.id) THEN "beaten" ELSE "unknown"]
  /\ control' = IF Live(runner.id) /\ runner.what # 0 THEN [control EXCEPT ![runner.id] = runner.what] ELSE control
  /\ UNCHANGED <<network, resetSignal, cache, flight, event, ticket, published, issued, lost, closing>>

\* Faulty, unused: the answer to a heartbeat or a registration is not recorded.
MutRecorded(what) == published

(* The answers; what was sent is published.  401 and 404 register anew.    *)
Recorded(what) == IF what = 0 THEN published ELSE what

Registered ==
  /\ runner.at = "registered"
  /\ ticket' = runner.id /\ published' = Recorded(runner.what) /\ runner' = RunnerRests
  /\ UNCHANGED <<network, resetSignal, cache, flight, event, control, issued, lost, closing>>

Beaten ==
  /\ runner.at = "beaten"
  /\ published' = Recorded(runner.what)
  /\ runner' = RunnerRests
  /\ UNCHANGED <<network, resetSignal, cache, flight, event, ticket, control, issued, lost, closing>>

SessionInvalid ==
  /\ runner.at = "unknown" /\ runner' = Sent(Registers)
  /\ UNCHANGED <<network, resetSignal, cache, flight, event, ticket, published, control, issued, lost, closing>>

(* No answer, or another error: logged and left.                           *)
AnswerLost ==
  /\ runner.at \in {"registers", "beats", "registered", "beaten", "unknown"}
  /\ runner' = RunnerRests
  /\ lost' = CASE runner.at = "registered" -> [lost EXCEPT !.tickets = @ \cup {runner.id}]
               [] runner.at = "beaten" /\ runner.what # 0 -> [lost EXCEPT !.beats = TRUE]
               [] OTHER -> lost
  /\ UNCHANGED <<network, resetSignal, cache, flight, event, ticket, published, control, issued, closing>>

(* The environment: the control forgets a session.                         *)
ControlForgets(t) ==
  /\ Live(t) /\ control' = [control EXCEPT ![t] = 0]
  /\ UNCHANGED <<network, resetSignal, cache, flight, runner, event, ticket, published, issued, lost, closing>>

(* Close: the run loop is cancelled, and the session it has by then is     *)
(* deregistered; the loop is not waited for.                               *)
Closes ==
  /\ ~Cancelled /\ closing' = [at |-> IF ticket = 0 THEN "done" ELSE "deregisters", id |-> ticket]
  /\ lost' = CASE runner.at = "registers" -> [lost EXCEPT !.tickets = @ \cup {issued + 1}]
               [] runner.at = "registered" -> [lost EXCEPT !.tickets = @ \cup {runner.id}]
               [] OTHER -> lost
  /\ UNCHANGED <<network, resetSignal, cache, flight, runner, event, ticket, published, control, issued>>

Deregistered ==
  /\ closing.at = "deregisters" /\ closing' = [closing EXCEPT !.at = "done"]
  /\ \/ control' = [control EXCEPT ![closing.id] = 0] /\ UNCHANGED lost
     \/ lost' = [lost EXCEPT !.tickets = @ \cup {closing.id}] /\ UNCHANGED control
  /\ UNCHANGED <<network, resetSignal, cache, flight, runner, event, ticket, published, issued>>

RealmNext ==
  \/ NetworkChanges \/ CacheAges \/ EventArrives \/ RunResets \/ RunLooks \/ FlightEnds \/ RunFound
  \/ HeartbeatDue \/ ControlRegisters \/ ControlHears \/ Registered \/ Beaten \/ SessionInvalid
  \/ AnswerLost \/ Closes \/ Deregistered \/ \E t \in 1..Tickets : ControlForgets(t)

RealmSpec == RealmInit /\ [][RealmNext]_realmVars

(***************************************************************************)
(* Whatever is lost, forgotten or closed: a session that lives at the      *)
(* control is the server's, or one whose registration was under way at     *)
(* Close or whose answer never came; while no heartbeat's answer is lost,  *)
(* the control has the addresses the server takes for published, whenever  *)
(* no request is under way; a reset ends with addresses discovered since,  *)
(* unless it shared a discovery that had begun before; and Close leaves    *)
(* nothing behind but those.                                               *)
(***************************************************************************)
RealmInv ==
  /\ \A t \in 1..Tickets : Live(t) => t \in {ticket, runner.id} \cup lost.tickets
  /\ Live(ticket) /\ ~lost.beats /\ runner.at \in {"waits", "looks", "discovers", "found"} =>
       control[ticket] = published
  /\ runner.at = "found" /\ runner.bound # 0 => cache.of >= runner.bound
  /\ closing.at = "done" => \A t \in 1..Tickets : Live(t) => t \in lost.tickets

(***************************************************************************)
(* The addresses of a reset (Reset: "network-change notifications ...      *)
(* collapse into one re-discovery") are of the network it was told of.  A  *)
(* discovery begun for an earlier punch event is taken for it.             *)
(***************************************************************************)
ResetRediscovers == runner.at = "found" /\ ~resetSignal /\ flight = 0 => cache.of = network
=============================================================================
