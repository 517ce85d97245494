------------------------------ MODULE LaneJoin ------------------------------
(***************************************************************************)
(* How a flow gets a new lane: the client races several dials and JOINs      *)
(* (queqiao/internal/pep/client.go), the server admits JOINs to the session   *)
(* in the order they arrive, under a limit, while the flow itself may end     *)
(* and leave a tombstone (server.go, mpflow.go).                             *)
(*                                                                         *)
(* One session.  Lane 0 opened it; an attempt of a race joins as the lane of  *)
(* its name, and no name is used twice.  What                                *)
(* a lane does once the client has installed it is in the other modules.      *)
(* The stop of the whole server is left out: it ends every session.          *)
(***************************************************************************)
EXTENDS Integers, FiniteSets

CONSTANTS
  Attempts,       \* bound: attempts of all races
  JoinWidth,      \* metrics.RescueAttemptSlots
  LaneLimit,      \* serverFlow.maxLanes
  MaxAged         \* bound: lanes that grow old or are suspected

ASSUME JoinConstants ==
  /\ {JoinWidth, LaneLimit} \subseteq Nat \ {0} /\ MaxAged \in Nat
  /\ IsFiniteSet(Attempts) /\ 0 \notin Attempts

VARIABLES
  racers,         \* the attempts of the latest race
  rescue,         \* manageQUICLanes: "idle", in a race, or installing its winner
  pending,        \* raceRescueAttempts: results not yet received
  over,           \* attempts whose raceCtx has ended
  gaveUp,         \* resumeRefused
  winner,         \* the lane to install, 0 for none
  seeker,         \* the goroutine of each attempt
  outcome,        \* what each attempt returned
  clientEnd,      \* the client's end of each lane's stream
  clientLanes,    \* the client flow's lanes
  clientFlow,     \* "open", "swept" by closeAll, "done" once signalled
  admit,          \* handleLaneJoinOpen of each attempt
  answer,         \* what it wrote
  serverEnd,      \* the server's lane: staged, ready or closed
  serverLanes,    \* the server flow's lanes
  aged,           \* lanes older than laneDeadPathDetection, or suspected
  serverFlow,     \* as clientFlow
  fins,           \* finSent ("own") and remoteFinSeen ("remote") of the server
  runner,         \* handleSession, around flow.run
  completed,      \* serverFlow.completed: a tombstone, its timer running
  registered      \* the session is in Server.sessions

raceVars   == <<racers, rescue, pending, over, gaveUp, winner, seeker, outcome>>
clientSide == <<clientEnd, clientLanes, clientFlow>>
handlers   == <<admit, answer>>
laneVars   == <<serverEnd, serverLanes, aged>>
sessionVars == <<serverFlow, fins, runner, completed, registered>>
joinVars   == <<raceVars, clientSide, handlers, laneVars, sessionVars>>

LaneIds    == {0} \cup Attempts
Both       == {"own", "remote"}
HasEnded(a) == a \in over
RaceIsOver  == racers \subseteq over

JoinInit ==
  /\ racers = {} /\ rescue = "idle" /\ pending = 0 /\ over = {} /\ gaveUp = FALSE /\ winner = 0
  /\ seeker = [a \in Attempts |-> "none"] /\ outcome = [a \in Attempts |-> "none"]
  /\ clientEnd = [l \in LaneIds |-> IF l = 0 THEN "open" ELSE "none"]
  /\ clientLanes = {0} /\ clientFlow = "open"
  /\ admit = [a \in Attempts |-> "none"] /\ answer = [a \in Attempts |-> "none"]
  /\ serverEnd = [l \in LaneIds |-> IF l = 0 THEN "ready" ELSE "none"]
  /\ serverLanes = {0} /\ aged = {}
  /\ serverFlow = "open" /\ fins = {} /\ runner = "running"
  /\ completed = FALSE /\ registered = TRUE

-----------------------------------------------------------------------------
(* raceRescueAttempts *)

\* The stall watchdog, or an outage of every lane, asks for another.
RoundStarts ==
  /\ rescue = "idle" /\ ~gaveUp /\ clientFlow # "done"
  /\ \E R \in SUBSET {a \in Attempts : seeker[a] = "none"} :
       /\ Cardinality(R) = JoinWidth
       /\ racers' = R
       /\ seeker' = [a \in Attempts |-> IF a \in R THEN "dialing" ELSE seeker[a]]
  /\ rescue' = "racing" /\ pending' = JoinWidth
  /\ UNCHANGED <<over, gaveUp, winner, outcome, clientSide, handlers, laneVars, sessionVars>>

\* "A rescue handshake must not outlive its flow."
RaceFollowsFlow ==
  /\ rescue = "racing" /\ clientFlow = "done" /\ ~RaceIsOver
  /\ over' = over \cup racers
  /\ UNCHANGED <<racers, rescue, pending, gaveUp, winner, seeker, outcome, clientSide, handlers,
                 laneVars, sessionVars>>

\* An attempt hands its result to the channel, which has room for all.
Returns(a, what) ==
  /\ seeker' = [seeker EXCEPT ![a] = "returned"]
  /\ outcome' = [outcome EXCEPT ![a] = what]

\* The dial succeeds and the JOIN is on its way, or it fails.
SeekerDials(a) ==
  /\ seeker[a] = "dialing"
  /\ \/ /\ seeker' = [seeker EXCEPT ![a] = "joining"]
        /\ clientEnd' = [clientEnd EXCEPT ![a] = "open"]
        /\ admit' = [admit EXCEPT ![a] = "arrived"]
        /\ UNCHANGED outcome
     \/ Returns(a, "error") /\ UNCHANGED <<clientEnd, admit>>
  /\ UNCHANGED <<racers, rescue, pending, over, gaveUp, winner, clientLanes, clientFlow, answer,
                 laneVars, sessionVars>>

\* completeLaneJoin reads the answer; a deadline, a lost stream or the end of the race,
\* which closes the stream, may come first.
SeekerReads(a) ==
  /\ seeker[a] = "joining"
  /\ \/ /\ answer[a] \in {"ok", "final"} /\ ~HasEnded(a)
        /\ seeker' = [seeker EXCEPT ![a] = "opened"]
        /\ UNCHANGED <<outcome, clientEnd>>
     \/ /\ \/ answer[a] = "capacity" /\ Returns(a, "capacity")
           \/ answer[a] = "unknown" /\ Returns(a, "rejected")
           \/ Returns(a, "error")
        /\ clientEnd' = [clientEnd EXCEPT ![a] = "closed"]
  /\ UNCHANGED <<racers, rescue, pending, over, gaveUp, winner, clientLanes, clientFlow, handlers,
                 laneVars, sessionVars>>

\* "Finished after the race was decided: close it here".
SeekerReturns(a) ==
  /\ seeker[a] = "opened"
  /\ IF HasEnded(a)
       THEN Returns(a, "error") /\ clientEnd' = [clientEnd EXCEPT ![a] = "closed"]
       ELSE Returns(a, "lane") /\ UNCHANGED clientEnd
  /\ UNCHANGED <<racers, rescue, pending, over, gaveUp, winner, clientLanes, clientFlow, handlers,
                 laneVars, sessionVars>>

Received(a) ==
  /\ seeker' = [seeker EXCEPT ![a] = "taken"]
  /\ outcome' = [outcome EXCEPT ![a] = "none"]

\* The race receives a result: a lane or a permanent refusal decides it.
RaceTakes(a) ==
  /\ rescue = "racing" /\ a \in racers /\ seeker[a] = "returned"
  /\ Received(a)
  /\ pending' = pending - 1
  /\ \/ /\ outcome[a] = "lane"
        /\ rescue' = "installing" /\ winner' = a /\ over' = over \cup racers
        /\ UNCHANGED gaveUp
     \/ /\ outcome[a] = "rejected"
        /\ rescue' = "idle" /\ gaveUp' = TRUE /\ over' = over \cup racers
        /\ UNCHANGED winner
     \/ /\ outcome[a] \in {"capacity", "error"}
        /\ rescue' = IF pending = 1 THEN "idle" ELSE "racing"
        /\ over' = IF pending = 1 THEN over \cup racers ELSE over
        /\ UNCHANGED <<gaveUp, winner>>
  /\ UNCHANGED <<racers, clientSide, handlers, laneVars, sessionVars>>

RaceAbandoned ==
  /\ rescue = "racing" /\ RaceIsOver
  /\ rescue' = "idle"
  /\ UNCHANGED <<racers, pending, over, gaveUp, winner, seeker, outcome, clientSide, handlers,
                 laneVars, sessionVars>>

\* Variants named Mut... are faulty readings of the definition that follows them;
\* no specification uses them, a property must fail when one replaces it.
MutLoser(a) == clientEnd

\* A loser's lane is closed by the drain of its race.
Loser(a) == IF outcome[a] = "lane" THEN [clientEnd EXCEPT ![a] = "closed"] ELSE clientEnd

RaceDrains(a) ==
  /\ seeker[a] = "returned" /\ (a \notin racers \/ rescue # "racing")
  /\ Received(a)
  /\ clientEnd' = Loser(a)
  /\ UNCHANGED <<racers, rescue, pending, over, gaveUp, winner, clientLanes, clientFlow,
                 handlers, laneVars, sessionVars>>

\* installRecoveryLane, with addLane.
RaceInstalls ==
  /\ rescue = "installing"
  /\ IF clientFlow = "done"
       THEN clientEnd' = [clientEnd EXCEPT ![winner] = "closed"] /\ UNCHANGED clientLanes
       ELSE clientLanes' = clientLanes \cup {winner} /\ UNCHANGED clientEnd
  /\ rescue' = "idle" /\ winner' = 0
  /\ UNCHANGED <<racers, pending, over, gaveUp, seeker, outcome, clientFlow, handlers, laneVars,
                 sessionVars>>

-----------------------------------------------------------------------------
(* handleLaneJoinOpen *)

Answers(a, what) == answer' = [answer EXCEPT ![a] = what]
Leaves(a)        == admit' = [admit EXCEPT ![a] = "left"]

JoinLooksUp(a) ==
  /\ admit[a] = "arrived"
  /\ \/ registered /\ admit' = [admit EXCEPT ![a] = "found"] /\ UNCHANGED answer
     \/ ~registered /\ Answers(a, "unknown") /\ Leaves(a)
  /\ UNCHANGED <<raceVars, clientSide, laneVars, sessionVars>>

\* A completed session replays the final acknowledgement.
JoinChecks(a) ==
  /\ admit[a] = "found"
  /\ \/ completed /\ Answers(a, "final") /\ Leaves(a)
     \/ ~completed /\ admit' = [admit EXCEPT ![a] = "admitting"] /\ UNCHANGED answer
  /\ UNCHANGED <<raceVars, clientSide, laneVars, sessionVars>>

OpenLanes     == {l \in serverLanes : serverEnd[l] # "closed"}
\* Closed at the server's end and gone from its table.
Dropped(l)    == [serverEnd EXCEPT ![l] = "closed"]

MutCounted == {l \in OpenLanes : serverEnd[l] = "ready"}

\* laneCount: a staged lane counts.
Counted == OpenLanes

MutEvictable == OpenLanes

\* retireOldestLane takes no lane whose JOIN may still be racing.  Which of them is the
\* oldest of the right role is left open.
Evictable == OpenLanes \cap aged

MutRefusal == "unknown"

\* errLaneLimitReached is a transient answer.
Refusal == "capacity"

\* serverFlow.addLane, under its mutex: at the limit a lane is retired first; only then
\* does the flow look whether it has ended.
Retirable ==
  IF Cardinality(Counted) < LaneLimit \/ Evictable = {} THEN {{}} ELSE {{v} : v \in Evictable}

AddLane(a, gone) ==
  LET room  == Cardinality(Counted \ gone) < LaneLimit
      added == room /\ serverFlow # "done"
      ends  == [l \in LaneIds |-> IF l \in gone THEN "closed" ELSE serverEnd[l]]
  IN  /\ serverLanes' = (serverLanes \ gone) \cup (IF added THEN {a} ELSE {})
      /\ serverEnd' = IF added THEN [ends EXCEPT ![a] = "staged"] ELSE ends
      /\ admit' = [admit EXCEPT ![a] = IF added THEN "answering" ELSE "left"]
      /\ answer' = [answer EXCEPT ![a] = IF added THEN @
                                         ELSE IF room THEN "unknown" ELSE Refusal]

JoinAdmits(a) ==
  /\ admit[a] = "admitting"
  /\ \E gone \in Retirable : AddLane(a, gone)
  /\ UNCHANGED <<raceVars, clientSide, aged, sessionVars>>

MutWithdrawn(a) == /\ UNCHANGED <<serverLanes, serverEnd>>

\* removeLane withdraws a lane whose admission failed.
Withdrawn(a) ==
  /\ serverLanes' = serverLanes \ {a}
  /\ serverEnd' = IF a \in serverLanes THEN Dropped(a) ELSE serverEnd

\* OPEN_OK leaves, or its write fails or takes longer than laneJoinAdmissionTimeout.
JoinAnswers(a) ==
  /\ admit[a] = "answering"
  /\ \/ /\ serverEnd[a] = "staged"
        /\ Answers(a, "ok") /\ admit' = [admit EXCEPT ![a] = "written"]
        /\ UNCHANGED <<serverLanes, serverEnd>>
     \/ Withdrawn(a) /\ Leaves(a) /\ UNCHANGED answer
  /\ UNCHANGED <<raceVars, clientSide, aged, sessionVars>>

\* activateLane
JoinActivates(a) ==
  /\ admit[a] = "written"
  /\ \/ /\ a \in serverLanes /\ serverEnd[a] = "staged" /\ serverFlow # "done"
        /\ serverEnd' = [serverEnd EXCEPT ![a] = "ready"]
        /\ admit' = [admit EXCEPT ![a] = "attached"]
        /\ UNCHANGED serverLanes
     \/ /\ ~(a \in serverLanes /\ serverEnd[a] = "staged" /\ serverFlow # "done")
        /\ Withdrawn(a) /\ Leaves(a)
  /\ UNCHANGED <<raceVars, clientSide, answer, aged, sessionVars>>

\* The lane's stream or its flow has ended: the handler closes the connection.
JoinDetaches(a) ==
  /\ admit[a] = "attached" /\ (serverEnd[a] = "closed" \/ serverFlow = "done")
  /\ Leaves(a) /\ serverEnd' = Dropped(a)
  /\ UNCHANGED <<raceVars, clientSide, answer, serverLanes, aged, sessionVars>>

-----------------------------------------------------------------------------
(* The lanes and the ends of the flow *)

\* closeFailedLane: its stream broke, or the client closed its end.
ServerLaneFails(l) ==
  /\ serverEnd[l] = "ready"
  /\ serverEnd' = Dropped(l)
  /\ UNCHANGED <<raceVars, clientSide, handlers, serverLanes, aged, sessionVars>>

LaneAges(l) ==
  /\ l \in OpenLanes \ aged /\ Cardinality(aged) < MaxAged
  /\ aged' = aged \cup {l}
  /\ UNCHANGED <<raceVars, clientSide, handlers, serverEnd, serverLanes, sessionVars>>

\* closeAll closes the lanes it finds, and only then signals the end.
ClientSweeps ==
  /\ clientFlow = "open" /\ clientFlow' = "swept"
  /\ clientEnd' = [l \in LaneIds |-> IF l \in clientLanes THEN "closed" ELSE clientEnd[l]]
  /\ UNCHANGED <<raceVars, clientLanes, handlers, laneVars, sessionVars>>

ClientSignals ==
  /\ clientFlow = "swept" /\ clientFlow' = "done"
  /\ UNCHANGED <<raceVars, clientEnd, clientLanes, handlers, laneVars, sessionVars>>

ServerSweeps ==
  /\ serverFlow = "open" /\ serverFlow' = "swept"
  /\ serverEnd' = [l \in LaneIds |-> IF l \in serverLanes THEN "closed" ELSE serverEnd[l]]
  /\ UNCHANGED <<raceVars, clientSide, handlers, serverLanes, aged, fins, runner, completed,
                 registered>>

ServerSignals ==
  /\ serverFlow = "swept" /\ serverFlow' = "done"
  /\ UNCHANGED <<raceVars, clientSide, handlers, laneVars, fins, runner, completed, registered>>

\* The server's direction, or the client's, reaches its FIN.
ServerFIN ==
  /\ runner = "running" /\ \E f \in Both \ fins : fins' = fins \cup {f}
  /\ UNCHANGED <<raceVars, clientSide, handlers, laneVars, serverFlow, runner, completed, registered>>

\* watchFlowCompletion sees both FINs at a tick; the closeAll it calls is ServerSweeps.
WatcherRetains ==
  /\ fins = Both /\ ~completed /\ completed' = TRUE
  /\ UNCHANGED <<raceVars, clientSide, handlers, laneVars, serverFlow, fins, runner, registered>>

MutComplete == FALSE
MutHalf     == "own" \in fins

\* An error after both FINs is a late EOF; after the client's alone it may be the
\* destination's own close, which is complete, or another error.
Complete == fins = Both

\* flow.run returned and handleSession keeps a tombstone of a complete flow and drops any
\* other.
RunSettles ==
  /\ runner = "running" /\ serverFlow = "done" /\ runner' = "settled"
  /\ \/ (Complete \/ "remote" \in fins) /\ completed' = TRUE /\ UNCHANGED registered
     \/ ~Complete /\ registered' = FALSE /\ UNCHANGED completed
  /\ UNCHANGED <<raceVars, clientSide, handlers, laneVars, serverFlow, fins>>

\* completedSessionLinger is over.
TombstoneExpires ==
  /\ completed /\ registered /\ runner = "settled"
  /\ registered' = FALSE
  /\ UNCHANGED <<raceVars, clientSide, handlers, laneVars, serverFlow, fins, runner, completed>>

-----------------------------------------------------------------------------

\* What goes on without a new request, failure or the passing of long times.
JoinWork ==
  \/ RaceFollowsFlow \/ RaceAbandoned \/ RaceInstalls
  \/ \E a \in Attempts : SeekerDials(a) \/ SeekerReads(a) \/ SeekerReturns(a) \/ RaceTakes(a)
                         \/ RaceDrains(a) \/ JoinLooksUp(a) \/ JoinChecks(a) \/ JoinAdmits(a)
                         \/ JoinAnswers(a) \/ JoinActivates(a) \/ JoinDetaches(a)
  \/ ClientSignals \/ ServerSignals \/ RunSettles

\* Both flows are over, and so is every handler and race.
JoinOver ==
  /\ clientFlow = "done" /\ runner = "settled" /\ rescue = "idle"
  /\ \A a \in Attempts : seeker[a] \in {"none", "taken"} /\ admit[a] \in {"none", "left"}
  /\ UNCHANGED joinVars

JoinNext ==
  \/ JoinWork \/ JoinOver
  \/ RoundStarts \/ ClientSweeps \/ ServerSweeps \/ ServerFIN \/ WatcherRetains \/ TombstoneExpires
  \/ \E l \in LaneIds : ServerLaneFails(l) \/ LaneAges(l)

JoinSpec == JoinInit /\ [][JoinNext]_joinVars

-----------------------------------------------------------------------------
(* Properties *)

\* "Losing lanes are closed wherever they surface": an open stream is the flow's, the
\* race's winner, or still in the hands of the attempt or of the drain.
LosersAreClosed ==
  \A a \in Attempts : clientEnd[a] = "open" =>
    \/ a \in clientLanes \/ a = winner
    \/ seeker[a] \in {"joining", "opened"} \/ (seeker[a] = "returned" /\ outcome[a] = "lane")

\* A staged lane has a handler that will activate or withdraw it.
StagedHaveHandlers ==
  \A a \in Attempts : a \in serverLanes /\ serverEnd[a] = "staged" => admit[a] \in {"answering", "written"}

\* "deleting the entry keeps the cap a real resource bound": admitted lanes, those whose
\* handshake is in flight included, never exceed the limit, whatever arrives at once.
\* And no staged lane is left "leaking the slot for the life of the flow".
SlotsAreKept ==
  /\ Cardinality(OpenLanes) <= LaneLimit
  /\ StagedHaveHandlers

\* What joining costs is given back on both sides: the client's streams
\* (raceRescueAttempts, client.go:1994) and the server's slots (addLane, server.go:153).
CostsInv == LosersAreClosed /\ SlotsAreKept

\* A final word to a JOIN is true: a refusal that makes the client give the flow up is
\* "permanent session state", not a server that was full for a while; and a replayed
\* final acknowledgement is of a FIN the server has seen, or a client would take a
\* truncated transfer for a complete one.
FinalWordIsTrue ==
  /\ gaveUp => serverFlow = "done"
  /\ \A a \in Attempts : answer[a] = "final" => "remote" \in fins

\* A flow "both direction FIN sequences" of which were seen leaves a tombstone, however
\* its run returns.
TombstoneStands == fins = Both /\ runner = "settled" => completed

\* A JOIN that comes late hears the truth, and finds someone to tell it
\* (handleSession and retainCompletedSession, server.go:534).
FinalInv == FinalWordIsTrue /\ TombstoneStands

\* A race for a lane leaves nothing behind and its answers are true (client.go:1994, server.go:534).
JoinInv == CostsInv /\ FinalInv

RaceTypeOK ==
  /\ racers \subseteq Attempts /\ over \subseteq Attempts /\ pending \in Int
  /\ rescue \in {"idle", "racing", "installing"} /\ winner \in LaneIds /\ gaveUp \in BOOLEAN
  /\ seeker \in [Attempts -> {"none", "dialing", "joining", "opened", "returned", "taken"}]
  /\ outcome \in [Attempts -> {"none", "error", "capacity", "rejected", "lane"}]

ClientTypeOK ==
  /\ clientEnd \in [LaneIds -> {"none", "open", "closed"}] /\ clientLanes \subseteq LaneIds
  /\ clientFlow \in {"open", "swept", "done"}

HandlersTypeOK ==
  /\ admit \in [Attempts -> {"none", "arrived", "found", "admitting", "answering", "written",
                             "attached", "left"}]
  /\ answer \in [Attempts -> {"none", "ok", "final", "unknown", "capacity"}]

ServerTypeOK ==
  /\ serverEnd \in [LaneIds -> {"none", "staged", "ready", "closed"}]
  /\ serverLanes \subseteq LaneIds /\ aged \subseteq LaneIds
  /\ serverFlow \in {"open", "swept", "done"} /\ fins \subseteq Both
  /\ runner \in {"running", "settled"} /\ completed \in BOOLEAN /\ registered \in BOOLEAN

JoinTypeOK == RaceTypeOK /\ ClientTypeOK /\ HandlersTypeOK /\ ServerTypeOK

\* Nobody holds a winner but the step that installs it.
OneWinner == winner # 0 => rescue = "installing"

\* The server hears of an attempt when its dial has succeeded.
JoinsFollowDials ==
  \A a \in Attempts : seeker[a] \in {"none", "dialing"} => admit[a] = "none"

\* A session leaves the table, and a JOIN is refused for good, when the flow is over; and a
\* tombstone is of a flow whose client's FIN was seen.
WordsHaveGrounds ==
  /\ ~registered \/ runner = "settled" => serverFlow = "done"
  /\ \A a \in Attempts : answer[a] = "unknown" \/ outcome[a] = "rejected" => serverFlow = "done"
  /\ completed => "remote" \in fins

\* The inductive invariant.
JoinIInv ==
  /\ JoinTypeOK
  /\ LosersAreClosed /\ OneWinner
  /\ SlotsAreKept /\ JoinsFollowDials
  /\ FinalWordIsTrue /\ TombstoneStands /\ WordsHaveGrounds

\* "What keeps a late losing JOIN from evicting the winner's server side ... is the
\* server": another attempt's JOIN never closes a lane before its time.
YoungLanesStay ==
  [][\A a, b \in Attempts :
       a # b /\ admit[b] = "admitting" /\ admit'[b] # "admitting"
       /\ a \in OpenLanes /\ a \notin OpenLanes' => a \in aged]_joinVars

\* "Keep a bounded tombstone long enough for a client that lost the final cumulative ACK
\* to authenticate a replacement lane": no JOIN to a session that is complete and still
\* registered is refused.
CompletedIsAnswered ==
  \A a \in Attempts : answer[a] = "unknown" => ~(fins = Both /\ registered)
=============================================================================
