------------------------------ MODULE LaneLife ------------------------------
(***************************************************************************)
(* The lanes of one flow over its life (pep/mpflow.go): how they start, are    *)
(* suspected and fail, how the flow's writers wait for a replacement of the     *)
(* last one, and who replaces it: at the client the goroutine manageQUICLanes    *)
(* with its rescue rounds and its isolation join (pep/client.go), at the server   *)
(* the JOINs of the peer (pep/server.go).  The race within a rescue round and the  *)
(* server's admission of a JOIN are LaneJoin's; here a round has an outcome.        *)
(*                                                                         *)
(* A unit of time is a fraction of the grace laneReplacementWait, and long       *)
(* against the 25 ms and 500 ms tickers: whoever looks at a ticker has looked     *)
(* before time moves on.                                                        *)
(***************************************************************************)
EXTENDS Integers, FiniteSets

CONSTANTS
  LifeLanes,       \* lanes a flow may get after its first, lane 0
  LaneWaiters,     \* goroutines of the flow that may wait for a lane
  Grace,           \* laneReplacementWait, in units of time
  LifeClock,       \* bound on time
  RecoveryMax      \* maxLaneRecoveryAttempts

ASSUME LifeAssumption ==
  /\ {Grace, LifeClock, RecoveryMax} \subseteq Nat /\ Grace > 0 /\ RecoveryMax > 0
  /\ 0 \notin LifeLanes

AllLanes == {0} \cup LifeLanes

VARIABLES
  endpoint,        \* whose flow it is: client or server
  laneIs,          \* lane -> unused, dialing, parked, staged, ready, failed or gone
  laneOpen,        \* lanes whose stream this endpoint has not closed
  suspected,       \* healthy lanes the stall watchdog suspects
  ended,           \* closeAll has run, done is closed
  waiting,         \* waiter -> away, looking, asleep, or why it gave up
  until,           \* waiter -> when the timer of its wait fires, 0 for no wait
  deadline,        \* replacementDeadline, 0 for none
  lifeClock,
  lastSeen,        \* when a lane last was healthy as time moved on
  resumeRefused, abandoned,
  manager,         \* manageQUICLanes: idle, stall or tick (in a rescue round), gone
  recoveries,      \* its recoveryAttempts
  capacityRefusals,
  isolating,       \* its joinPending and isolated: no, pending, yes
  channelled       \* the isolation join's result in the channel joins: none, error or a lane

lifeVars == <<endpoint, laneIs, laneOpen, suspected, ended, waiting, until, deadline,
              lifeClock, lastSeen, resumeRefused, abandoned, manager, recoveries,
              capacityRefusals, isolating, channelled>>

laneState    == <<laneIs, laneOpen, suspected>>
waitState    == <<waiting, until, deadline>>
timeState    == <<lifeClock, lastSeen>>
managerState == <<manager, recoveries, capacityRefusals, isolating, channelled>>
verdicts     == <<resumeRefused, abandoned>>

Healthy == {l \in AllLanes : laneIs[l] = "ready"}
GaveUp  == {"timeout", "refused", "abandoned"}

LifeInit ==
  /\ endpoint \in {"client", "server"}
  /\ laneIs = [l \in AllLanes |-> IF l = 0 THEN "ready" ELSE "unused"]
  /\ laneOpen = {0} /\ suspected = {} /\ ended = FALSE
  /\ waiting = [w \in LaneWaiters |-> "away"] /\ until = [w \in LaneWaiters |-> 0]
  /\ deadline = 0
  /\ lifeClock = 1 /\ lastSeen = 1
  /\ resumeRefused = FALSE /\ abandoned = FALSE
  /\ manager = IF endpoint = "client" THEN "idle" ELSE "gone"
  /\ recoveries = 0 /\ capacityRefusals = 0
  /\ isolating = "no" /\ channelled = "none"

-----------------------------------------------------------------------------
\* Lanes.  startLane: the lane carries the flow from now on, and the outage is over.
Started(l) ==
  /\ laneIs' = [laneIs EXCEPT ![l] = "ready"]
  /\ deadline' = 0

\* addLane refuses a flow that is done, and its caller closes the lane.
Installed(l) ==
  IF ended
    THEN /\ laneIs' = [laneIs EXCEPT ![l] = "gone"] /\ laneOpen' = laneOpen \ {l}
         /\ UNCHANGED deadline
    ELSE Started(l) /\ laneOpen' = laneOpen \cup {l}

\* failLane, by the lane's reader or by whoever writes to it; after the end of the
\* flow the peer's end of the stream makes every reader fail.
LaneFails(l) ==
  /\ laneIs[l] = "ready"
  /\ laneIs' = [laneIs EXCEPT ![l] = "failed"]
  /\ laneOpen' = laneOpen \ {l} /\ suspected' = suspected \ {l}
  /\ UNCHANGED <<endpoint, ended, waitState, timeState, verdicts, managerState>>

\* closeAll: every lane the flow has is closed, then done.
Closes == ended' = TRUE /\ laneOpen' = {l \in laneOpen : laneIs[l] \notin {"ready", "staged"}}

\* The flow completes, is aborted, or reaches its idle or life limit.
FlowEnds ==
  /\ ~ended /\ Closes
  /\ UNCHANGED <<endpoint, laneIs, suspected, waitState, timeState, verdicts, managerState>>

\* dataLane: the first lane, or, when the flow has a lane of its own beside one that others
\* share, that one; which of them it is, is left open.
FirstOf(lanes) == CHOOSE l \in lanes : \A k \in lanes : l <= k
DataLanes(lanes) ==
  {FirstOf(lanes)} \cup {l \in lanes : isolating = "yes" \/ endpoint = "server"}

\* suspectDataLanes
Demotes ==
  /\ Healthy # {}
  /\ \E l \in DataLanes(Healthy) : suspected' = suspected \cup {l}

\* The stall watchdog.  Nothing was acknowledged for a threshold: the flow ends if no
\* replacement can come (or the progress timeout, no shorter than the grace, is over:
\* FlowEnds); otherwise the lane data takes is suspected.
StallLooks ==
  /\ ~ended
  /\ IF resumeRefused \/ abandoned
       THEN Closes /\ UNCHANGED suspected
       ELSE Demotes /\ UNCHANGED <<laneOpen, ended>>
  /\ UNCHANGED <<endpoint, laneIs, waitState, timeState, verdicts, managerState>>

\* An acknowledgement that moves the sender's record on arrives on a suspected lane.
AckClears(l) ==
  /\ l \in suspected \cap laneOpen
  /\ suspected' = suspected \ {l}
  /\ UNCHANGED <<endpoint, laneIs, laneOpen, ended, waitState, timeState, verdicts,
                 managerState>>

-----------------------------------------------------------------------------
\* endReplacementOutage, by whoever sees a healthy lane.
MutOutageOver == deadline
OutageOver == IF Healthy # {} THEN 0 ELSE deadline

\* What waitForHealthyLane finds before it waits.
FirstLook == IF resumeRefused THEN "refused" ELSE IF abandoned THEN "abandoned" ELSE "looking"

\* Waiting for a lane.  A writer whose lane is missing or refused the frame comes here, and
\* finds one, or learns that none will come ...
WaitBegins(w) ==
  /\ waiting[w] = "away" /\ ~ended
  /\ IF Healthy # {} THEN /\ deadline' = OutageOver /\ UNCHANGED waiting
     ELSE /\ waiting' = [waiting EXCEPT ![w] = FirstLook]
          /\ UNCHANGED deadline
  /\ UNCHANGED <<endpoint, laneState, ended, until, timeState, verdicts, managerState>>

\* ... and then, perhaps after a lane has come, replacementBudget opens an outage or
\* joins the one there is; one that ended long ago is no outage.
Residue == deadline # 0 /\ deadline - lifeClock <= -Grace

WaitBudget(w) ==
  /\ waiting[w] = "looking"
  /\ IF deadline # 0 /\ ~Residue
       THEN /\ IF deadline > lifeClock
                 THEN /\ waiting' = [waiting EXCEPT ![w] = "asleep"]
                      /\ until' = [until EXCEPT ![w] = deadline]
                 ELSE waiting' = [waiting EXCEPT ![w] = "timeout"] /\ UNCHANGED until
            /\ UNCHANGED deadline
       ELSE /\ deadline' = lifeClock + Grace
            /\ waiting' = [waiting EXCEPT ![w] = "asleep"]
            /\ until' = [until EXCEPT ![w] = lifeClock + Grace]
  /\ UNCHANGED <<endpoint, laneState, ended, timeState, verdicts, managerState>>

\* The ticker of the wait.
Noticed == Healthy # {} \/ resumeRefused \/ abandoned

WaitTicks(w) ==
  /\ waiting[w] = "asleep" /\ Noticed
  /\ waiting' = [waiting EXCEPT ![w] = IF Healthy # {} THEN "away"
                                       ELSE IF resumeRefused THEN "refused" ELSE "abandoned"]
  /\ deadline' = OutageOver
  /\ until' = [until EXCEPT ![w] = 0]
  /\ UNCHANGED <<endpoint, laneState, ended, timeState, verdicts, managerState>>

\* Its timer.
WaitExpires(w) ==
  /\ waiting[w] = "asleep" /\ lifeClock >= until[w]
  /\ waiting' = [waiting EXCEPT ![w] = "timeout"]
  /\ until' = [until EXCEPT ![w] = 0]
  /\ UNCHANGED <<endpoint, laneState, ended, deadline, timeState, verdicts,
                 managerState>>

\* The flow is done.
WaitStops(w) ==
  /\ waiting[w] \in {"looking", "asleep"} /\ ended
  /\ waiting' = [waiting EXCEPT ![w] = "away"]
  /\ until' = [until EXCEPT ![w] = 0]
  /\ UNCHANGED <<endpoint, laneState, ended, deadline, timeState, verdicts,
                 managerState>>

\* A waiter that gave up fails the flow.
FlowFails(w) ==
  /\ waiting[w] \in GaveUp /\ ~ended
  /\ Closes
  /\ UNCHANGED <<endpoint, laneIs, suspected, waitState, timeState, verdicts, managerState>>

-----------------------------------------------------------------------------
\* The client's manager.  It returns once the flow is done.
ManagerReturns == manager' = "gone" /\ abandoned' = TRUE

ManagerSeesEnd ==
  /\ manager = "idle" /\ ended
  /\ ManagerReturns
  /\ UNCHANGED <<endpoint, laneState, ended, waitState, timeState, resumeRefused,
                 recoveries, capacityRefusals, isolating, channelled>>

\* A stall signal starts a rescue round while the flow still has a healthy lane.
ManagerHearsStall ==
  /\ manager = "idle" /\ ~ended
  /\ Healthy # {} /\ suspected \cap Healthy # {}
  /\ manager' = "stall"
  /\ UNCHANGED <<endpoint, laneState, ended, waitState, timeState, verdicts, recoveries,
                 capacityRefusals, isolating, channelled>>

\* The ticker first takes the join's result from the channel ...
ManagerDrains ==
  /\ manager = "idle" /\ ~ended /\ channelled # "none"
  /\ channelled' = "none"
  /\ \/ /\ channelled = "error" /\ isolating' \in {"no", "yes"}   \* retried, or refused for good
        /\ UNCHANGED <<laneState, deadline>>
     \/ /\ channelled # "error" /\ isolating' = "yes"
        /\ \E l \in AllLanes : laneIs[l] = "parked" /\ Installed(l)
        /\ UNCHANGED suspected
  /\ UNCHANGED <<endpoint, ended, waiting, until, timeState, verdicts, manager, recoveries,
                 capacityRefusals>>

\* ... then replaces the last lane, up to a number of rounds, or isolates a bulk flow.
ManagerRecovers ==
  /\ manager = "idle" /\ ~ended /\ channelled = "none" /\ Healthy = {}
  /\ IF recoveries >= RecoveryMax
       THEN ManagerReturns /\ UNCHANGED recoveries
       ELSE manager' = "tick" /\ recoveries' = recoveries + 1 /\ UNCHANGED abandoned
  /\ UNCHANGED <<endpoint, laneState, ended, waitState, timeState, resumeRefused,
                 capacityRefusals, isolating, channelled>>

\* Long after the last round the rounds are forgotten.
ManagerForgets ==
  /\ manager = "idle" /\ ~ended /\ Healthy # {} /\ recoveries > 0
  /\ recoveries' = 0
  /\ UNCHANGED <<endpoint, laneState, ended, waitState, timeState, verdicts, manager,
                 capacityRefusals, isolating, channelled>>

ManagerIsolates ==
  /\ manager = "idle" /\ ~ended /\ channelled = "none" /\ Healthy # {} /\ isolating = "no"
  /\ \E l \in LifeLanes :
       laneIs[l] = "unused" /\ laneIs' = [laneIs EXCEPT ![l] = "dialing"]
  /\ isolating' = "pending"
  /\ UNCHANGED <<endpoint, laneOpen, suspected, ended, waitState, timeState, verdicts,
                 manager, recoveries, capacityRefusals, channelled>>

\* A rescue round ends: with a lane that is installed, the peer's refusal, its answer
\* that it is full, or nothing.
RoundWins ==
  /\ manager \in {"stall", "tick"}
  /\ \E l \in LifeLanes : laneIs[l] = "unused" /\ Installed(l)
  /\ manager' = "idle" /\ capacityRefusals' = 0
  /\ recoveries' = recoveries
  /\ UNCHANGED <<endpoint, suspected, ended, waiting, until, timeState, verdicts, isolating,
                 channelled>>

RoundFails ==
  /\ manager \in {"stall", "tick"}
  /\ manager' = "idle" /\ capacityRefusals' = 0
  /\ UNCHANGED <<endpoint, laneState, ended, waitState, timeState, verdicts, recoveries,
                 isolating, channelled>>

RoundIsRefused ==
  /\ manager \in {"stall", "tick"}
  /\ ManagerReturns
  /\ resumeRefused' = (resumeRefused \/ manager = "tick" \/ ~ended)
  /\ capacityRefusals' = 0
  /\ UNCHANGED <<endpoint, laneState, ended, waitState, timeState, recoveries, isolating,
                 channelled>>

\* A full peer is believed for good only in rounds of the stall watchdog.
RoundFindsItFull ==
  /\ manager \in {"stall", "tick"} /\ capacityRefusals < RecoveryMax
  /\ capacityRefusals' = capacityRefusals + 1
  /\ IF manager = "stall" /\ ~ended /\ capacityRefusals + 1 >= RecoveryMax
       THEN ManagerReturns /\ resumeRefused' = TRUE
       ELSE manager' = "idle" /\ UNCHANGED verdicts
  /\ UNCHANGED <<endpoint, laneState, ended, waitState, timeState, recoveries, isolating,
                 channelled>>

\* The goroutine of the isolation join: its result goes to the channel, or, when the
\* manager is gone, may be dropped and the lane closed.
JoinReturns(l) ==
  /\ laneIs[l] = "dialing"
  /\ \/ /\ laneIs' = [laneIs EXCEPT ![l] = "parked"] /\ laneOpen' = laneOpen \cup {l}
        /\ channelled' = "lane"
     \/ /\ laneIs' = [laneIs EXCEPT ![l] = "gone"] /\ channelled' = "error"
        /\ UNCHANGED laneOpen
     \/ /\ ended \/ manager = "gone"
        /\ laneIs' = [laneIs EXCEPT ![l] = "gone"]
        /\ UNCHANGED <<laneOpen, channelled>>
  /\ UNCHANGED <<endpoint, suspected, ended, waitState, timeState, verdicts, manager,
                 recoveries, capacityRefusals, isolating>>

-----------------------------------------------------------------------------
\* The server: a JOIN for this flow extends the outage it finds, and its lane is
\* staged until it was answered.
Extended == deadline' = IF deadline # 0 /\ ~Residue THEN lifeClock + Grace ELSE deadline

JoinArrives(l) ==
  /\ endpoint = "server" /\ ~ended /\ laneIs[l] = "unused"
  /\ Extended
  /\ laneIs' = [laneIs EXCEPT ![l] = "staged"] /\ laneOpen' = laneOpen \cup {l}
  /\ UNCHANGED <<endpoint, suspected, ended, waiting, until, timeState, verdicts,
                 managerState>>

\* The answer is written and the lane activated, or removed.
JoinSettles(l) ==
  /\ laneIs[l] = "staged"
  /\ \/ ~ended /\ Started(l) /\ UNCHANGED laneOpen
     \/ /\ laneIs' = [laneIs EXCEPT ![l] = "gone"] /\ laneOpen' = laneOpen \ {l}
        /\ UNCHANGED deadline
  /\ UNCHANGED <<endpoint, suspected, ended, waiting, until, timeState, verdicts,
                 managerState>>

-----------------------------------------------------------------------------
\* Time moves on when everybody who has something to do at a ticker or a timer did it.
LifeTick ==
  /\ ~ended /\ lifeClock < LifeClock
  /\ \A w \in LaneWaiters :
       /\ waiting[w] \notin GaveUp \cup {"looking"}
       /\ waiting[w] = "asleep" => ~Noticed /\ until[w] > lifeClock
  /\ lifeClock' = lifeClock + 1
  /\ lastSeen' = IF Healthy # {} THEN lifeClock + 1 ELSE lastSeen
  /\ UNCHANGED <<endpoint, laneState, ended, waitState, verdicts, managerState>>

LifeNext ==
  \/ FlowEnds \/ StallLooks \/ LifeTick
  \/ \E l \in AllLanes : \/ LaneFails(l) \/ AckClears(l) \/ JoinReturns(l)
                         \/ JoinArrives(l) \/ JoinSettles(l)
  \/ \E w \in LaneWaiters : \/ WaitBegins(w) \/ WaitBudget(w) \/ WaitTicks(w)
                            \/ WaitExpires(w) \/ WaitStops(w) \/ FlowFails(w)
  \/ ManagerSeesEnd \/ ManagerHearsStall \/ ManagerDrains \/ ManagerRecovers
  \/ ManagerForgets \/ ManagerIsolates
  \/ RoundWins \/ RoundFails \/ RoundIsRefused \/ RoundFindsItFull

LifeSpec == LifeInit /\ [][LifeNext]_lifeVars

-----------------------------------------------------------------------------
\* The grace belongs to the outage, not to the waiter: nobody gives a flow up for want
\* of a lane unless no lane was seen for a whole grace, whoever opened the outage, however
\* many waited, and whatever an outage before this one left behind in the deadline.  No
\* outage is granted more than a grace from now.  And a waiter is told that nobody will
\* replace the lane only when that is so.
LifeInv ==
  /\ deadline <= lifeClock + Grace
  /\ \A w \in LaneWaiters :
       /\ waiting[w] = "timeout" => lifeClock - lastSeen >= Grace \/ ended
       /\ waiting[w] = "refused" => resumeRefused
       /\ waiting[w] = "abandoned" => manager = "gone" /\ endpoint = "client"
  /\ \A l \in laneOpen : laneIs[l] \in {"ready", "staged", "parked"}
  /\ ~ended => Healthy \subseteq laneOpen

\* "letting the hard deadline expire underneath that handshake fails the flow at the
\* moment its rescue is landing": a JOIN extends the outage for those who wait.
ExtensionIsFelt == \A w \in LaneWaiters : waiting[w] = "timeout" => deadline <= lifeClock

\* The count of bulk connections is "a count of concurrently isolated bulk flows": once
\* a flow is over, its manager is gone and the join's goroutine too, no lane of its stays open.
JoinedLaneIsOwned ==
  ended /\ manager = "gone" => \A l \in laneOpen : laneIs[l] # "parked"
=============================================================================
