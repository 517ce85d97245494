------------------------------- MODULE MCLanes -------------------------------
(***************************************************************************)
(* Small instances of the parts of a flow that share no state here: its       *)
(* opening, the life of its lanes, the queue and the stream of one lane, the   *)
(* acknowledgements of one direction, and the probe of the path its lanes are *)
(* dialed over.  Each behaviour moves one of them,                            *)
(* `side` says which; the others stay in one initial state.                   *)
(***************************************************************************)
EXTENDS AckPath, FlowOpen, LaneLife, LaneWriter, LaneWire, PathProbe, TLC

CONSTANTS Sides, a1, a2, c1, c2, p0
\* The pullers of acknowledged chunks, the waiters for a lane, the writers of its stream, the
\* producers of its control frames and the local addresses of a path: they differ in nothing
\* but their names.
Actors == {a1, a2}
Names  == Permutations(Actors)
\* Two flows of one client and one of another; the first opens twice.
Opened == {<<c1, 1>>, <<c1, 2>>, <<c2, 1>>}
Tries  == {<<<<c1, 1>>, 1>>, <<<<c1, 1>>, 2>>, <<<<c1, 2>>, 1>>, <<<<c2, 1>>, 1>>}

VARIABLE side
vars == <<ackVars, openVars, lifeVars, writerVars, wireVars, probeVars, side>>

\* A part that does not move starts in one of its states.
Fixed(s, v, choices) == side # s => v = CHOOSE x \in choices : TRUE

Init ==
  /\ side \in Sides
  /\ AckInit
  /\ OpenInit /\ Fixed("open", sessionMax, SessionLimits)
  /\ LifeInit /\ Fixed("life", endpoint, {"client", "server"})
  /\ WriterInit
  /\ ProbeInit /\ Fixed("probe", uplink, {u \in Uplinks : u.addr = NoAddress})
  /\ WireInit /\ Fixed("wire", wireCoding, BOOLEAN) /\ Fixed("wire", unconfirmed, BOOLEAN)

\* Everything but the moving part stays as it is.
Only(s) ==
  /\ side = s /\ UNCHANGED side
  /\ s # "ack" => UNCHANGED ackVars
  /\ s # "open" => UNCHANGED openVars
  /\ s # "life" => UNCHANGED lifeVars
  /\ s # "writer" => UNCHANGED writerVars
  /\ s # "wire" => UNCHANGED wireVars
  /\ s # "probe" => UNCHANGED probeVars

AckMoves == Only("ack") /\ AckNext
OpenMoves == Only("open") /\ OpenNext
LifeMoves == Only("life") /\ LifeNext
WriterMoves == Only("writer") /\ WriterNext
WireMoves == Only("wire") /\ WireNext
ProbeMoves == Only("probe") /\ ProbeNext

\* An opening, a lane and a probe come to an end.
OthersEnd == side # "ack" /\ UNCHANGED vars

Next ==
  \/ AckMoves \/ OpenMoves \/ LifeMoves \/ WriterMoves \/ WireMoves \/ ProbeMoves
  \/ OthersEnd

Spec == Init /\ [][Next]_vars
=============================================================================
