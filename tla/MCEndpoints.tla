----------------------------- MODULE MCEndpoints -----------------------------
(***************************************************************************)
(* Small instances of the parts of the two endpoints that share no state:     *)
(* the client's two pools, the race for a lane between a client and the       *)
(* server, and the demultiplexer of one connection's datagrams.  Each          *)
(* behaviour moves one of them: `side` says which.                            *)
(***************************************************************************)
EXTENDS ControlPool, BulkPool, LaneJoin, BulkDemux, TLC

CONSTANTS Sides, f1, f2, b1, b2, a1, a2, g1, g2
Flows    == {f1, f2}
Lanes    == {b1, b2}
Racers   == {a1, a2}
\* Two lanes of one flow; two frames for it and one for a flow without a lane.
Streams  == {g1, g2}
TwoLanes == {<<g1, 1>>, <<g1, 2>>}
Frames   == {<<g1, 1>>, <<g1, 2>>, <<g2, 1>>}
\* Attempts differ in nothing but their names.
Names    == Permutations(Racers)

VARIABLE side
vars == <<controlVars, bulkVars, joinVars, demuxVars, side>>

Init == ControlInit /\ BulkInit /\ JoinInit /\ DemuxInit /\ side \in Sides

ControlMoves ==
  side = "control" /\ ControlNext /\ UNCHANGED <<bulkVars, joinVars, demuxVars, side>>
BulkMoves ==
  side = "bulk" /\ BulkNext /\ UNCHANGED <<controlVars, joinVars, demuxVars, side>>
JoinMoves ==
  side = "join" /\ JoinNext /\ UNCHANGED <<controlVars, bulkVars, demuxVars, side>>
DemuxMoves ==
  side = "demux" /\ DemuxNext /\ UNCHANGED <<controlVars, bulkVars, joinVars, side>>

\* The demultiplexer rests when its connection and all its readers are gone.
DemuxRests ==
  /\ side = "demux" /\ path = "closed" /\ routing = {}
  /\ \A r \in BulkReaders : lane[r] = "gone"
  /\ UNCHANGED vars

Next == ControlMoves \/ BulkMoves \/ JoinMoves \/ DemuxMoves \/ DemuxRests

Spec == Init /\ [][Next]_vars
=============================================================================
