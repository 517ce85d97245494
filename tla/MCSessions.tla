----------------------------- MODULE MCSessions -----------------------------
(***************************************************************************)
(* Small instances of what a session carries: the receive path of a flow, a   *)
(* UDP association, and one direction of a flow from end to end.  They share   *)
(* no state; a behaviour moves one of them, `side` says which, and is fair to   *)
(* it.                                                                       *)
(***************************************************************************)
EXTENDS ReceivePath, UDPAssociation, FlowDelivery

CONSTANT Sides
VARIABLE side

Receives   == side = "receive"
Associates == side = "udp"
Flows      == side = "flow"

SessionsInit == side \in Sides /\ ReceiveInit /\ UDPInit /\ Init

\* An association that both ends have left rests; in no other state may it stop.
Rests ==
  /\ readLoop = "ended" /\ relay # "running" /\ closing \in {"no", "done"}
  /\ UNCHANGED udpVars

ReceiveMoves == Receives /\ ReceiveNext /\ UNCHANGED <<side, udpVars, vars>>
UDPMoves     == Associates /\ (UDPNext \/ Rests) /\ UNCHANGED <<side, receiveVars, vars>>
FlowMoves    == Flows /\ Next /\ UNCHANGED <<side, receiveVars, udpVars>>

\* The fairness of the modules, each for the behaviours that move it.
ReceiveFair == WF_receiveVars(Receives /\ PumpStep) /\ WF_receiveVars(Receives /\ LoopStep)
UDPFair ==
  /\ WF_udpVars(Associates /\ CloseStep) /\ WF_udpVars(Associates /\ ClientRead)
  /\ WF_udpVars(Associates /\ ReadLoopStep)
  /\ WF_udpVars(Associates /\ RelayRead) /\ WF_udpVars(Associates /\ RelayStep)
FlowFair ==
  /\ WF_vars(Flows /\ Source) /\ WF_vars(Flows /\ ReceiveFIN) /\ WF_vars(Flows /\ ReceiveFinalAck)
  /\ WF_vars(Flows /\ \E o \in Units : Dispatch(o) /\ o \notin copies)
  /\ WF_vars(Flows /\ \E o \in Units : Complete(o))
  /\ \A o \in Units : WF_vars(Flows /\ Arrive(o))
  /\ WF_vars(Flows /\ Report)
  /\ \A c \in 0..N : WF_vars(Flows /\ \E r \in reports : r.cumulative = c /\ ReceiveReport(r))

SessionsSpec ==
  /\ SessionsInit
  /\ [][ReceiveMoves \/ UDPMoves \/ FlowMoves]_<<side, receiveVars, udpVars, vars>>
  /\ ReceiveFair /\ UDPFair /\ FlowFair

\* What a flow that is moved promises its sender (mpflow.go:3335).
FlowCompletes == Flows => StreamCompletes
=============================================================================
