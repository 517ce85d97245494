CONSTANTS
  Sides = {"ack", "open", "life", "writer", "wire", "probe"}
  a1 = a1  a2 = a2
  N = 4  EmptyFinal = TRUE  Pullers <- Actors
  MaxDispatches = 2  MaxAckRanges = 1  LostEvidence = 1  MaxLaneDeaths = 1
  c1 = c1  c2 = c2
  OpenFlows <- Opened  OpenSessions <- Tries  SessionLimits = {2, 4}  PendingMax = 1
  ServerMax = 1
  LaneWaiters <- Actors  LifeLanes = {1, 2}  Grace = 1  LifeClock = 3  RecoveryMax = 1
  p0 = p0
  Puller = p0  Speakers <- Actors  WriteSlots = 4  ControlSlots = 2
  WireWriters <- Actors  WireFrames = 3
  Addresses <- Actors  ProbeFrames = 2  EchoMax = 2  Prewarms = 2  UplinkMoves = 1
SPECIFICATION Spec
SYMMETRY Names
INVARIANTS
  AckInv
  
  OpenInv
  LifeInv
  WireInv
  WriterInv
  ProbeInv
