CONSTANTS
  Sides = {"control"}
  f1 = f1  f2 = f2  b1 = b1  b2 = b2
  ControlFlows <- Flows  ControlMaxEpoch = 3
  BulkLanes <- Lanes  BulkMax = 1  BulkDials = 3
  a1 = a1  a2 = a2
  Attempts <- Racers  JoinWidth = 2  LaneLimit = 1  MaxAged = 1
  g1 = g1  g2 = g2
  BulkFlows <- Streams  BulkReaders <- TwoLanes  BulkFrames <- Frames
  BulkQueueFrames = 1  HeldLimit = 2
SPECIFICATION Spec
SYMMETRY Names
INVARIANTS
  NoLastConnection
