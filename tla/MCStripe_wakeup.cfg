SPECIFICATION Spec
CONSTANTS
  l1 = l1
  l2 = l2
  Lanes <- TwoLanes
  SourceBytes = 3
  ReadSizes = {1}
  ReadErrors = {"nil", "eof"}
  LaneModes <- OneCoded
  MortalLanes = {}
  LaneWindow = 1
  MaxOutstanding = 3
  RetainBytes = 3
  RetransmitTimer = TRUE
  ReissueBurst = 1
  CommitBytes = 0
  OutstandingBytes = 0
  TotalBytes = 0
  MemUnits = 3
  LostEvidence = 1
  MaxAttempts = 4
  EndsEarly = FALSE
  LossyAttempts = 3
  SpuriousExpiry = TRUE
INVARIANTS
  SleepersHaveNoWork
