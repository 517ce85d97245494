SPECIFICATION Spec
CONSTANTS
  l1 = l1
  l2 = l2
  Lanes <- TwoLanes
  SourceBytes = 2
  ReadSizes = {1, 2}
  ReadErrors = {"nil", "eof"}
  LaneModes <- OneSwitching
  MortalLanes = {l1}
  LaneWindow = 1
  MaxOutstanding = 2
  RetainBytes = 2
  RetransmitTimer = TRUE
  ReissueBurst = 1
  CommitBytes = 2
  OutstandingBytes = 0
  TotalBytes = 0
  MemUnits = 3
  LostEvidence = 1
  MaxAttempts = 3
  EndsEarly = FALSE
  LossyAttempts = 3
  SpuriousExpiry = TRUE
INVARIANTS
  LedgersInv
  NothingStranded
  RecoveryWorkFirst
PROPERTIES
  CallbacksFindTheirOwn
