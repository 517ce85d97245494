SPECIFICATION FairSpec
CONSTANTS
  l1 = l1
  l2 = l2
  Lanes <- TwoLanes
  SourceBytes = 2
  ReadSizes = {1, 2}
  ReadErrors = {"nil", "eof"}
  LaneModes <- OneCoded
  MortalLanes = {l1}
  LaneWindow = 1
  MaxOutstanding = 2
  RetainBytes = 3
  RetransmitTimer = TRUE
  ReissueBurst = 1
  CommitBytes = 1
  OutstandingBytes = 1
  TotalBytes = 1
  MemUnits = 2
  LostEvidence = 1
  MaxAttempts = 9
  EndsEarly = FALSE
  LossyAttempts = 2
  SpuriousExpiry = FALSE
PROPERTIES
  StreamDrains
