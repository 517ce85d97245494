SPECIFICATION Spec
CONSTANTS
  l1 = l1
  l2 = l2
  Lanes <- TwoLanes
  SourceBytes = 2
  ReadSizes = {1}
  ReadErrors = {"nil", "eof", "fail"}
  LaneModes <- AllReliable
  MortalLanes = {l1}
  LaneWindow = 2
  MaxOutstanding = 3
  RetainBytes = 3
  RetransmitTimer = TRUE
  ReissueBurst = 1
  CommitBytes = 2
  OutstandingBytes = 1
  TotalBytes = 0
  MemUnits = 2
  LostEvidence = 1
  MaxAttempts = 3
  EndsEarly = TRUE
  LossyAttempts = 3
  SpuriousExpiry = TRUE
INVARIANTS
  StripeInv
  NobodyWaitsInVain
PROPERTIES
  NoFreshDispatchOfAcked
