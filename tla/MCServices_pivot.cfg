CONSTANTS
  Sides = {"fec"}
  x1 = x1  x2 = x2  x3 = x3
  MemFlows <- Three  MemConfigs <- MemoryPlans  MemChunk = 2
  RateSenders <- Two  RateConfigs <- RatePlans  BulkFloor = 2  ReserveFloor = 1
  RateDefault = 2  RateMaxChunk = 6  RateMaxClock = 2
  Users <- Two  Offers <- DialsOf  SessionIds = 1  Protocols = {"hysteria", "hysteria2", "tuic"}
  Payloads = 2  Lengths = {15}  PacketIds = 1  FirstMTU = 7  Limits = {4, 6, 7}  Margin = 1
  DataQueue = 1  DatagramProtocols = {"hysteria", "hysteria2", "tuic", "tuicStream"}
  Services = {"hysteria", "hysteria2", "tuic"}  UDPIds = {1}  Handles = 3
  Readers = {1, 2}  Requests = {1, 2}
  StreamProtocols = {"hysteria", "hysteria2", "tuic"}  Writes = 3
  Networks = 3  Tickets = 2
  Families = {"v4", "v6"}
  Peers <- Two  HopPorts = 3  MaxRoutes = 1  MuxQueue = 1
  Dials <- Two  PoolPorts = 2  DetectSamples = 2  MinSent = 1  Cooldown = 0
  HopSockets = 4  HopPackets = 1
  GeckoKinds = {"packet", "client"}  GeckoSources <- Two  GeckoIds = 1  GeckoTotals = {2, 3}
  MaxPerSource = 1  MaxReassembly = 1  GeckoMessages = 2  GeckoTime = 2
  Prime = 3  MaxRepairWindow = 2  Capacities = {2}  Symbols = 5  Repairs = 2
  FrameSizes <- FrameList  Rooms = {2, 3, 4}  CodeRates = {0, 1, 2}  CodeWindow = 2
  PendingSlots = 2
  Layouts <- LayoutList  Slack = 2  MaxGroups = 2  ReceiveSlots = 1
  PathLanes <- Two  ChainOf <- Chains  PathRates = {2}  MemberIdle = 1  RateWindow = 1
  Confident = 2  SampleCounts = {1, 2}
  Regions = {1, 2, 3}  AliasHops = 16
  LastPacket = 3  BBRRates = {2}  DatagramSizes = {1, 2}  MinPackets = 2
  InitialPackets = 2  MaxPackets = 4  NoGainRounds = 1  LossEvents = 1
  LossIsCongestion = TRUE
  RingSize = 2  QueuedPackets = 6
  CubicPackets = 3  CubicSizes = {1, 2}  FirstWindow = 2  LargestWindow = 4  LeastWindow = 1
  BurstPackets = 1  StartSamples = 2  LowWindow = 2  Timeouts = 1
  TopLevel = 4  DeliveredRates = {0, 1, 2, 3}  ErasureRounds = 5
SPECIFICATION Spec
SYMMETRY Names
CHECK_DEADLOCK FALSE
INVARIANTS
  RecoveredIsSent
