CONSTANTS
  Sides = {"receive", "udp", "flow"}
  StreamUnits = 3  EventSlots = 2  MaxReceiveBytes = 2  MaxReceiveFrames = 3
  Capacity = 3  OtherFlows = 1  MaxReads = 5
  Width = 2  Packets = 2  Replies = 2  Datagrams = 3  Repeats = 1  FrameSlots = 1  ReadSlots = 1
  N = 3  Window = 2  Buffer = 1  MayFail = TRUE  MaxLosses = 1
SPECIFICATION SessionsSpec
INVARIANTS
  ReceiveInv
  WindowInv
  EndingInv
  IInv
  FINComesLast
PROPERTIES
  ReadOrderKept
  AcceptedIsProcessed
  EndsReachTheOther
  ImplementsByteStream
  FlowCompletes
