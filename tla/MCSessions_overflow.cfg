CONSTANTS
  Sides = {"flow"}
  StreamUnits = 3  EventSlots = 2  MaxReceiveBytes = 2  MaxReceiveFrames = 3
  Capacity = 3  OtherFlows = 1  MaxReads = 6
  Width = 2  Packets = 2  Replies = 2  Datagrams = 3  Repeats = 1  FrameSlots = 1  ReadSlots = 1
  N = 4  Window = 2  Buffer = 2  MayFail = FALSE  MaxLosses = 0
SPECIFICATION SessionsSpec
INVARIANTS
  NeverOverflows
