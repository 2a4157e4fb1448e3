SPECIFICATION Spec
CONSTANTS
  MaxConn = 2
  RecvCap = 3
  SendCap = 4
  Frames <- MCFrames
  MaxSent = 4
  PacketSizes = {2}
  MaxPackets = 2
  MaxClicks = 2
INVARIANTS
  FramesInOrder
  SendStreamIntact
PROPERTIES
  OnlyStaleCloses
  FramesArrive
CHECK_DEADLOCK FALSE
