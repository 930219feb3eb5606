CONSTANTS
  Sizes <- MCSizes
  BufSize = 5
  PayloadMax = 2
  SeqMod = 4
  MaxPackets = 3
  MaxRefused = 1
  MaxStray = 0
  MaxLoss = 1
  MaxDup = 0
  MaxFail = 1
  MaxRestart = 0
  Fifo = FALSE
  UntilFrames = 0
  NoPacket = NoPacket
CHECK_DEADLOCK FALSE
SPECIFICATION Spec
INVARIANTS UdpInv Integrity
PROPERTIES ImplementsChannel
