CONSTANTS
  Sizes <- MCSizes
  BufSize = 4
  PayloadMax = 2
  SeqMod = 2
  MaxPackets = 3
  MaxRefused = 0
  MaxStray = 1
  MaxLoss = 1
  MaxDup = 1
  MaxFail = 1
  MaxRestart = 1
  Fifo = TRUE
  UntilFrames = 2
  NoPacket = NoPacket
CHECK_DEADLOCK FALSE
SPECIFICATION FairSpec
INVARIANTS StatsExact
PROPERTIES OrderedDelivery IntactArrives
