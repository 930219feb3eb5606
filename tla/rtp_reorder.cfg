CONSTANTS
  ScanMax = 4
  SeqMod = 32
  RoomFirst = 1
  RoomRest = 2
  FirstSeq = 30
  Sizes <- MCSizesFew
  Stamps <- MCStamps
  Modes <- Inband
  MaxFrames = 3
  MaxStray = 0
  MaxLoss = 1
  MaxDup = 0
  MaxFail = 0
  MaxRestart = 0
  Fifo = FALSE
  NoJpeg = NoJpeg
CHECK_DEADLOCK FALSE
SPECIFICATION Spec
INVARIANTS RtpInv LossNeverHidden
PROPERTIES ImplementsChannel
