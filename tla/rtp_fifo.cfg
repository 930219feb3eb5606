CONSTANTS
  ScanMax = 3
  SeqMod = 16
  RoomFirst = 1
  RoomRest = 2
  FirstSeq = 14
  Sizes <- MCSizesEdge
  Stamps <- MCFewStamps
  Modes <- AnySender
  MaxFrames = 2
  MaxStray = 1
  MaxLoss = 1
  MaxDup = 1
  MaxFail = 1
  MaxRestart = 1
  Fifo = TRUE
  NoJpeg = NoJpeg
CHECK_DEADLOCK FALSE
SPECIFICATION FairSpec
INVARIANTS WholeAcrossRestarts LostExact EveryStartAccounted
PROPERTIES IntactArrives
