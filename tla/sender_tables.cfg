CONSTANTS
  Second = 7
  Millis = 10
  Rates = {0}
  BurstMs = 7
  FrameSizes <- MCFrameSizes
  MaxTime = 1
  MaxFrames = 2
  MaxReset = 0
  Mtu = 157
  Jpegs <- MCJpegs
  MaxFail = 1
SPECIFICATION SenderSpec
INVARIANTS TablesPresent
CHECK_DEADLOCK FALSE
