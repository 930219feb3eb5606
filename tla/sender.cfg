CONSTANTS
  Second = 7
  Millis = 10
  Rates = {0, 1130, 10821}
  BurstMs = 7
  FrameSizes <- MCFrameSizes
  MaxTime = 2
  MaxFrames = 3
  MaxReset = 0
  Mtu = 157
  Jpegs <- MCJpegs
  MaxFail = 1
SPECIFICATION SenderSpec
INVARIANTS SenderInv RateBound RoundingBounded WireRateBound ParseAgrees
PROPERTIES IdleGapEarns
CHECK_DEADLOCK FALSE
