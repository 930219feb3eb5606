CONSTANTS
  Second = 10
  Fps = 3
  Burst = 0
  MaxTime = 13
  MaxReset = 0
  MaxFails = 2
SPECIFICATION Spec
INVARIANTS SourceInv StretchBound CountersAgree
PROPERTIES PacketsSpaced NoNeedlessDrop
CHECK_DEADLOCK FALSE
