CONSTANTS
  Lengths <- MCLengths
  Body = 12
  PcrField = 8
  CcMod = 4
  PsiInterval = 5
  MaxUnits = 3
  MaxFail = 2
  MaxLoss = 2
SPECIFICATION Spec
INVARIANTS TsInv PacketFull CleanIsWhole PsiBounded
CHECK_DEADLOCK FALSE
