CONSTANTS
  MaxHead = 6
  Word = 2
  Slots = {s1, s2}
  MaxGrabErrors = 2
  NoSlot = NoSlot
SPECIFICATION FairSpec
INVARIANTS PageInv SearchIsExact
PROPERTIES AcceptsAgain
CHECK_DEADLOCK FALSE
