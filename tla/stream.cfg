SPECIFICATION FairSpec
CONSTANTS
  Head = 6
  Headers = 1
  Bodies = {1, 3, 5, 8}
  BufSize = 10
  Chunk = 5
  Window = 5
  WantFrames = 3
  MaxParts = 4
  MaxCuts = 1
INVARIANTS StreamInv RoomyNeverTooSmall
PROPERTIES PushedArrives
CHECK_DEADLOCK FALSE
