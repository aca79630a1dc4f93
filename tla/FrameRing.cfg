SPECIFICATION FrameSpec
CONSTANTS
  ZC_SLOTS = 3
  ZeroCopy = TRUE
  MaxFrames = 6
  MaxGen = 2
CHECK_DEADLOCK FALSE
INVARIANTS
  NeverOlder
  IntactUnlessLapped
