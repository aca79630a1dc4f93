SPECIFICATION AudioSpec
CONSTANTS
  FrameLen = 2
  Size = 16
  Cushion = 10
  Slack = 2
  CatchUp = 10
  MaxStep = 3
  MaxWritten = 32
CHECK_DEADLOCK FALSE
INVARIANTS
  InOrder
  LatencyBounded
  CushionKept
