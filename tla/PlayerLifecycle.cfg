SPECIFICATION FairSpec
CONSTANTS
  ReleaseWait = 4
  JoinWait = 12
  UiBlock = 8
INVARIANTS
  EndsInOrder
PROPERTIES
  PlayerEnds
