SPECIFICATION FairDriveSpec
CONSTANTS
  d1 = d1
  d2 = d2
  Discs = {d1, d2}
  NoDisc = NoDisc
  Shelves <- MCShelves
  Polls = 2
  MaxHost = 3
PROPERTIES
  EmptiesFirst
  OperationEnds
