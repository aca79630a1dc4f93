SPECIFICATION FairSpec
CONSTANTS
  MaxDrawn = 4
PROPERTIES
  PicturesArrive
