CONSTANTS
  NoSurface = NoSurface
  Targets = {a, r}
  Textures = {r}
  Px = {p, q}
  Contexts = {c}
  EarlyClears = FALSE
  LooksFirst = TRUE
  MaxWrites = 2
  BatchLen = 2
SPECIFICATION Spec
INVARIANTS TablesAgree
PROPERTIES ImplementsMemory
SYMMETRY PixelSymmetry
