CONSTANTS
  Buffers = {front, back}
  Primary = front
  Rows = {r1}
  Modes = {rgb, pal8}
  Palettized = {pal8}
  NoMode = NoMode
  GraceRefreshes = 1
  MaxFrames = 1
  MaxWrites = 2
  PDEVs = {p1, p2}
  NULL = NULL
  VramSizes = {8388608, 134217728}
  Requests <- MCRequests
  FlagSets <- MCFlagSets
  Processes = {game, other}
  Free = Free
  MaxContexts = 2
  Positions = {centre}
SPECIFICATION MCSpec
INVARIANTS NothingStale ScreenIsGdis MemoryApart OffersStand ContextsAgree
PROPERTIES NoVgaBetweenModes FlipsPaced CallsReturn ScreenFollows
