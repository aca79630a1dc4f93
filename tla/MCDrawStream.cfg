SPECIFICATION Spec
CONSTANTS
  Contexts = {1, 2}
  Buffers = {"v", "s"}
  InVram = {"v"}
  Textures = {"t", "p"}
  Paletted = {"p"}
  Palettes = {"a"}
  VertexSize <- MCVertexSize
  Shaders = {"h"}
  Sets = {"s"}
  MaxVertices = 3
  Programs <- Everything
INVARIANTS
  InstructionsOnce
PROPERTIES
  ImplementsDevice
CHECK_DEADLOCK FALSE
