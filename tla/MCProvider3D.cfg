SPECIFICATION Spec
CONSTANTS
  MaxLevels = 3
  MaxPbuffers = 1
  ZcSlots = 1
  Sizes = {1, 2}
  Default = 1
  Platforms = {"linux", "macos", "windows"}
  MaxFaults = 1
  Lists = {a, b}
  Programs = {{"levels"}, {"pbuffers"}, {"glide"}}
SYMMETRY Symmetry
INVARIANTS FrameIsWhole RingStaysHome LevelsShare ContextsHeld DesktopComesBack
CHECK_DEADLOCK FALSE
