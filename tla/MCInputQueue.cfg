SPECIFICATION FairSpec
CONSTANTS
  k1 = k1
  s1 = s1
  s2 = s2
  UserKeys = {k1}
  ScriptKeys = {s1, s2}
  Chords <- MCChord
  Buttons = {b1}
  Wheel = wheel
  Nothing = nothing
  QueueLen = 2
  MaxEvents = 3
CHECK_DEADLOCK FALSE
INVARIANTS
 
  HeldKeysAgree
PROPERTIES
  ImplementsChannel
  EventuallyHanded
  FocusLossLiftsKeys
