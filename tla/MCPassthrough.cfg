SPECIFICATION Spec8
CONSTANTS
  Programs <- MCPrograms
  MaxRefs = 1
  BatchLen = 1
  MaxWrapped = 2
INVARIANTS
  HandlesAgree
  
  CountsExact
CHECK_DEADLOCK FALSE
