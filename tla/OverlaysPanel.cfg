SPECIFICATION Spec
CONSTANTS
  Failures = {}
  MaxFails = 0
  GarbageLimit = 2
  MaxDepth = 5
  MaxDoors = 1
INVARIANT PanelNeedsWfc
CHECK_DEADLOCK FALSE
