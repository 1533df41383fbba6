SPECIFICATION FairSpec
CONSTANTS
  Failures = {"absent", "partial"}
  MaxFails = 2
  GarbageLimit = 2
  MaxDepth = 5
  MaxDoors = 2
INVARIANTS TypeOK StraysKnown FlagTold
PROPERTY BackToWfc
CHECK_DEADLOCK FALSE
