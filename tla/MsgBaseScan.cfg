CONSTANTS
  MaxPerBoard = 3
  Limit = 2
  Batch = 1
  Lens = {1, 2}
  OffMod = 64
  MaxPosts = 4
  MaxFaults = 1
  Faults = {"scan"}
SPECIFICATION Spec
INVARIANT FreshId
