CONSTANTS
  MaxPerBoard = 3
  Limit = 2
  Batch = 1
  Lens = {0, 1, 2}
  OffMod = 4
  MaxPosts = 4
  MaxFaults = 1
  Faults = {"open", "flush", "append", "lost"}
SPECIFICATION Spec
INVARIANTS TypeOK BodiesIntact CountsExact ThreadsRooted AckedDurable
PROPERTY NeverOverwritten
