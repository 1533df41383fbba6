SPECIFICATION Spec
CONSTANTS
  MaxBoards = 2
  MaxAreas = 2
  MaxPolls = 1
  MaxDoors = 2
  PerPage = 1
  Orders = {2}
  Levels = {0, 1}
  Options = {2, 3}
  Faults = {"open", "flush", "scratch"}
  MaxFaults = 2
  MaxEntries = 2
INVARIANTS TypeOK OwnContent SaidIsKept
