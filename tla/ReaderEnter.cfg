CONSTANTS
  Users = {1, 2}
  NBoards = 2
  Readable <- MCReadable
  Writable <- MCWritable
  Moderated <- MCModerated
  MaxPerBoard = 3
  Limit <- MCLimit
  MaxLines = 1
  MaxChars = 2
  MaxCount = 2
  Faults = {}
  MaxFaults = 0
  MaxDrafts = 3
  MaxCalls = 2
SPECIFICATION Spec
INVARIANT EnterMoves
CHECK_DEADLOCK FALSE
