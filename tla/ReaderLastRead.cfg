CONSTANTS
  Users = {1, 2}
  NBoards = 2
  Readable <- MCReadable
  Writable <- MCWritable
  Moderated <- MCModerated
  MaxPerBoard = 2
  Limit <- MCLimit
  MaxLines = 1
  MaxChars = 2
  MaxCount = 2
  Faults = {"board", "msg"}
  MaxFaults = 2
  MaxDrafts = 2
  MaxCalls = 2
SPECIFICATION Spec
INVARIANT LastRead
CHECK_DEADLOCK FALSE
