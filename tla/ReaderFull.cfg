CONSTANTS
  Users = {1, 2}
  NBoards = 2
  Readable <- MCReadable
  Writable <- MCWritable
  Moderated <- MCModerated
  MaxPerBoard = 2
  Limit <- MCLimit
  MaxLines = 1
  MaxChars = 3
  MaxCount = 2
  Faults = {"ptr", "board", "msg", "post", "user"}
  MaxFaults = 0
  MaxDrafts = 3
  MaxCalls = 2
SPECIFICATION Spec
INVARIANTS TypeOK DraftIsOwn MarksShown
PROPERTY KillsAuthorised
CHECK_DEADLOCK FALSE
