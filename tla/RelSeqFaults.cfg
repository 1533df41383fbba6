CONSTANTS
  users = users
  b1 = b1
  b2 = b2
  v1 = v1
  Window = Window
  Blank = Blank
  Absent = Absent
  NoName = NoName
  Names <- MCWindowed
  Windowed <- MCWindowed
  Sweep <- MCShared
  Vals <- MCVals
  MaxRecs = 2
  Faults = {"select", "open", "write", "read", "scratch", "rename", "reply", "probe"}
SPECIFICATION Spec
INVARIANTS TypeOK ViewIsLatest Durable OthersUntouched
