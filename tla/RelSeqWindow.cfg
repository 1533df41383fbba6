CONSTANTS
  users = users
  b1 = b1
  b2 = b2
  v1 = v1
  Window = Window
  Blank = Blank
  Absent = Absent
  NoName = NoName
  Names <- MCNames
  Windowed <- MCWindowed
  Sweep <- MCSweep
  Vals <- MCVals
  MaxRecs = 1
  Faults = {"select", "open", "write", "read", "scratch", "rename", "reply", "probe"}
SPECIFICATION Spec
INVARIANTS ViewIsLatest OthersUntouched
