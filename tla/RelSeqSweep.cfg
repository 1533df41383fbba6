CONSTANTS
  users = users
  b1 = b1
  v1 = v1
  Window = Window
  Blank = Blank
  Absent = Absent
  NoName = NoName
  Names <- MCNames
  Windowed <- MCWindowed
  Sweep <- MCSweep
  Vals <- MCVals
  MaxRecs = 2
  Faults = {"probe"}
SPECIFICATION Spec
INVARIANT EmptyIsAbsent
