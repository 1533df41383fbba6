SPECIFICATION Spec
CONSTANTS
  Names = {"f"}
  Levels <- MCLevels
  UploadLevels <- MCUploadLevels
  Level = 1
  MaxChunks = 3
  Slots = 1
  MaxUploads = 1
  MaxDownloads = 1
  Window = 4
  MaxFaults = 0
  MaxResends = 0
  Absent = Absent
INVARIANT PunterIsWhole
CHECK_DEADLOCK FALSE
