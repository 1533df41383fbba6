SPECIFICATION FairSpec
CONSTANTS
  Names = {"f"}
  Levels <- MCLevels
  UploadLevels <- MCUploadLevels
  Level = 1
  MaxChunks = 3
  Slots = 1
  MaxUploads = 2
  MaxDownloads = 1
  Window = 4
  MaxFaults = 2
  MaxResends = 1
  Absent = Absent
INVARIANTS TypeOK CompleteIsWhole ListedIsThere CountsAgree
PROPERTY TransferEnds
CHECK_DEADLOCK FALSE
