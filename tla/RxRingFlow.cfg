CONSTANTS
  Size = 13
  Wrap = 26
  High = 2
  Low = 1
  Slack = 1
  Wants = {0, 1, 2}
  MaxDepth = 2
  MaxIo = 2
  MaxBytes = 28
SPECIFICATION RingFairSpec
INVARIANTS RingTypeOK InOrder QuietDuringIo
PROPERTIES EveryByteTaken RtsComesBack
