CONSTANTS
  Size = 13
  Wrap = 26
  High = 2
  Low = 1
  Slack = 1
  Wants = {0, 1, 2}
  MaxDepth = 2
  MaxIo = 6
  MaxBytes = 28
SPECIFICATION RingSpec
INVARIANT PausesInTime
