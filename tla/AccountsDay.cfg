CONSTANTS
  MaxUsers = 3
  Lines = {"s", "a"}
  Passwords = {"PASS", "p"}
  Tries = 2
  Limit = 1
  DayCap = 2
  Faults = {"open", "flush", "overlay"}
  MaxFaults = 0
  MaxSessions = 2
  MaxEdits = 0
  MaxDays = 2
SPECIFICATION Spec
INVARIANT DayIsNew
