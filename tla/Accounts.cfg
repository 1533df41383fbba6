CONSTANTS
  MaxUsers = 3
  Lines = {"s", " "}
  Passwords = {"PASS", "p"}
  Tries = 2
  Limit = 1
  DayCap = 2
  Faults = {"open", "flush", "overlay"}
  MaxFaults = 1
  MaxSessions = 2
  MaxEdits = 2
  MaxDays = 2
SPECIFICATION Spec
INVARIANTS TypeOK TypedTwice GivenFound
