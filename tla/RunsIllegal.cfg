\* The tool answers after the first reconciliation has given up.
CONSTANTS
  Runs = {r1}
  TTL = 1
  MaxTime = 2
  MaxVersion = 2
  MaxEvents = 9
SPECIFICATION Spec
INVARIANTS
  TransitionsAreLegal
CHECK_DEADLOCK FALSE
