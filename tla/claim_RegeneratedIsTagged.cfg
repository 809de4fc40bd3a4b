SPECIFICATION Spec
CONSTANTS
  Services = {users, rooms}
  MaxMain = 4
  MaxBroken = 0
  MaxReruns = 0
INVARIANT RegeneratedIsTagged
CHECK_DEADLOCK FALSE
