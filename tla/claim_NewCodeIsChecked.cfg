SPECIFICATION Spec
CONSTANTS
  Services = {users, rooms}
  MaxMain = 3
  MaxBroken = 0
  MaxReruns = 0
INVARIANT NewCodeIsChecked
CHECK_DEADLOCK FALSE
