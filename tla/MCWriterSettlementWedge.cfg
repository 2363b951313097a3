CONSTANTS
  Limit = 3
  Tries = 4
  Tips = 1
  Faults = 3
SPECIFICATION FairSpec
PROPERTY ExitSettles
CHECK_DEADLOCK FALSE
