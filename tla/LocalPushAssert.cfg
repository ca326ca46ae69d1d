CONSTANTS
  Minute = 3
  Repeated = {}
  Hour = 9
  Midnights = {0}
  MaxTasks = 2
  MaxBlocks = 2
  MaxWait = 0
SPECIFICATION PushSpec
INVARIANT NoTaskLeft
CHECK_DEADLOCK FALSE
