SPECIFICATION FairSpec
CONSTANTS
  MaxOps = 2
  MaxBoxes = 3
  MaxTasks = 2
  MaxTurns = 5
  MaxRounds = 1
  Confs <- MCConfs
INVARIANTS
  DoneOnce
PROPERTIES
  Authorised
  WaitEnds
CHECK_DEADLOCK FALSE
