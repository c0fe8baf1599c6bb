SPECIFICATION JobFairSpec
CONSTANTS
  Confs <- MCConfs
  MaxRounds = 3
  MaxTools = 1
  MaxClears = 1
  Keep = 2
  Tokens = 3
  MaxPending = 2
  MaxUse = 2
INVARIANTS
  Settled
  NothingForgotten
PROPERTIES
  EndIsLast
  JobEnds
CHECK_DEADLOCK FALSE
