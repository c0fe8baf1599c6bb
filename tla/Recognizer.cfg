SPECIFICATION FairSpec
CONSTANTS
  MaxTurns = 2
  MaxSockets = 2
  Modes <- MCModes
INVARIANTS
  NoOverlap
  FinalIsTurn
PROPERTIES
  Resolved
CHECK_DEADLOCK FALSE
