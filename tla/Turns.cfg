SPECIFICATION FairSpec
CONSTANTS
  Texts <- MCTexts
  Norm <- MCNorm
  Finals = {"a"}
  Echo = {}
  Confs <- MCConfs
  MaxTurns = 2
  MaxAttempts = 2
  MaxChunks = 1
  MaxNotices = 1
INVARIANTS
  NoOrphan
  OnlyFinalHeard
PROPERTIES
  FloorKept
  AwaitingResolves
CHECK_DEADLOCK FALSE
