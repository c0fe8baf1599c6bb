SPECIFICATION FairSpec
CONSTANTS
  Configs <- MCConfigs
  Similar <- MCSame
  Echo <- MCNone
  Short <- MCNone
  MaxTurn = 2
  MaxAttempt = 2
  MaxRev = 2
  EventCap = 2
INVARIANTS
  OnlyFinalSpeaks
  NeverStranded
PROPERTIES
  OnlyCurrentActs
  TurnResolves
CHECK_DEADLOCK FALSE
