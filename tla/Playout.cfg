SPECIFICATION FairSpec
CONSTANTS
  MaxAttempt = 2
  Quantum = 2
  MaxChunk = 3
  QueueCap = 1
  SinkCap = 4
  MaxSends = 2
  MaxCalls = 4
INVARIANTS
  OnlyPermittedAudio
  ResidueBound
PROPERTIES
  DrainedOnlyForOwner
  Answered
CHECK_DEADLOCK FALSE
