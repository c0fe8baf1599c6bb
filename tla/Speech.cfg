SPECIFICATION FairSpec
CONSTANTS
  Calls <- MCCalls
  MaxUtts = 2
  MaxUnits = 3
  MaxLines = 3
  Chunk = 2
  MaxSentences = 2
  Attempts = 2
  InitialBuffer = 2
  MaxFrames = 3
  Block = 2
  MaxIn = 6
INVARIANTS
  CallerHeard
  SpokenOnce
PROPERTIES
  StreamEnds
CHECK_DEADLOCK FALSE
