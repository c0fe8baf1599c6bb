SPECIFICATION FairSpec
CONSTANTS
  j1 = j1
  j2 = j2
  j3 = j3
  j4 = j4
  Jobs <- MCJobs
  MaxJobs = 2
  SeenCap = 3
  ReconnectLimit = 1
  MaxAccepts = 4
  MaxEpochs = 2
INVARIANTS
  SlotsFaithful
  JobsAccounted
PROPERTIES
  DrainAdmitsNothing
  StopReturns
CHECK_DEADLOCK FALSE
