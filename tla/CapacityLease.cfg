SPECIFICATION LeaseFairSpec
CONSTANTS
  h1 = h1
  h2 = h2
  Handoffs <- MCHandoffs
  MaxBeats = 3
INVARIANTS
  ReleasedOnce
  BeatsWithLease
PROPERTIES
  FreedAfterCleanup
  Quiesces
CHECK_DEADLOCK FALSE
