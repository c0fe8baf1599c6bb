SPECIFICATION FairSpec
CONSTANTS
  Confs <- MCConfs
  MaxBeats = 3
  MaxItems = 2
  MaxReply = 3
INVARIANTS
  MarkupHeld
  IdentityKept
PROPERTIES
  EndIsFinal
  CleanedUp
CHECK_DEADLOCK FALSE
