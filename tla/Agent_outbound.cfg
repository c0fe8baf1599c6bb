SPECIFICATION Spec
CONSTANTS
  Confs <- Late
  MaxBeats = 1
  MaxItems = 1
  MaxReply = 1
INVARIANT CorrelatedHasContext
CHECK_DEADLOCK FALSE
