SPECIFICATION ApprovalFairSpec
CONSTANTS
  MaxCeremonies = 2
  MaxContexts = 2
  Flows <- MCFlows
INVARIANTS
  CredentialOfContext
PROPERTIES
  Implements
  StarterReturns
CHECK_DEADLOCK FALSE
