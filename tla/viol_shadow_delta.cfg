SPECIFICATION Spec
CONSTANTS
  None = none
  NumAcks = 2
  Environments <- OneUpdateOnly
  MaxRequests = 1
  MaxCalls = 3
INVARIANTS OnlyOldDeltasIgnored
CHECK_DEADLOCK FALSE
