SPECIFICATION Spec
CONSTANTS
  None = none
  NumAcks = 2
  Environments <- MCEnvironments
  MaxRequests = 3
  MaxCalls = 3
INVARIANTS TypeOK WaitingIsSubscribed RecordKept NotifiedOnce DeltasIncrease
PROPERTIES EveryRequestNotified
CHECK_DEADLOCK FALSE
