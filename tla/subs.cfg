SPECIFICATION Spec
CONSTANTS
  Topics = {a, b, c}
  None = none
  NumHandlers = 3
  Environments <- MCEnvironments
  MaxPacketId = 2
  MaxPublishes = 2
  MaxInFlight = 3
  MaxCalls = 3
SYMMETRY TopicSymmetry
INVARIANTS TypeOK SubscribedUnlessFreed SendsTopics ActiveHasHandler ConfirmedIsReceived ConfirmedAreCounted
