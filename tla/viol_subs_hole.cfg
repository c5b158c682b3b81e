SPECIFICATION Spec
CONSTANTS
  Topics = {a, b}
  None = none
  NumHandlers = 2
  Environments <- SequentialOnly
  MaxPacketId = 3
  MaxPublishes = 0
  MaxInFlight = 2
  MaxCalls = 4
SYMMETRY TopicSymmetry
INVARIANTS HandledIsSubscribed
