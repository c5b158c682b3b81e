SPECIFICATION Spec
CONSTANTS
  None = none
  Nothing = nothing
  Main = main
  ShadowRun = shadowRun
  c1 = c1
  c2 = c2
  ch1 = ch1
  ch2 = ch2
  Command = {c1, c2}
  Channels = {ch1, ch2}
  NumHandlers = 2
  NumAcks = 3
  UpdateTimeout = 6
  SleepTime = 2
  YieldTime = 1
  BufferSize = 500
  Environments <- MCEnvironments
INVARIANTS
  TypeOK
  AloneReportsOwn
  UpdateFindsRecord
  FittingDocumentBuilt
PROPERTIES
  EveryCommandEnds
  ChannelsSettle
CHECK_DEADLOCK FALSE
