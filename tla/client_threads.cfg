SPECIFICATION AppSpec
CONSTANTS
  Threads = {main, p1, p2}
  Main = main
  NoThread = none
  MainCalls = {"connect", "yield", "unsubscribe"}
  OtherCalls = {"publish"}
  Calls <- CallsDef
  CallbackCalls = {}
  StartAuto = {TRUE, FALSE}
  HandlerReconnects = FALSE
  ThreadSupport = TRUE
  BlockOnLock = TRUE
  Subscriptions = 0
  MaxBackoff = 2
  MaxMessages = 0
  MaxDepth = 5
INVARIANTS MutualExclusion SharedAccounted SharedConnected MinimumDelay
