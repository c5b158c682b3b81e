SPECIFICATION AppSpec
CONSTANTS
  Threads = {main, p1}
  Main = main
  NoThread = none
  MainCalls = {"connect", "unsubscribe"}
  OtherCalls = {"unsubscribe"}
  Calls <- CallsDef
  CallbackCalls = {}
  StartAuto = {FALSE}
  HandlerReconnects = FALSE
  ThreadSupport = TRUE
  BlockOnLock = TRUE
  Subscriptions = 1
  MaxBackoff = 2
  MaxMessages = 0
  MaxDepth = 4
INVARIANTS SuccessIsAcknowledged
