SPECIFICATION AppSpec
CONSTANTS
  Threads = {main, p1}
  Main = main
  NoThread = none
  MainCalls = {"connect", "yield"}
  OtherCalls = {"publish"}
  Calls <- CallsDef
  CallbackCalls = {}
  StartAuto = {FALSE}
  HandlerReconnects = FALSE
  ThreadSupport = TRUE
  BlockOnLock = TRUE
  Subscriptions = 1
  MaxBackoff = 2
  MaxMessages = 1
  MaxDepth = 5
INVARIANTS StateAccounted
