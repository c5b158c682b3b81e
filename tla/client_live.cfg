SPECIFICATION FairAppSpec
CONSTANTS
  Threads = {main}
  Main = main
  NoThread = none
  MainCalls = {"publish", "yield"}
  OtherCalls = {}
  Calls <- CallsDef
  CallbackCalls = {"publish"}
  StartAuto = {TRUE, FALSE}
  HandlerReconnects = TRUE
  ThreadSupport = FALSE
  BlockOnLock = TRUE
  Subscriptions = 2
  MaxBackoff = 2
  MaxMessages = 2
  MaxDepth = 14
PROPERTIES EveryCallReturns ReconnectSettles
