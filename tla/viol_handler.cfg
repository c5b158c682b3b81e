SPECIFICATION AppSpec
CONSTANTS
  Threads = {main}
  Main = main
  NoThread = none
  MainCalls = {"connect", "yield"}
  OtherCalls = {}
  Calls <- CallsDef
  CallbackCalls = {}
  StartAuto = {FALSE}
  HandlerReconnects = TRUE
  ThreadSupport = FALSE
  BlockOnLock = TRUE
  Subscriptions = 0
  MaxBackoff = 2
  MaxMessages = 0
  MaxDepth = 4
PROPERTIES ManualReconnectSticks
