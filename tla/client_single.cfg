SPECIFICATION AppSpec
CONSTANTS
  Threads = {main}
  Main = main
  NoThread = none
  MainCalls = {"publish", "subscribe", "unsubscribe", "resubscribe", "yield", "connect", "disconnect", "attempt_reconnect", "set_autoreconnect"}
  OtherCalls = {}
  Calls <- CallsDef
  CallbackCalls = {"publish", "unsubscribe", "disconnect", "connect", "yield"}
  StartAuto = {TRUE, FALSE}
  HandlerReconnects = FALSE
  ThreadSupport = FALSE
  BlockOnLock = TRUE
  Subscriptions = 2
  MaxBackoff = 2
  MaxMessages = 2
  MaxDepth = 14
INVARIANTS TypeOK StateAccounted ProperNesting ConnectedMeansTls ContextNotLeaked
PROPERTIES ImplementsContract
