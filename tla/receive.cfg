SPECIFICATION Spec
CONSTANTS
  None = none
  Radix = 3
  SizeLimit = 9
  BufSize = 3
  PacketTimeout = 2
  YieldTime = 1
  MaxPause = 1
  CallbackTime = 1
  PingDelay = 1
  Environments <- MCEnvironments
INVARIANTS TypeOK ReadInBuffer Synchronised LengthDecoded DeadPeerDetected LivePeerKept HeardInTime DeliveredAsSubscribed
