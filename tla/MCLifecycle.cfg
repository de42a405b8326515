SPECIFICATION Spec
CONSTANTS
  Backends = {"bitcoind", "btcd"}
  Scripts <- AllScripts
  ChannelCapacity = 1
  MaxAttempts = 2
  MaxBlocks = 3
  MaxWatchers = 2
  RequestsMayFail = TRUE
INVARIANTS
  TypeOK
  WaitMeansDone
  NilEventIsNotRead
  QuietAfterClose
PROPERTIES
  ShutdownCompletes
  CallsHangOnlyOnMuNodeOrChannel
  HandlerStallsOnlyOnMuNodeOrChannel
CHECK_DEADLOCK FALSE
