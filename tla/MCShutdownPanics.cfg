SPECIFICATION Spec
CONSTANTS
  Backends = {"bitcoind", "btcd"}
  Scripts <- CommandOnly
  ChannelCapacity = 1
  MaxAttempts = 2
  MaxBlocks = 2
  MaxWatchers = 2
  RequestsMayFail = FALSE
INVARIANTS
  CleanShutdown
CHECK_DEADLOCK FALSE
