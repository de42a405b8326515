SPECIFICATION FairSpec
CONSTANTS
  Leaves <- OneForkLongTrunk
  LastFaultHeight = 6
  Block <- MCBlock
  ChainWork <- EvenWork
  K = 2
  W = 1
  Delay = 1
  MaxHeaders = 3
  BTCCacheSize = 12
  MaxAttempts = 2
  Backend = "btcd"
  BaseHeight = 1
  InitBTCTips <- FourBlocks
  InitLorenzoTips <- BuriedBlocks
  FaultKinds = {"lorenzo", "btc", "lost", "rival", "crash", "restart"}
  MaxFaults = 2
INVARIANTS
  CacheIsChain
  HandlerIsSubscribed
  EventsDoNotPanic
PROPERTIES
  LorenzoCatchesUp
CHECK_DEADLOCK FALSE
