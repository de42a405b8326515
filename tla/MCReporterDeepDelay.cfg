SPECIFICATION FairSpec
CONSTANTS
  Leaves <- ThreeForksLongTrunk
  LastFaultHeight = 99
  Block <- MCBlock
  ChainWork <- EvenWork
  K = 3
  W = 1
  Delay = 2
  MaxHeaders = 4
  BTCCacheSize = 12
  MaxAttempts = 2
  Backend = "bitcoind"
  BaseHeight = 1
  InitBTCTips <- FourBlocks
  InitLorenzoTips <- BuriedBlocks
  FaultKinds = {}
  MaxFaults = 0
INVARIANTS
  CatchUpAttaches
  ForkIsRemembered
PROPERTIES
  EventsReachLorenzo
  LorenzoCatchesUp
CHECK_DEADLOCK FALSE
