SPECIFICATION Spec
CONSTANTS
  Leaves <- LongTrunk
  LastFaultHeight = 99
  Block <- MCBlock
  ChainWork <- UnevenWork
  K = 2
  W = 1
  Delay = 1
  MaxHeaders = 3
  BTCCacheSize = 12
  MaxAttempts = 2
  Backend = "bitcoind"
  BaseHeight = 1
  InitBTCTips <- FourBlocks
  InitLorenzoTips <- BuriedBlocks
  FaultKinds = {"crash", "restart"}
  MaxFaults = 2
INVARIANTS
  BootstrapForkAccepted
CHECK_DEADLOCK FALSE
