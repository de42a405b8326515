SPECIFICATION Spec
CONSTANTS
  Leaves <- LongTrunk
  LastFaultHeight = 99
  Block <- MCBlock
  ChainWork <- EvenWork
  K = 2
  W = 1
  Delay = 1
  MaxHeaders = 3
  BTCCacheSize = 12
  MaxAttempts = 2
  Backend = "bitcoind"
  BaseHeight = 1
  InitBTCTips <- FourBlocks
  InitLorenzoTips <- BuriedBlocks
  FaultKinds = {"lorenzo"}
  MaxFaults = 1
INVARIANTS
  RetryDoesNotPanic
CHECK_DEADLOCK FALSE
