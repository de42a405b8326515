SPECIFICATION Spec
CONSTANTS
  Leaves <- TwoForks
  LastFaultHeight = 99
  Block <- MCBlock
  ChainWork <- EvenWork
  K = 2
  W = 1
  Delay = 1
  MaxHeaders = 3
  BTCCacheSize = 12
  MaxAttempts = 2
  Backend = "btcd"
  BaseHeight = 1
  InitBTCTips <- FourBlocks
  InitLorenzoTips <- BuriedBlocks
  FaultKinds = {"lorenzo"}
  MaxFaults = 1
INVARIANTS
  CatchUpAttaches
CHECK_DEADLOCK FALSE
