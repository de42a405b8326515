SPECIFICATION Spec
CONSTANTS
  Leaves <- ThreeForks
  LastFaultHeight = 99
  Block <- MCBlock
  ChainWork <- EvenWork
  K = 3
  W = 1
  Delay = 1
  MaxHeaders = 4
  BTCCacheSize = 12
  MaxAttempts = 2
  Backend = "bitcoind"
  BaseHeight = 1
  InitBTCTips <- FourBlocks
  InitLorenzoTips <- BuriedBlocks
  FaultKinds = {}
  MaxFaults = 0
INVARIANTS
  TypeOK
  OnlyMatureHeaders
  BootstrapForkAccepted
  EventHeadersAccepted
  ReorgListIsBranch
  NoPanic
  LagBounded
PROPERTIES
  RelaysBuriedHeaders
CHECK_DEADLOCK FALSE
