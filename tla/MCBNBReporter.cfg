SPECIFICATION FairSpec
CONSTANTS
  Leaves <- Forks
  Block <- MCBlock
  ChainWork <- EvenWork
  Delay = 2
  BatchSize = 2
  ChannelCapacity = 1
  BaseHeight = 1
  InitBNBTips <- FiveToEightBlocks
  InitLorenzoTips <- BuriedOrNone
  FaultKinds = {"bnb", "lorenzo", "rival", "crash", "restart"}
  MaxFaults = 2
INVARIANTS
  TypeOK
  OnlyBuriedHeaders
  TipIsReported
PROPERTIES
  CatchUpIsNotRejected
  CatchUpIsComplete
  LorenzoFollows
  RelaysBuriedHeaders
CHECK_DEADLOCK FALSE
