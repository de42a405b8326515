SPECIFICATION Spec
CONSTANTS
  Leaves <- Forks
  Block <- MCBlock
  ChainWork <- EvenWork
  K = 1
  BatchSize = 3
  ChannelCapacity = 1
  BaseHeight = 1
  InitBTCTips <- TrunkTips
  InitLorenzoTips <- OnTrunkOrStale
  MayFail = TRUE
INVARIANTS
  TypeOK
  ShortfallBounded
  OnlyStopLeavesProducer
  StaleForkIsLorenzos
PROPERTIES
  CatchUpEnds
  ImplementsReporterStart
CHECK_DEADLOCK FALSE
