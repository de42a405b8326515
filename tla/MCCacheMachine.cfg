SPECIFICATION Spec
CONSTANTS
  Block <- MCBlock
  ChainWork <- MCChainWork
  Fillings <- MCFillings
  Sizes <- MCSizes
  MaxHeight = 7
  MaxFilling = 4
INVARIANTS
  TypeOK
  WindowOfChain
  FindBlockFinds
  TrimmedCacheAccepts
CHECK_DEADLOCK FALSE
