CONSTANTS
  big = big
  small = small
  list = list
  Transfers <- MCShortTransfers
  Files <- MCShortFiles
  Blocks <- MCShortBlocks
  Null = Null
  Sequential = FALSE
  PeersBreak = TRUE
SPECIFICATION Spec
CHECK_DEADLOCK FALSE
INVARIANTS
  OneChain
  MemoryBounded
