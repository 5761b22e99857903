CONSTANTS
  big = big
  small = small
  list = list
  Transfers <- MCTransfers
  Files <- MCFiles
  Blocks <- MCFilesBlocks
  Null = Null
  Sequential = TRUE
  PeersBreak = TRUE
SPECIFICATION Spec
CHECK_DEADLOCK FALSE
INVARIANT
  SentInOrder
