CONSTANTS
  big = big
  small = small
  list = list
  Transfers <- MCTransfers
  Files <- MCFiles
  Blocks <- MCFilesBlocks
  Null = Null
  Sequential = TRUE
  PeersBreak = FALSE
SPECIFICATION FairSpec
CHECK_DEADLOCK FALSE
INVARIANTS
  BufferIsDrained
PROPERTIES
  TransferIsAnswered
  StreamSpec
