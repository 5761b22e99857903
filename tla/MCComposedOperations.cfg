CONSTANTS
  x = x
  cr = cr
  lf = lf
  Bytes <- MCBytes
  Delim <- MCDelim
  Lines <- MCLines
  Blocks <- MCBlocks
  MaxTransfer = 3
  Room = 4
  BufferSize = 3
SPECIFICATION FairSpec
CHECK_DEADLOCK FALSE
INVARIANTS
  LinesArrive
  NoLineWaits
  BuffersFull
PROPERTIES
  AllArrive
