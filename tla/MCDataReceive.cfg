CONSTANTS
  s1 = s1
  s2 = s2
  a = a
  b = b
  c = c
  store1 = store1
  append1 = append1
  store2 = store2
  Sessions <- MCSessions
  Uploads <- MCUploads
  Appends <- MCAppends
  Owner <- MCOwner
  Paths <- MCPaths
  Path <- MCPath
  Size <- MCSize
  Null = Null
  PeersBreak = TRUE
  DiskFails = TRUE
SPECIFICATION FairSpec
CHECK_DEADLOCK FALSE
INVARIANTS
  OneRead
  StoredInOrder
  FlagIsHeld
PROPERTIES
  ReadGoesOn
  AllStored
