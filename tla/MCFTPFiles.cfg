CONSTANTS
  s1 = s1
  f = f
  g = g
  LoggedIn <- MCAlone
  Paths <- MCPaths
  Home <- MCHome
  NameOrder <- MCNameOrder
  Params <- MCParams
  Contents <- MCContents
  Absent = Absent
  Dir = Dir
  Nothing = Nothing
SPECIFICATION FilesSpec
CHECK_DEADLOCK FALSE
INVARIANT
  FilesTypeOK
PROPERTIES
  RenameKeepsFiles
  DeleteSparesDirectories
  RefusedChangesNothing
