CONSTANTS
  s1 = s1
  s2 = s2
  Sessions <- MCSessions
  NoSession = NoSession
  MaxCommands = 2
  MaxCuts = 1
SPECIFICATION FairSpec
CHECK_DEADLOCK FALSE
INVARIANTS
  HeardInOrder
  NobodyMissed
  ToldAreAlive
PROPERTIES
  ClientsAreServed
