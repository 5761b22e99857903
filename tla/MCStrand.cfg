CONSTANTS
  t1 = t1
  t2 = t2
  t3 = t3
  s1 = s1
  s2 = s2
  NoHandler = NoHandler
  h1 = h1
  h2 = h2
  h3 = h3
  h4 = h4
  Threads <- MCThreads
  Strands <- MCStrands
  Handlers <- MCHandlers
  StrandOf <- MCStrandOf
SPECIFICATION FairSpec
CHECK_DEADLOCK FALSE
INVARIANTS
  OneAtATime
PROPERTIES
  StrandSpec
