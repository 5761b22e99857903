CONSTANTS
  t1 = t1
  t2 = t2
  t3 = t3
  h1 = h1
  h2 = h2
  d1 = d1
  Threads <- MCThreads
  Handlers <- MCHandlers
  Descriptors <- MCDescriptors
  Task = Task
  Nobody = Nobody
  MaxInput = 1
SPECIFICATION FairSpec
CHECK_DEADLOCK FALSE
INVARIANTS
  LinkedOnce
  WorkIsFetched
  InputIsSeen
PROPERTIES
  ExecutorSpec
  InputIsRead
