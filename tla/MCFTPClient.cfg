CONSTANTS
  MaxCommands = 4
  NoLine = NoLine
SPECIFICATION FairSpec
CHECK_DEADLOCK FALSE
INVARIANTS
  OneWrite
  NothingLeftOver
PROPERTIES
  InStep
  AnswersSpec
  CallsReturn
