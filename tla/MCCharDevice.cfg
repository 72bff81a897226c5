SPECIFICATION FairSpec
CONSTANTS
  FifoSize = 2
  BufSize = 2
INVARIANTS
  InputExact
  OutputExact
PROPERTIES
  HangsOnlyIf
CHECK_DEADLOCK FALSE
