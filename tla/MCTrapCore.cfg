SPECIFICATION Spec
CONSTANTS
  CodeLen = 2
  Instr <- CoreInstr
  RobSize = 2
  StoreSize = 1
  CommitWidth = 2
  Half = 1
INVARIANTS
  AssertionsHold
  MipShowsLines
PROPERTIES
  ImplementsHart
