SPECIFICATION Spec
CONSTANTS
  Arch = {a0}
  Phy = {p0, p1, p2}
  None = None
  RobSize = 3
  CommitWidth = 2
  RenameWidth = 3
  IssueQueueSize = 3
  IssueWidth = 2
  StoreBufferSize = 1
  AluNum = 1
  MulNum = 1
  Kinds = {"alu", "load", "store", "fence"}
  Events = {"flush"}
SYMMETRY Symmetry
INVARIANTS
  OperandsExact
  FenceOrdered
  MemoryInOrder
