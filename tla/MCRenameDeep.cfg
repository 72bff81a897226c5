SPECIFICATION Spec
SYMMETRY Symmetry
VIEW View
CONSTANTS
  Phy = {p0, p1, p2, p3}
  Arch = {a1, a2}
  None = None
  RobSize = 3
  CpSize = 1
  CommitWidth = 2
  RenameWidth = 1
  FetchWidth = 1
  FifoSize = 1
  Mix = {"predicted", "exception", "interrupt"}
INVARIANTS
  MappingExact
  CheckpointsExact
  CommittedExact
