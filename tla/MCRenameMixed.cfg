SPECIFICATION Spec
SYMMETRY Symmetry
VIEW View
CONSTANTS
  Phy = {p0, p1, p2, p3}
  Arch = {a1, a2}
  None = None
  RobSize = 2
  CpSize = 2
  CommitWidth = 2
  RenameWidth = 2
  FetchWidth = 1
  FifoSize = 2
  Mix = {"predicted", "unpredicted", "exception", "interrupt"}
INVARIANTS
  TypeOK
  AssertionsHold
  MappingExact
  NoRegisterLeak
  ResultsMatchEntries
  ValidBitsExact
