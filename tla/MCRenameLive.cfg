SPECIFICATION FairSpec
CONSTANTS
  Phy = {p0, p1}
  Arch = {a1}
  None = None
  RobSize = 2
  CpSize = 1
  CommitWidth = 1
  RenameWidth = 1
  FetchWidth = 1
  FifoSize = 1
  Mix = {"predicted", "exception", "interrupt"}
PROPERTIES
  CheckpointsDrain
  EntryLeaves
