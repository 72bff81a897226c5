SPECIFICATION FairSpec
CONSTANTS
  Arch = {a0}
  Phy = {p0, p1}
  None = None
  RobSize = 3
  CommitWidth = 1
  RenameWidth = 2
  IssueQueueSize = 2
  IssueWidth = 2
  StoreBufferSize = 1
  AluNum = 1
  MulNum = 1
  Kinds = {"csr", "fence", "store"}
  Events = {"flush"}
INVARIANTS
  InOnePlace
  SerialAlone
PROPERTY
  Progress
