SPECIFICATION FairSpec
CONSTANTS
  CodeLen = 2
  FetchSize = 2
  DecodeSize = 1
  RobSize = 3
  CpSize = 2
  StoreSize = 1
  FetchWidth = 2
  DecodeWidth = 2
  RenameWidth = 2
  CommitWidth = 2
  Kinds = {"store", "jump", "fence_i", "fault"}
INVARIANTS
  PathExact
  FenceIOrdered
PROPERTIES
  Progress
