SPECIFICATION FairSpec
CONSTANTS
  Addr = {0, 1}
  Sizes = {1, 2}
  Byte = {x, y}
  BufferSize = 2
  RobSize = 2
  CommitWidth = 2
INVARIANTS
  LoadsExact
  RetiredStoresKept
  BufferMatchesRob
PROPERTIES
  HeldStoreReleased
  StoresDrain
