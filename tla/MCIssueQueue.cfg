SPECIFICATION QueueSpec
CONSTANTS
  Elem = {a, b}
  Size = 4
  PopStatusSave = FALSE
  IssueWidth = 2
INVARIANTS
  WindowExact
  RingSound
PROPERTY
  SyncExact
