SPECIFICATION Spec
CONSTANTS
  Elem = {a, b}
  Size = 3
  PopStatusSave = TRUE
INVARIANTS
  PointersOrdered
  ReadsExact
PROPERTY
  ImplementsQueue
