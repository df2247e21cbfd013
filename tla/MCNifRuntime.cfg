\* An operation, two documents, and an unload of the library.
SPECIFICATION Spec
CONSTANTS
  x = x
  y = y
  a = a
  b = b
  c = c
  NoDoc = NoDoc
  Ops <- OneOp
  Docs <- TwoDocs
  Straying = FALSE
CHECK_DEADLOCK FALSE
INVARIANTS
  CountedOnce
  CancelSticks
  ListsHoldDetached
PROPERTIES
  HandedOverIsFreed
