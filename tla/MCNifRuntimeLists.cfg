\* Three documents in the two lists.
SPECIFICATION Spec
CONSTANTS
  x = x
  y = y
  a = a
  b = b
  c = c
  NoDoc = NoDoc
  Ops = {}
  Docs <- ThreeDocs
  Straying = FALSE
CHECK_DEADLOCK FALSE
INVARIANTS
  ListsHoldDetached
PROPERTIES
  HandedOverIsFreed
