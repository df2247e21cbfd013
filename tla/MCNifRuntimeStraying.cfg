\* The library is unloaded while a destructor runs elsewhere.
SPECIFICATION Spec
CONSTANTS
  x = x
  y = y
  a = a
  b = b
  c = c
  NoDoc = NoDoc
  Ops = {}
  Docs <- TwoDocs
  Straying = TRUE
CHECK_DEADLOCK FALSE
INVARIANTS
  RuntimeOutlivesUse
