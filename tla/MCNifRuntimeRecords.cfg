\* Two operations share the gauges.
SPECIFICATION Spec
CONSTANTS
  x = x
  y = y
  a = a
  b = b
  c = c
  NoDoc = NoDoc
  Ops <- TwoOps
  Docs = {}
  Straying = FALSE
CHECK_DEADLOCK FALSE
INVARIANTS
  RecordTypeOK
  CountedOnce
  CancelSticks
