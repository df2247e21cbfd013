\* A document is dropped after the library hid its dispatcher.
SPECIFICATION Spec
CONSTANTS
  x = x
  y = y
  a = a
  b = b
  c = c
  NoDoc = NoDoc
  Ops = {}
  Docs <- TwoDocs
  Straying = FALSE
CHECK_DEADLOCK FALSE
PROPERTIES
  DetachedIsFreed
