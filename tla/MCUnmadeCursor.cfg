\* The cursor resource of a stream cannot be allocated.
SPECIFICATION UnmadeSpec
CONSTANTS
  s1 = s1
  s2 = s2
  t1 = t1
  p1 = p1
  c1 = c1
  c2 = c2
  Selects = {}
  Streams <- OneStream
  Probes = {}
  Closes <- OneClose
  Cancels = {}
CHECK_DEADLOCK FALSE
PROPERTIES
  PreviousIsPositive
