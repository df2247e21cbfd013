\* A batch of a cursor whose document is closing.
SPECIFICATION Spec
CONSTANTS
  s1 = s1
  s2 = s2
  t1 = t1
  p1 = p1
  c1 = c1
  c2 = c2
  Selects = {}
  Streams <- OneStream
  Probes = {}
  Closes <- OneClose
  Cancels = {}
CHECK_DEADLOCK FALSE
PROPERTIES
  BatchesAreCurrent
