\* Two selects, a stream and a probe compete for the document across two cleanups.
SPECIFICATION Spec
CONSTANTS
  s1 = s1
  s2 = s2
  t1 = t1
  p1 = p1
  c1 = c1
  c2 = c2
  Selects <- TwoSelects
  Streams <- OneStream
  Probes <- OneProbe
  Closes <- TwoCloses
  Cancels = {}
CHECK_DEADLOCK FALSE
INVARIANTS
  OneCursor
  OneCleaner
