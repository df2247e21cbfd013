\* Cleanup and destruction end.
SPECIFICATION Spec
CONSTANTS
  s1 = s1
  s2 = s2
  t1 = t1
  p1 = p1
  c1 = c1
  c2 = c2
  Selects <- OneSelect
  Streams = {}
  Probes <- OneProbe
  Closes <- TwoCloses
  Cancels = {}
CHECK_DEADLOCK FALSE
PROPERTIES
  DroppedIsFreed
  CloseCompletes
