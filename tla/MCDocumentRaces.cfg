\* A select that may be cancelled, a stream, a probe and two cleanups cross.
SPECIFICATION Spec
CONSTANTS
  s1 = s1
  s2 = s2
  t1 = t1
  p1 = p1
  c1 = c1
  c2 = c2
  Selects <- OneSelect
  Streams <- OneStream
  Probes <- OneProbe
  Closes <- TwoCloses
  Cancels <- OneSelect
SYMMETRY Symmetry
CHECK_DEADLOCK FALSE
INVARIANTS
  TypeOK
  UsedIsOwned
  AdmissionsBalance
  NothingLeaks
  OneCursor
PROPERTIES
  PromiseSpec
