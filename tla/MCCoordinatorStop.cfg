\* A stop meets an open, a decode, a setup whose cursor is kept or given back, and a close;
\* the callers of the open and the decode may die.
SPECIFICATION Spec
CONSTANTS
  o1 = o1
  d1 = d1
  s1 = s1
  s2 = s2
  c1 = c1
  t1 = t1
  b1 = b1
  own = own
  ann = ann
  bob = bob
  Callers <- Everybody
  CallerOf <- Caller
  Opens <- OneOpen
  Decodes <- OneDecode
  Selects = {}
  Closes <- OneClose
  Setups <- OneSetup
  Batches = {}
  Mortals <- Readers
  Broken = {}
  Workers = 1
  Capacity = 1
  Stoppable = TRUE
CHECK_DEADLOCK FALSE
PROPERTIES
  ShutdownEnds
  StopsDrained
