\* The caller of a select dies.
SPECIFICATION Spec
CONSTANTS
  o1 = o1
  d1 = d1
  s1 = s1
  s2 = s2
  c1 = c1
  t1 = t1
  b1 = b1
  own = own
  ann = ann
  bob = bob
  Callers <- Everybody
  CallerOf <- Caller
  Opens = {}
  Decodes = {}
  Selects <- OneSelect
  Closes <- OneClose
  Setups = {}
  Batches = {}
  Mortals <- Owner
  Broken = {}
  Workers = 1
  Capacity = 1
  Stoppable = FALSE
CHECK_DEADLOCK FALSE
PROPERTIES
  OrphansEnd
