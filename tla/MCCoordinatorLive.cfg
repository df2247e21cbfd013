\* Every call ends, and batches of the dead do, while the server restarts.
SPECIFICATION Spec
CONSTANTS
  o1 = o1
  d1 = d1
  s1 = s1
  s2 = s2
  c1 = c1
  t1 = t1
  b1 = b1
  own = own
  ann = ann
  bob = bob
  Callers <- Everybody
  CallerOf <- Caller
  Opens <- OneOpen
  Decodes = {}
  Selects <- OneSelect
  Closes <- OneClose
  Setups <- OneSetup
  Batches <- OneBatch
  Mortals <- BatchOwner
  Broken <- OneOpen
  Workers = 1
  Capacity = 2
  Stoppable = FALSE
CHECK_DEADLOCK FALSE
PROPERTIES
  CallsEnd
  OrphansEnd
