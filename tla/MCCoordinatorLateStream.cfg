\* A setup and a batch meet a stop.
SPECIFICATION Spec
CONSTANTS
  o1 = o1
  d1 = d1
  s1 = s1
  s2 = s2
  c1 = c1
  t1 = t1
  b1 = b1
  own = own
  ann = ann
  bob = bob
  Callers <- Everybody
  CallerOf <- Caller
  Opens = {}
  Decodes = {}
  Selects = {}
  Closes = {}
  Setups <- OneSetup
  Batches <- OneBatch
  Mortals = {}
  Broken = {}
  Workers = 1
  Capacity = 1
  Stoppable = TRUE
CHECK_DEADLOCK FALSE
PROPERTIES
  RejectedOnceShuttingDown
