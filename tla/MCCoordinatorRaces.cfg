\* Selects, a setup, a close and an open: deaths, restarts and a stop.
SPECIFICATION Spec
CONSTANTS
  o1 = o1
  d1 = d1
  s1 = s1
  s2 = s2
  c1 = c1
  t1 = t1
  b1 = b1
  own = own
  ann = ann
  bob = bob
  Callers <- Everybody
  CallerOf <- Caller
  Opens <- OneOpen
  Decodes = {}
  Selects <- TwoSelects
  Closes <- OneClose
  Setups <- OneSetup
  Batches = {}
  Mortals <- Owners
  Broken = {}
  Workers = 1
  Capacity = 1
  Stoppable = TRUE
SYMMETRY Symmetry
CHECK_DEADLOCK FALSE
INVARIANTS
  NobodyForgotten
  JobHoldsReservation
