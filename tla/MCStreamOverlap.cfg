\* A continuation in other hands is halted while the owner waits for a batch.
SPECIFICATION Spec
CONSTANTS
  Sources <- MCSources
  RowLimit = 2
  ByteLimit = 4
  Probing = {FALSE}
  Overlapping = TRUE
  MaxBatches = 5
INVARIANTS
  BatchHoldsCursor
