\* Sources that fail everywhere, continuations resumed again, a file that changes.
SPECIFICATION Spec
CONSTANTS
  Sources <- MCSources
  RowLimit = 2
  ByteLimit = 4
  Probing = {TRUE, FALSE}
  Overlapping = FALSE
  MaxBatches = 5
INVARIANTS
  StreamTypeOK
  DeliveredInOrder
  DoneIsWhole
  LayersAgree
  PlanDestroyedOnce
PROPERTIES
  ChangeIsNoticed
  DrivingEnds
