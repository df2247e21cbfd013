\* One worker, two requests of every kind: cancellation, death, collection and
\* stop against probe, execution, delivery and destruction.
SPECIFICATION Spec
CONSTANTS
  j1 = j1
  j2 = j2
  j3 = j3
  j4 = j4
  NoJob = NoJob
  Jobs <- TwoJobs
  NumWorkers = 1
  QueueCapacity = 1
  Kinds = {"monitored", "operation", "direct"}
  Events = {"cancel", "operation", "death", "abandon", "collect"}
  MaxStarts = 1
  MaxPauses = 0
SYMMETRY Symmetry
CHECK_DEADLOCK FALSE
INVARIANTS
  AnsweredOnce
  ControlLifetime
