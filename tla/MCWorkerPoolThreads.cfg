\* Two workers, three jobs, a queue of two, one pause, two starts: the condition
\* variable, the counters, the drain, and what a pool leaves behind.
SPECIFICATION Spec
CONSTANTS
  j1 = j1
  j2 = j2
  j3 = j3
  j4 = j4
  NoJob = NoJob
  Jobs <- ThreeJobs
  NumWorkers = 2
  QueueCapacity = 2
  Kinds = {"plain", "monitored"}
  Events = {"cancel"}
  MaxStarts = 2
  MaxPauses = 1
SYMMETRY Symmetry
CHECK_DEADLOCK FALSE
INVARIANTS
  TypeOK
  NoLostWakeup
  NothingOutlivesPool
