\* Two workers, two starts, one pause: liveness, the contract, the condition
\* variable and what a pool leaves behind.
SPECIFICATION Spec
CONSTANTS
  j1 = j1
  j2 = j2
  j3 = j3
  j4 = j4
  NoJob = NoJob
  Jobs <- TwoJobs
  NumWorkers = 2
  QueueCapacity = 1
  Kinds = {"plain", "monitored"}
  Events = {"cancel"}
  MaxStarts = 2
  MaxPauses = 1
CHECK_DEADLOCK FALSE
INVARIANTS
  NoLostWakeup
  NothingOutlivesPool
PROPERTIES
  ContractSpec
  CancelledInQueueNeverRuns
  AdmittedIsSettled
  StopCompletes
