\* Operations queued when the pool is stopped.
SPECIFICATION Spec
CONSTANTS
  j1 = j1
  j2 = j2
  j3 = j3
  j4 = j4
  NoJob = NoJob
  Jobs <- TwoJobs
  NumWorkers = 1
  QueueCapacity = 1
  Kinds = {"operation"}
  Events = {}
  MaxStarts = 1
  MaxPauses = 0
CHECK_DEADLOCK FALSE
PROPERTIES
  ShutdownSkipsQueuedWork
