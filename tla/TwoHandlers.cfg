SPECIFICATION Spec
SYMMETRY InterchangeableJobs
CONSTANTS
  Jobs = {"b", "d", j1, j2, j3}
  Deps <- GatherDeps
  Priority <- GatherPriority
  MaxRetries <- GatherRetries
  MaxConcurrent = 3
  NoJob = NoJob
  Schedulers = {"s1"}
  Workers = {w1}
  Handlers = {h1, h2}
  RetryHandlers = {"r1"}
  SchedulerOf <- OneScheduler
  QueueCapacity = 1
  Faults = {}
INVARIANTS
  SlotsMatchWhileLive
  SomeoneHoldsASlot
  QuietAfterCleanup
  NothingRevived
  CompletedMeansAllCompleted
PROPERTIES
  DependenciesFirst
  NeverRunAgain
  CompletedKept
  ResultKept
CHECK_DEADLOCK FALSE
