SPECIFICATION Spec
SYMMETRY Interchangeable
CONSTANTS
  Jobs <- PairJobs
  Deps <- PairDeps
  Priority <- PairPriority
  MaxRetries <- PairRetries
  MaxConcurrent = 1
  NoJob = NoJob
  Schedulers = {"s1"}
  Workers = {w1}
  Handlers = {h1, h2}
  RetryHandlers = {"r1"}
  SchedulerOf <- OneScheduler
  QueueCapacity = 1
  Faults = {"payload", "sqlite", "redis", "job_expiry", "workflow_expiry"}
INVARIANTS
  IInv
  ConcurrencyLimit
  SlotsCoverActive
PROPERTIES
  NeverRunAgain
  ImplementsSlotAllocation
CHECK_DEADLOCK FALSE
