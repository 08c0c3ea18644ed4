SPECIFICATION FairSpec
CONSTANTS
  Jobs <- PairJobs
  Deps <- PairDeps
  Priority <- PairPriority
  MaxRetries <- PairRetries
  MaxConcurrent = 2
  NoJob = NoJob
  Schedulers = {"s1"}
  Workers = {"w1", "w2"}
  Handlers = {"h1"}
  RetryHandlers = {"r1"}
  SchedulerOf <- OneScheduler
  QueueCapacity = 1
  Faults = {}
PROPERTIES
  EventuallyRecorded
CHECK_DEADLOCK FALSE
