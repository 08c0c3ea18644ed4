SPECIFICATION FairSpec
CONSTANTS
  Jobs <- JoinJobs
  Deps <- JoinDeps
  Priority <- JoinPriority
  MaxRetries <- JoinRetries
  MaxConcurrent = 2
  NoJob = NoJob
  Schedulers = {"s1"}
  Workers = {"w1", "w2"}
  Handlers = {"h1"}
  RetryHandlers = {"r1"}
  SchedulerOf <- OneScheduler
  QueueCapacity = 1
  Faults = {}
INVARIANTS
  TypeOK
  CompletedJobsExact
  FailurePropagated
PROPERTIES
  EventuallyReleased
CHECK_DEADLOCK FALSE
