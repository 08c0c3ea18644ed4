SPECIFICATION Spec
CONSTANTS
  s1 = s1
  s2 = s2
  c1 = c1
  c2 = c2
  RetryHandler = r
  NoJob = NoJob
  Schedulers = {s1, s2}
  CompletionHandlers = {c1, c2}
  InitialSchedulers <- OneScheduler
  InitialHandlers <- OneHandler
  Workers = {w1}
  Capacity = 1
  IoThreads = 3
  Jobs = {1, 2, 3}
INVARIANTS
  TypeOK
  DestroyedAfterUse
  Ownership
  JobsAccounted
\* The process ends.
CHECK_DEADLOCK FALSE
