SPECIFICATION Spec
CONSTANTS
  Requests = {"r1", "r2"}
  Workflows = {"w1"}
  Submissions = {"s1", "s2"}
  RequestOf <- ReqRetry
  WorkflowOf <- WfRetry
  MaxActive = 1
  MaxRequests = 1
  Window = 2
  Faults = {"redis", "sqlite"}
INVARIANTS
  AdmittedOnce
  RateExact
  PublishedIsPersisted
  AdmittedIsPublished
CHECK_DEADLOCK FALSE
