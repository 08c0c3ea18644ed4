SPECIFICATION Spec
CONSTANTS
  Requests = {"r1", "r2"}
  Workflows = {"w1", "w2"}
  Submissions = {"s1", "s2", "s3"}
  RequestOf <- Req3
  WorkflowOf <- Wf3
  MaxActive = 1
  MaxRequests = 2
  Window = 1
  Faults = {}
PROPERTIES
  FinishedKept
CHECK_DEADLOCK FALSE
