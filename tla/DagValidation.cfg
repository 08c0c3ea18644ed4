SPECIFICATION Spec
CONSTANTS
  JobIds <- Names
  Definitions <- MCDefinitions
  MaxJobs = 3
  MaxDependencies = 2
INVARIANTS
  TypeOK
  VerdictCorrect
  CircularOnlyForCycles
  RuntimeMatchesDag
  QueuedOnce
CHECK_DEADLOCK FALSE
