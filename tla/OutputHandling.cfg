CONSTANTS
  Output = {o1}
  NoOutput = NoOutput
  MaxWorkers = 1
  MaxReports = 1
  MaxTrouble = 1
  MaxRequests = 1
SPECIFICATION FairSpec
INVARIANT RunIsOwned
PROPERTIES LifecycleSpec StopReached
CHECK_DEADLOCK FALSE
