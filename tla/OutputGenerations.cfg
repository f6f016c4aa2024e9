CONSTANTS
  Output = {o1}
  NoOutput = NoOutput
  MaxWorkers = 2
  MaxReports = 0
  MaxTrouble = 0
  MaxRequests = 0
SPECIFICATION FairSpec
PROPERTIES RunnerFollows DrainEnds
CHECK_DEADLOCK FALSE
