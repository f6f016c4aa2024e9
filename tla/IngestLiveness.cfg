CONSTANTS
  NoDefinition = NoDefinition
  Definition = {d1}
  Session = {s1}
  MaxGeneration = 1
  LeaseTicks = 1
  MaxPublishers = 1
  MaxTrouble = 3
SPECIFICATION FairSpec
PROPERTIES LocksCostFaults DeadSessionsClose EndRequestsHonoured DrainCompletes LostDropsTransports
CHECK_DEADLOCK FALSE
