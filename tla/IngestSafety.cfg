CONSTANTS
  NoDefinition = NoDefinition
  Definition = {d1}
  Session = {s1, s2}
  MaxGeneration = 2
  LeaseTicks = 1
  MaxPublishers = 1
  MaxTrouble = 0
SPECIFICATION Spec
INVARIANTS TypeOK OneOpenSession LeaseFollowsHeartbeat
PROPERTIES LifecycleSpec TakeoverOnlyFromSilent LocksCostFaults
SYMMETRY SessionSymmetry
CHECK_DEADLOCK FALSE
