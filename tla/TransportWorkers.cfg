SPECIFICATION FairSpec
CONSTANTS
  Definition = {d1}
  NoDefinition = none
  Session = {s1, s2}
  JsmpegSession = {s1, s2}
  WebrtcSession = {s1}
  MaxGeneration = 1
  LeaseTicks = 1
  MaxPublishers = 2
  MaxCalls = 2
  MaxTrouble = 1
  Lingering = FALSE
  Requested = {s2}
INVARIANT LiveHasMedia
PROPERTIES LifecycleSpec LocksCostFaults  DrainCompletes EndRequestsHonoured SilentBrowserCloses
CHECK_DEADLOCK FALSE
