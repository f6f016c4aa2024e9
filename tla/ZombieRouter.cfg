SPECIFICATION Spec
CONSTANTS
  Definition = {d1}
  NoDefinition = none
  Session = {s1}
  JsmpegSession = {}
  WebrtcSession = {s1}
  MaxGeneration = 1
  LeaseTicks = 1
  MaxPublishers = 1
  MaxCalls = 2
  MaxTrouble = 0
  Lingering = TRUE
  Requested = {}
INVARIANT RouterFollowsSession
CHECK_DEADLOCK FALSE
