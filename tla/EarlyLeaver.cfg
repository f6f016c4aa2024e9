SPECIFICATION FairSpec
CONSTANTS
  Definition = {d1}
  NoDefinition = none
  Session = {s1}
  JsmpegSession = {s1}
  WebrtcSession = {}
  MaxGeneration = 1
  LeaseTicks = 1
  MaxPublishers = 1
  MaxCalls = 2
  MaxTrouble = 0
  Lingering = FALSE
  Requested = {}
PROPERTY EarlyLeaverCloses
CHECK_DEADLOCK FALSE
