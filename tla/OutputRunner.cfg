\* Two runners of one output, their ffmpeg, timers, stops and the API.
SPECIFICATION FairSpec
CONSTANTS
  MaxRestarts = 2
  RapidCrashGiveUp = 2
  MaxRunners = 2
  MaxReports = 1
  MaxTrouble = 1
  MaxRequests = 1
INVARIANT NoForgottenPush
PROPERTIES PushSpec BreakerEnds StopEnds
CHECK_DEADLOCK FALSE
