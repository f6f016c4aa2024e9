CONSTANTS
  Recording = {r1}
  NoRecording = NoRecording
  Coordinator = {c1}
  NoCoordinator = NoCoordinator
  MAX_ATTEMPTS = 2
  DISK_MAX_ATTEMPTS = 3
  MaxVods = 5
  MaxFaults = 2
SPECIFICATION FairSpec
INVARIANTS LeaksCostFaults RequestedOnce RecordingIsReal
PROPERTIES LifecycleSpec RecordingSettles
