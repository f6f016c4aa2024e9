SPECIFICATION Spec
CONSTANTS
  MaxStreams = 2
  MaxKeys = 4
  MaxNow = 1
  Slot = {m1}
  Imported = m1
  Caller = {c1, c2}
  MaxRequests = 3
  MaxCopies = 3
  MaxInterruptions = 1
CHECK_DEADLOCK FALSE
INVARIANTS OneActiveKey SlotHeldOnce CopiesCostInterruptions
PROPERTIES GraceIsKept MirrorFollowsLink
SYMMETRY CallerSymmetry
