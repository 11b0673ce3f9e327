SPECIFICATION Spec
CONSTANTS
  queue = queue
  topic = topic
  v1 = v1
  v2 = v2
  Gone = Gone
  Resource = {queue, topic}
  Immutable = {topic}
  Value = {v1, v2}
  MaxRuns = 3
  MaxOutside = 3
SYMMETRY Values
INVARIANTS
  DeliveryTypeOK
  GreenIsConverged
  GreenDestroyLeavesOrphans
  OnlyKillsStopTheNextApply
PROPERTIES
  AppliedIsApproved
  NothingLiveIsDestroyed
  NoSecondCopy
CHECK_DEADLOCK FALSE
