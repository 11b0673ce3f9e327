SPECIFICATION Spec
CONSTANTS
  queue = queue
  topic = topic
  v1 = v1
  v2 = v2
  Gone = Gone
  Resource = {queue, topic}
  Immutable = {topic}
  Value = {v1, v2}
  MaxRuns = 2
  MaxOutside = 1
INVARIANTS
  GreenPassedSmoke
CHECK_DEADLOCK FALSE
