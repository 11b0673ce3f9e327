SPECIFICATION Spec
CONSTANTS
  c1 = c1
  c2 = c2
  Copy = {c1, c2}
  QueueRetention = 86400
  DlqRetention = 259200
  MaxLag = 86400
  Quantum = 86400
  Horizon = 950400
SYMMETRY Copies
INVARIANTS
  RetentionTypeOK
  NeverStoredTwice
PROPERTIES
  TriageWindow
CHECK_DEADLOCK FALSE
