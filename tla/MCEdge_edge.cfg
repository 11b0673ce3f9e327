SPECIFICATION EdgeSpec
CONSTANTS
  Second = 2
  Interval = 1
  Rounds = 2
  DeviceCounts = {0, 2, 3}
  MaxSerial = 2
  MaxRuns = 2
  MaxClock = 10
  Environments <- SomeEnvironments
  Foreign <- SomeBodies
INVARIANTS
  EdgeTypeOK
  AcceptsExactlyContract
  PoisonIsExtreme
  PublisherIsHeard
  NoReuse
  ExitCodeIsHonest
CHECK_DEADLOCK FALSE
