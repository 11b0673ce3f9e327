SPECIFICATION FairSpec
CONSTANTS
  m1 = m1
  m2 = m2
  m3 = m3
  m4 = m4
  k1 = k1
  k2 = k2
  k3 = k3
  d1 = d1
  i1 = i1
  i2 = i2
  NoMsg = NoMsg
  Msg = {m1, m2}
  Key = {k1, k2}
  Device = {d1}
  Invocation = {i1, i2}
  KeyOf <- MixedKeys
  DeviceOf <- OneDevice
  LevelOf <- MixedLevels
  BatchSize = 2
  MaxReceiveCount = 2
  FunctionTimeout = 1
  BatchingWindow = 0
  VisibilityFactor = 2
  ThrottleDelay = 0
  SuppressionWindow = 1
  SlotTTL = 1
  Faults = {"error", "crash", "redelivered"}
  Redrivable = {m1}
PROPERTIES
  EventuallySettled
