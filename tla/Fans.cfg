CONSTANTS
  Fans = {cpu, gpu}
  Percents = {0, 1, 3}
  DeadZone = 2
  Firmware = Firmware
  NoPercent = NoPercent
  Initial = {0}
  MaxEvents = 4
SPECIFICATION FairSpec
INVARIANT KnownIsTrue
INVARIANT FloorIsHonoured
INVARIANT UnsavedIsPendingOrDropped
PROPERTY BoostReachesHardware
