CONSTANTS
  balanced = balanced
  Custom = custom
  GMode = gmode
  Performance = performance
  OtherModes <- MCOtherModes
  DefaultMode = balanced
  NoMode = NoMode
  AdoptStreak = 2
  GraceTicks = 1
  MaxAttempts = 1
  MaxPolls = 1
  MaxEvents = 3
  TrayModes <- MCTrayModes
  WatchPeriod = 2
SPECIFICATION MCFairSpec
CHECK_DEADLOCK FALSE
INVARIANT WrongForOnePeriod
PROPERTY RadiosAgree
