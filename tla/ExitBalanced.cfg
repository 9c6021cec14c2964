CONSTANTS
  balanced = balanced
  Custom = custom
  GMode = gmode
  Performance = performance
  OtherModes <- MCOtherModes
  DefaultMode = balanced
  NoMode = NoMode
  AdoptStreak = 2
  GraceTicks = 1
  MaxAttempts = 1
  MaxPolls = 1
  MaxEvents = 2
  TrayModes <- MCTrayModes
  WatchPeriod = 2
SPECIFICATION CSpec
CHECK_DEADLOCK FALSE
PROPERTY ExitRestoresBalanced
