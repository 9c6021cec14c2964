CONSTANTS
  balanced = balanced
  Custom = custom
  GMode = gmode
  Performance = performance
  OtherModes <- MCOtherModes
  DefaultMode = balanced
  NoMode = NoMode
  AdoptStreak = 3
  GraceTicks = 2
  MaxAttempts = 2
  MaxPolls = 2
  MaxEvents = 3
SPECIFICATION Spec
PROPERTY UnsentSelectionKept
