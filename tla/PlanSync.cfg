CONSTANTS
  gmode = gmode
  balanced = balanced
  high = high
  bal = bal
  oem = oem
  copy1 = copy1
  copy2 = copy2
  HighModes <- MCHighModes
  BalancedModes <- MCBalancedModes
  Custom = custom
  DefaultMode = balanced
  NoMode = NoMode
  HighPlans <- MCHighPlans
  BalancedPlans <- MCBalancedPlans
  OtherPlans <- MCOtherPlans
  Copies <- MCCopies
  Recognised <- MCHighPlans
  NoPlan = NoPlan
  InitialPlans <- MCInitialPlans
  RefreshEvery = 2
  MaxGeneration = 2
  MaxFaults = 1
SPECIFICATION FairSpec
INVARIANT GateHeld
INVARIANT FreshIsWanted
INVARIANT IntentionStands
PROPERTY MonitorIsSilent
PROPERTY MintOnce
PROPERTY NewestWins
PROPERTY NoStrandedRequest
PROPERTY ChipTellsTruth
