CONSTANTS
  Loads = {30, 57, 60}
  Settings <- MCSettings
  Curves <- MCCurves
  Temps = {39, 43, 60, 61, 96}
  Unreadable = Unreadable
  NoTemp = NoTemp
  NoTarget = NoTarget
  MostTicks = 4
  MaxEvents = 3
SPECIFICATION FairSpec
INVARIANT DisabledIsOut
PROPERTY EdgesAreDebounced
PROPERTY SpinDownLate
PROPERTY SteadyLoadSettles
