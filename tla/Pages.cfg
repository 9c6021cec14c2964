CONSTANTS
  plan1 = plan1
  plan2 = plan2
  CustomMode = custom
  FactoryModes = {balanced}
  DefaultCurve <- MCDefaultCurve
  Reference <- MCReference
  MaxTemp = 3
  MaxPercent = 1
  Minute = 2
  MaxMinutes = 2
  DefaultSeconds = 1
  NewNames = {2}
  Watts = {1, 2}
  MaxProfiles = 2
  Plans = {plan1, plan2}
  NoPlan = NoPlan
  Toggles = {plansync, force}
  On = {plansync}
  DefaultMode = balanced
  MaxEvents = 4
SPECIFICATION MCSpec
INVARIANT ControlsShowConfiguration
INVARIANT CurveSound
INVARIANT AutostartIsTask
PROPERTY UnitKeepsDuration
PROPERTY PlanComboTellsTruth
