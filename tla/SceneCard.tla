------------------------------ MODULE SceneCard ------------------------------
(***************************************************************************)
(* The "Game auto-switch" card of ui/pages/ThermalPage.cpp: a duration that is *)
(* edited in seconds or in minutes and saved in seconds, with the switch of    *)
(* the unit, the reset of the card and the reload of the page, which set the   *)
(* controls with their signals blocked.                                       *)
(***************************************************************************)
EXTENDS Naturals

CONSTANTS
  Minute, MaxMinutes,   \* 60 seconds, 10 minutes; 600 seconds is their product
  DefaultSeconds        \* of a fresh SceneParams

MaxSeconds == Minute * MaxMinutes
ASSUME DurationAssumption ==
  Minute \in Nat \ {0} /\ MaxMinutes \in Nat \ {0} /\ DefaultSeconds \in 1 .. MaxSeconds

VARIABLES
  sceneSaved,    \* [enabled, seconds] of the configuration
  sceneLive,     \* the parameters of the scene detector
  enabledBox,    \* the check box
  spin, unit,    \* the value and whether it is in "s" or "min"
  wasMin         \* the unit before the last switch

sceneVars == <<sceneSaved, sceneLive, enabledBox, spin, unit, wasMin>>

Bounded(lo, n, hi) == IF n < lo THEN lo ELSE IF n > hi THEN hi ELSE n
Range1(u) == 1 .. (IF u = "min" THEN MaxMinutes ELSE MaxSeconds)
SecondsShown(n, u) == n * (IF u = "min" THEN Minute ELSE 1)

Save(params) == sceneSaved' = params /\ sceneLive' = params

\* onConfigReloaded, its scene card: back to seconds.
ShowScene(params) ==
  /\ enabledBox' = params.enabled
  /\ unit' = "s" /\ wasMin' = FALSE
  /\ spin' = Bounded(1, params.seconds, MaxSeconds)

SceneInit ==
  /\ sceneSaved \in [enabled : BOOLEAN, seconds : 1 .. MaxSeconds] /\ sceneLive = sceneSaved
  /\ enabledBox = sceneSaved.enabled
  /\ spin = sceneSaved.seconds /\ unit = "s" /\ wasMin = FALSE

-----------------------------------------------------------------------------
\* onSceneParamsChanged: what is not edited is kept as saved.
Edit(n) ==
  /\ n \in Range1(unit) \ {spin} /\ spin' = n
  /\ Save([sceneSaved EXCEPT !.seconds = SecondsShown(n, unit)])
  /\ UNCHANGED <<enabledBox, unit, wasMin>>

UnitNow(u) == IF u = "s" THEN Minute ELSE 1                        \* mutant
\* The seconds one step of the spin box stood for before the switch away from u.
UnitBefore(u) == IF wasMin THEN Minute ELSE 1

\* lround(seconds / 60.0)
Rounded(seconds) == (2 * seconds + Minute) \div (2 * Minute)

\* The unit is switched: the value is converted, rounded to minutes, and saved.
SwitchUnit ==
  LET to == IF unit = "s" THEN "min" ELSE "s"
      seconds == spin * UnitBefore(unit)
      converted == IF to = "min" THEN Bounded(1, Rounded(seconds), MaxMinutes)
                   ELSE Bounded(1, seconds, MaxSeconds)
  IN /\ unit' = to /\ wasMin' = (to = "min") /\ spin' = converted
     /\ Save([sceneSaved EXCEPT !.seconds = SecondsShown(converted, to)])
     /\ UNCHANGED enabledBox

ToggleEnabled ==
  /\ enabledBox' = ~enabledBox /\ Save([sceneSaved EXCEPT !.enabled = enabledBox'])
  /\ UNCHANGED <<spin, unit, wasMin>>

\* "Reset to defaults" of the card keeps the check box; the whole page is then
\* reloaded (Pages).
ResetScene ==
  /\ Save([enabled |-> enabledBox, seconds |-> DefaultSeconds])
  /\ ShowScene([enabled |-> enabledBox, seconds |-> DefaultSeconds])

SceneStep == SwitchUnit \/ ToggleEnabled \/ \E n \in 1 .. MaxSeconds : Edit(n)

-----------------------------------------------------------------------------
\* The controls mean what is saved and what the detector uses.
SceneShown ==
  /\ sceneLive = sceneSaved /\ enabledBox = sceneSaved.enabled
  /\ SecondsShown(spin, unit) = sceneSaved.seconds
=============================================================================
