--------------------------- MODULE ControlTargets ---------------------------
(***************************************************************************)
(* What one tick of Controller::tickOnce wants: the policy chain             *)
(* (core/PolicyChain.cpp) over the baseline (core/BaselinePolicy.cpp) and    *)
(* the scene (core/SceneDetector.cpp, core/ScenePolicy.cpp), for one fan.    *)
(* How the targets are applied is ThermalControl's and FanControl's part.    *)
(*                                                                          *)
(* The detector debounces both edges of "a game is running" with one counter *)
(* and two thresholds; a listed process in the foreground counts as full     *)
(* load.  It is not run in monitor mode, nor while it is disabled.           *)
(***************************************************************************)
EXTENDS FanCurve

CONSTANTS
  Loads,        \* GPU utilisation, percent
  Settings,     \* scene parameters the page can save
  Curves,       \* fan curves the editor can save
  Temps,        \* temperatures of the fan's sensor
  Unreadable,   \* the sensor does not answer
  NoTemp,       \* no temperature seen yet
  NoTarget,     \* the firmware owns the fan
  MostTicks,    \* bound of the history: more ticks than any debounce counts
  MaxEvents     \* bound on changes of the settings

ASSUME SettingsAssumption ==
  \A s \in Settings : /\ s.enter \in Nat /\ s.exit \in Nat
                      /\ s.enterTicks \in 1 .. MostTicks /\ s.exitTicks \in 1 .. MostTicks

ASSUME MostTicksAssumption == MostTicks \in Nat

ASSUME CurveAssumption ==
  \A c \in Curves : /\ Valid(c) /\ IsFiniteSet(DOMAIN c) /\ DOMAIN c \subseteq Nat
                     /\ c \in [DOMAIN c -> 0 .. 100]

ASSUME TempAssumption ==
  /\ Temps \subseteq Nat /\ Unreadable \notin Temps /\ NoTemp \notin Temps
  /\ NoTarget \notin 0 .. 100 /\ MaxEvents \in Nat

VARIABLES
  passive,      \* m_passive
  custom,       \* the baseline mode is Custom
  enabled, settings,                \* SceneParams
  inScene, streak, trigger,         \* SceneDetector
  curve, lastTemp,                  \* FanConfig of BaselinePolicy
  load, process, temp,              \* the snapshot the next tick reads
  target,       \* the fan target of the last tick
  \* history
  hot, cold,    \* consecutive evaluated ticks with / without evidence of a game
  events

scene    == <<inScene, streak, trigger>>
snapshot == <<load, process, temp>>
history  == <<hot, cold>>
vars == <<passive, custom, enabled, settings, scene, curve, lastTemp, snapshot,
          target, history, events>>

TypeOK ==
  /\ passive \in BOOLEAN /\ custom \in BOOLEAN /\ enabled \in BOOLEAN
  /\ settings \in Settings /\ curve \in Curves
  /\ inScene \in BOOLEAN /\ streak \in 0 .. MostTicks
  /\ trigger \in {"none", "gpu", "process"}
  /\ lastTemp \in Temps \cup {NoTemp}
  /\ load \in Loads /\ process \in BOOLEAN /\ temp \in Temps \cup {Unreadable}
  /\ target \in (0 .. 100) \cup {NoTarget}
  /\ hot \in 0 .. MostTicks /\ cold \in 0 .. MostTicks
  /\ events \in 0 .. MaxEvents

-----------------------------------------------------------------------------
\* SceneDetector::onTick.

EnterEvidence == load >= settings.enter \/ process
SustainAtEnter == load > settings.enter \/ process                 \* mutant
SustainEvidence == load >= settings.exit \/ process

OutOfSceneKeepingStreak ==                                         \* mutant
  IF EnterEvidence /\ streak + 1 >= settings.enterTicks
  THEN inScene' = TRUE /\ streak' = streak + 1
       /\ trigger' = IF process THEN "process" ELSE "gpu"
  ELSE streak' = (IF EnterEvidence THEN streak + 1 ELSE 0) /\ UNCHANGED <<inScene, trigger>>
OutOfScene ==
  IF EnterEvidence /\ streak + 1 >= settings.enterTicks
  THEN inScene' = TRUE /\ streak' = 0 /\ trigger' = IF process THEN "process" ELSE "gpu"
  ELSE streak' = (IF EnterEvidence THEN streak + 1 ELSE 0) /\ UNCHANGED <<inScene, trigger>>

InScene ==
  IF ~SustainEvidence /\ streak + 1 >= settings.exitTicks
  THEN inScene' = FALSE /\ streak' = 0 /\ trigger' = "none"
  ELSE streak' = (IF SustainEvidence THEN 0 ELSE streak + 1) /\ UNCHANGED <<inScene, trigger>>

Counted(n, more) == IF ~more THEN 0 ELSE IF n < MostTicks THEN n + 1 ELSE n

OnTick ==
  /\ IF inScene THEN InScene ELSE OutOfScene
  /\ hot' = Counted(hot, EnterEvidence) /\ cold' = Counted(cold, ~SustainEvidence)

-----------------------------------------------------------------------------
\* BaselinePolicy::compute and the chain.

Falling == lastTemp # NoTemp /\ temp < lastTemp

\* The baseline follows its curve even while the scene overrides the mode.
Compute ==
  IF ~custom THEN UNCHANGED lastTemp
  ELSE lastTemp' = IF temp = Unreadable THEN lastTemp ELSE temp

FanTarget ==
  IF temp = Unreadable THEN 100 ELSE PercentFor(curve, temp, Falling)

\* A scene asks for G-Mode, in which apply drops every fan target.
Evaluate ==
  /\ Compute
  /\ target' = IF custom /\ ~inScene' THEN FanTarget ELSE NoTarget

Tick ==
  /\ IF passive
     THEN UNCHANGED <<scene, lastTemp, target, history>>
     ELSE /\ IF enabled THEN OnTick ELSE UNCHANGED <<scene, history>>
          /\ Evaluate
  /\ UNCHANGED <<passive, custom, enabled, settings, curve, snapshot, events>>

-----------------------------------------------------------------------------
\* Between ticks.

\* The machine: the load, the foreground process or the temperature moves.
Sample(l, p, t) ==
  /\ events < MaxEvents /\ events' = events + 1
  /\ <<l, p>> # <<load, process>> <=> t = temp
  /\ load' = l /\ process' = p /\ temp' = t
  /\ UNCHANGED <<passive, custom, enabled, settings, scene, curve, lastTemp, target, history>>

SetParamsKeeping(on, s) ==                                         \* mutant
  enabled' = on /\ settings' = s /\ UNCHANGED <<scene, history>>
\* setParams: disabling leaves the scene at once, since onTick no longer runs.
SetParams(on, s) ==
  /\ enabled' = on /\ settings' = s
  /\ IF on THEN UNCHANGED <<scene, history>>
     ELSE inScene' = FALSE /\ streak' = 0 /\ trigger' = "none" /\ hot' = 0 /\ cold' = 0

\* The user edits the game card.
EditScene(on, s) ==
  /\ events < MaxEvents /\ events' = events + 1
  /\ <<on, s>> # <<enabled, settings>>
  /\ SetParams(on, s)
  /\ UNCHANGED <<passive, custom, curve, lastTemp, snapshot, target>>

\* The user edits the curve: setFanCurve starts afresh.
SetFanCurve(c) ==
  /\ events < MaxEvents /\ events' = events + 1
  /\ c # curve /\ curve' = c /\ lastTemp' = NoTemp
  /\ UNCHANGED <<passive, custom, enabled, settings, scene, snapshot, target, history>>

SwitchMode(on) ==
  /\ events < MaxEvents /\ events' = events + 1
  /\ custom # on /\ custom' = on
  /\ UNCHANGED <<passive, enabled, settings, scene, curve, lastTemp, snapshot, target, history>>

SetPassive(on) ==
  /\ events < MaxEvents /\ events' = events + 1
  /\ passive # on /\ passive' = on
  /\ UNCHANGED <<custom, enabled, settings, scene, curve, lastTemp, snapshot, target, history>>

Init ==
  /\ passive = FALSE /\ custom \in BOOLEAN
  /\ enabled = TRUE /\ settings \in Settings
  /\ inScene = FALSE /\ streak = 0 /\ trigger = "none"
  /\ curve \in Curves /\ lastTemp = NoTemp
  /\ load \in Loads /\ process = FALSE /\ temp \in Temps
  /\ target = NoTarget /\ hot = 0 /\ cold = 0 /\ events = 0

Next ==
  \/ Tick
  \/ \E l \in Loads, p \in BOOLEAN, t \in Temps \cup {Unreadable} : Sample(l, p, t)
  \/ \E on \in BOOLEAN, s \in Settings : EditScene(on, s)
  \/ \E c \in Curves : SetFanCurve(c)
  \/ \E on \in BOOLEAN : SwitchMode(on) \/ SetPassive(on)

Spec == Init /\ [][Next]_vars

\* The 1 Hz timer.
FairSpec == Spec /\ WF_vars(Tick)

-----------------------------------------------------------------------------
\* Properties.

\* Both edges are debounced: a scene begins only after enterTicks consecutive
\* evaluated ticks with evidence of a game, and ends, unless it is disabled, only
\* after exitTicks consecutive ones without, although one counter serves both
\* edges and the settings may change while it runs.
EdgesAreDebounced ==
  [][/\ ~inScene /\ inScene' => hot' >= settings.enterTicks
     /\ inScene /\ ~inScene' /\ enabled' => cold' >= settings.exitTicks]_vars

\* Disabling the detector never leaves the machine pinned in G-Mode, and what it
\* had counted is gone when it is enabled again.
DisabledIsOut == ~enabled => ~inScene /\ streak = 0 /\ trigger = "none"

\* "Dual-threshold hysteresis": with the thresholds in order, a steady load
\* does not switch the machine in and out of G-Mode.
SteadyLoadSettles == [](settings.exit <= settings.enter) => <>[][inScene' = inScene]_vars

\* On a curve that never drops, rounding and hysteresis keep the fan at least as
\* fast as the curve asks for at the true temperature: it spins down late.
SpinDownLate ==
  [][Tick /\ target' # NoTarget /\ temp # Unreadable /\ NonDecreasing(curve)
       => target' >= PercentFor(curve, temp, FALSE)]_vars
=============================================================================
