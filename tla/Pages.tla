-------------------------------- MODULE Pages --------------------------------
(***************************************************************************)
(* The pages of the window over one configuration (core/ConfigStore.cpp): the   *)
(* curve editor and the scene card of the Thermal page, the two cards of the    *)
(* Performance page, the Settings page.  They meet where the configuration is   *)
(* cleared ("Restore defaults", which reloads every page), where the scene card *)
(* is reset (which reloads the Thermal page), where a mode is selected or        *)
(* adopted, and where the program is restarted.                                *)
(***************************************************************************)
EXTENDS CurveEditor, SceneCard, PowerProfiles, PlanList, SettingsPage

CONSTANTS
  DefaultMode,  \* of a cleared configuration
  MaxEvents     \* bound on what the user and others do

ASSUME PagesAssumption == DefaultMode \in FactoryModes /\ MaxEvents \in Nat

VARIABLES mode,   \* the saved mode
          events

pages == <<curveVars, sceneVars, profileVars, planVars, settingsVars>>
vars == <<pages, mode, events>>

Init ==
  /\ CurveInit /\ SceneInit /\ ProfilesInit /\ PlanListInit /\ SettingsInit
  /\ mode = shown /\ events = 0

Disturb == events < MaxEvents /\ events' = events + 1

-----------------------------------------------------------------------------
\* One page at a time.

OnCurve    == CurveStep /\ UNCHANGED <<sceneVars, profileVars, planVars, settingsVars, mode>>
OnScene    == SceneStep /\ UNCHANGED <<curveVars, profileVars, planVars, settingsVars, mode>>
OnProfiles == ProfilesStep /\ UNCHANGED <<curveVars, sceneVars, planVars, settingsVars, mode>>
OnPlans    == PlanUserStep /\ UNCHANGED <<curveVars, sceneVars, profileVars, settingsVars, mode>>
OnSettings == SettingsStep /\ UNCHANGED <<curveVars, sceneVars, profileVars, planVars, mode>>

\* onModeSelectedWithMode, or onModeAdopted: the mode is saved and the curve shown.
ModeChanges ==
  \E m \in FactoryModes \cup {CustomMode} :
    /\ m # mode /\ mode' = m
    /\ IF m = shown THEN UNCHANGED curveVars ELSE ShowMode(m)
    /\ UNCHANGED <<sceneVars, profileVars, planVars, settingsVars>>

-----------------------------------------------------------------------------
\* All the pages.

\* onConfigReloaded, its curve.
ReloadCurve(m, saved, inUse) ==
  /\ curve' = saved /\ live' = inUse /\ ShowCurve(m, saved) /\ UNCHANGED <<held, menu>>

DefaultScene == [enabled |-> TRUE, seconds |-> DefaultSeconds]

\* "Restore defaults" on the Settings page.  No menu is open and no button held: the
\* click is elsewhere.
RestoreDefaults ==
  /\ ~held /\ menu = NoMenu /\ ~popup
  /\ ResetSettings
  /\ mode' = DefaultMode
  /\ ReloadCurve(DefaultMode, DefaultCurve, DefaultCurve)
  /\ Save(DefaultScene) /\ ShowScene(DefaultScene)
  /\ LoadProfiles(<<>>)
  /\ UNCHANGED planVars

\* "Reset to defaults" on the scene card ends in onConfigReloaded of the Thermal page.
RestoreScene ==
  /\ ~held /\ menu = NoMenu /\ ~popup
  /\ ResetScene
  /\ ReloadCurve(mode, curve, live)
  /\ UNCHANGED <<profileVars, planVars, settingsVars, mode>>

\* Exit and start: every page is built from the configuration.
Restart ==
  /\ ~held /\ menu = NoMenu /\ ~popup
  /\ BuildCurve(mode, curve)
  /\ UNCHANGED sceneSaved /\ sceneLive' = sceneSaved /\ ShowScene(sceneSaved)
  /\ LoadProfiles(stored)
  /\ combo' = NoPlan /\ refreshing' = TRUE /\ listing' = "running" /\ selecting' = {}
  /\ UNCHANGED <<activePlan, popup>>
  /\ BuildSettings
  /\ UNCHANGED mode

User ==
  /\ Disturb
  /\ OnCurve \/ OnScene \/ OnProfiles \/ OnPlans \/ OnSettings
     \/ ModeChanges \/ RestoreDefaults \/ RestoreScene \/ Restart

Program(A) == A /\ UNCHANGED <<curveVars, sceneVars, profileVars, settingsVars, mode, events>>

Next == User \/ Program(PlanProgramStep)

\* The refresh timer fires, processes end or are killed, the user closes the popup, and
\* powercfg does not fail for ever.
Spec ==
  /\ Init /\ [][Next]_vars
  /\ WF_vars(Program(RefreshTimer)) /\ WF_vars(Program(ListReads))
  /\ SF_vars(Program(ListSucceeds))
  /\ WF_vars(Program(ListEnds)) /\ WF_vars(Program(ClosePopup)) /\ WF_vars(Program(PlanChosen))

-----------------------------------------------------------------------------
\* Properties, besides CurveSound, AutostartIsTask and PlanComboTellsTruth of the pages.

\* "After Restore defaults the switches, the scene card and the ranges agree with the
\* configuration", and so they do after every click, every change of mode and restart:
\* a control that shows something else would save it with the next click.
ControlsShowConfiguration == SettingsShown /\ SceneShown /\ ProfilesShown /\ CurveShown

\* Switching the unit rounds the duration but never turns it into another: "120 s, to
\* 2 min and back" is 120 s again.
UnitKeepsDuration ==
  [][unit' # unit =>
       \/ sceneSaved'.seconds < sceneSaved.seconds + Minute
          /\ sceneSaved.seconds < sceneSaved'.seconds + Minute
       \/ sceneSaved'.seconds = DefaultSeconds]_vars
=============================================================================
