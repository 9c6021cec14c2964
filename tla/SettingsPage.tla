----------------------------- MODULE SettingsPage -----------------------------
(***************************************************************************)
(* ui/pages/SettingsPage.cpp: toggle buttons over the configuration, the log    *)
(* level (core/Logger.cpp), and "Start with Windows", which is a scheduled task *)
(* that schtasks creates or deletes within a time limit (core/Autostart.cpp).   *)
(***************************************************************************)
EXTENDS Naturals

CONSTANTS Toggles, On    \* the plain toggles, and those that are on by default (plan sync)

ASSUME ToggleAssumption == On \subseteq Toggles

VARIABLES
  settings,   \* the toggles of the configuration
  buttons,    \* the ones that are checked
  autostart, autostartButton,
  task,       \* the scheduled task exists
  told,       \* history: schtasks told what it did, and nobody else touched the task
  logLevel, logCombo, minLevel   \* configuration, combo box, g_minLevel

settingsVars == <<settings, buttons, autostart, autostartButton, task, told, logLevel, logCombo,
                  minLevel>>

Levels == 0 .. 3
Info == 1

SettingsInit ==
  /\ settings = On /\ buttons = On
  /\ autostart \in BOOLEAN /\ autostartButton = autostart /\ task = autostart /\ told = TRUE
  /\ logLevel = Info /\ logCombo = Info /\ minLevel = Info

-----------------------------------------------------------------------------
\* Autostart::setEnabled.

\* One schtasks command that makes task equal to on: it is done, or it fails, or it is
\* not finished in time and killed, done or not.
Schtasks(on, ok, t, heard) ==
  \/ ok /\ t = on /\ heard
  \/ ~ok /\ t = task /\ heard
  \/ ~ok /\ t = on /\ ~heard

\* Deleting a task that is not there fails.  A failed XML import is followed by a
\* creation from the command line.
SetEnabled(on, ok) ==
  \E heard \in BOOLEAN :
    /\ on \/ ~ok \/ task
    /\ Schtasks(on, ok, task', heard)
    /\ told' = (told /\ (heard \/ task' = task))

SavesTheWish(on, ok) == on                                         \* mutant
ActualAutostart(on, ok) == IF ok THEN on ELSE autostart

OnAutostartToggled ==
  \E ok \in BOOLEAN :
    /\ SetEnabled(~autostartButton, ok)
    /\ autostart' = ActualAutostart(~autostartButton, ok) /\ autostartButton' = autostart'
    /\ UNCHANGED <<settings, buttons, logLevel, logCombo, minLevel>>

-----------------------------------------------------------------------------
Toggle(t) ==
  /\ buttons' = (buttons \ {t}) \cup ({t} \ buttons) /\ settings' = buttons'
  /\ UNCHANGED <<autostart, autostartButton, task, told, logLevel, logCombo, minLevel>>

OnLogLevelChanged(level) ==
  /\ level # logCombo
  /\ logCombo' = level /\ logLevel' = level /\ minLevel' = level
  /\ UNCHANGED <<settings, buttons, autostart, autostartButton, task, told>>

\* A cleared configuration has no autostart, so it is saved again if the task stayed.
AutostartAfterReset(removed) == ~removed /\ autostart

\* onResetDefaults and, of configReloaded, the buttons.
ResetSettings ==
  \E ok \in BOOLEAN :
    /\ IF autostart THEN SetEnabled(FALSE, ok) ELSE ok /\ UNCHANGED <<task, told>>
    /\ autostart' = AutostartAfterReset(ok) /\ autostartButton' = autostart'
    /\ settings' = On /\ buttons' = On
    /\ logLevel' = Info /\ logCombo' = Info /\ minLevel' = Info

\* The page is built from the configuration; the logger has started at its own level.
BuildSettings ==
  /\ buttons' = settings /\ autostartButton' = autostart /\ logCombo' = logLevel
  /\ minLevel' = Info
  /\ UNCHANGED <<settings, autostart, task, told, logLevel>>

\* Somebody deletes the task.
TaskDeleted ==
  /\ task /\ task' = FALSE /\ told' = FALSE
  /\ UNCHANGED <<settings, buttons, autostart, autostartButton, logLevel, logCombo, minLevel>>

SettingsStep ==
  \/ OnAutostartToggled \/ TaskDeleted
  \/ \E t \in Toggles : Toggle(t)
  \/ \E level \in Levels : OnLogLevelChanged(level)

-----------------------------------------------------------------------------
SettingsShown == buttons = settings /\ autostartButton = autostart /\ logCombo = logLevel

\* "Start with Windows" says whether the task is there, through every failure, reset
\* and restart, as long as schtasks says what it did and nobody else deletes the task.
AutostartIsTask == told => (autostart <=> task)
=============================================================================
