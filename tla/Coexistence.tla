---------------------------- MODULE Coexistence ----------------------------
(***************************************************************************)
(* The program beside AWCC: the control loop of ThermalControl composed with   *)
(* the watcher of ui/MainWindow.cpp, which decides every 4 s whether the loop  *)
(* may write, the two settings it depends on, and the two places that show     *)
(* and select the mode (tray menu and Thermal page), from start to Exit.       *)
(***************************************************************************)
EXTENDS ThermalControl

CONSTANTS
  TrayModes,    \* the modes the tray menu offers
  WatchPeriod   \* the most ticks that fit between two checks, jitter included (5)

ASSUME TrayAssumption == TrayModes \subseteq Mode /\ DefaultMode \in TrayModes
ASSUME WatchAssumption == WatchPeriod \in Nat \ {0}

VARIABLES
  life,      \* "starting", "running" or "exited"
  awcc,      \* a process of the official controller runs
  coexist, force,   \* awccCoexist, forceControl of the configuration
  paused,    \* the Dashboard shows "Monitoring only"
  phase,     \* ticks since the last check
  tray, radio,      \* the mode checked in the tray menu, and on the Thermal page
  wrong      \* history: ticks made in a row although passive should be the other value

shell == <<life, awcc, coexist, force, paused, phase, tray, radio, wrong>>
cvars == <<vars, shell>>

CInit ==
  /\ Init
  /\ life = "starting" /\ awcc \in BOOLEAN /\ coexist \in BOOLEAN /\ force \in BOOLEAN
  /\ paused = FALSE /\ phase = 0 /\ wrong = 0
  /\ radio = baseline /\ tray = IF baseline \in TrayModes THEN baseline ELSE NoMode

-----------------------------------------------------------------------------
\* The watcher.

ShouldBePassive == awcc /\ coexist /\ ~force

PauseOnly(should) == should /\ ~passive                            \* mutant
MustSwitch(should) == passive # should

CheckAwcc ==
  /\ IF MustSwitch(ShouldBePassive)
     THEN SetPassive(ShouldBePassive) /\ UNCHANGED events
     ELSE UNCHANGED vars
  /\ paused' = ShouldBePassive
  /\ phase' = 0
  /\ wrong' = IF passive' = ShouldBePassive THEN 0 ELSE wrong
  /\ UNCHANGED <<awcc, coexist, force, tray, radio>>

\* The main window is built, then the timer of the controller is started.
Start == life = "starting" /\ life' = "running" /\ CheckAwcc

\* The timer of 4 s fires after one tick more or less than four.
Watch == life = "running" /\ phase + 2 >= WatchPeriod /\ CheckAwcc /\ UNCHANGED life

-----------------------------------------------------------------------------
\* The loop, and what thermalModeChanged shows.

\* The tick wrote a mode, or adopted one.
WroteMode(read) == ~passive /\ lastWritten' # LastAfterAdoption(read)
Changed(read) ==
  IF WroteMode(read) THEN lastWritten' ELSE IF Adopts(read) THEN baseline' ELSE NoMode

InTray(m) == IF m \in TrayModes THEN m ELSE NoMode

TrayKeepsOwnMode(m) == IF m \in TrayModes THEN m ELSE tray         \* mutant
\* syncTrayModes: a mode the menu does not offer leaves it without a check.
SyncTrayModes(m) == InTray(m)

OnThermalModeChanged(m) ==
  IF m = NoMode THEN UNCHANGED <<tray, radio>> ELSE tray' = SyncTrayModes(m) /\ radio' = m

TickOnce ==
  /\ life = "running" /\ phase < WatchPeriod
  /\ \E read \in Mode \cup {NoMode}, accepted \in BOOLEAN :
       Tick(read, accepted) /\ OnThermalModeChanged(Changed(read))
  /\ phase' = phase + 1
  /\ wrong' = IF passive # ShouldBePassive THEN wrong + 1 ELSE 0
  /\ UNCHANGED <<life, awcc, coexist, force, paused>>

-----------------------------------------------------------------------------
\* The user.

\* A click on a tray item acts even if it is checked; a radio button only if it is not.
SelectInTray(m) ==
  life = "running" /\ SelectMode(m) /\ tray' = m
  /\ UNCHANGED <<life, awcc, coexist, force, paused, phase, radio, wrong>>

SelectOnPage(m) ==
  life = "running" /\ radio # m /\ SelectMode(m) /\ radio' = m
  /\ UNCHANGED <<life, awcc, coexist, force, paused, phase, tray, wrong>>

\* "Take control even when AWCC is detected": saved, and read by the next check.
TakeControl ==
  /\ life = "running" /\ Disturb
  /\ force' = ~force /\ did' = {} /\ adopted' = FALSE
  /\ UNCHANGED <<passive, baseline, lastWritten, failed, retry, age, adoption, inScene, probing,
                 firmware, beat, unsent, seen, life, awcc, coexist, paused, phase, tray, radio,
                 wrong>>

\* "Restore defaults": of the two places only the page listens to configReloaded.
ResetDefaults ==
  /\ life = "running" /\ ReloadFromConfig
  /\ coexist' = TRUE /\ force' = FALSE /\ radio' = DefaultMode
  /\ UNCHANGED <<life, awcc, paused, phase, tray, wrong>>

Scene == life = "running" /\ SceneFlips /\ UNCHANGED shell

\* "Exit" in the tray: the event loop ends and main stops the timer.
Exit ==
  /\ life = "running" /\ life' = "exited"
  /\ did' = {} /\ adopted' = FALSE
  /\ UNCHANGED <<passive, baseline, lastWritten, failed, retry, age, adoption, inScene, probing,
                 firmware, beat, events, unsent, seen, awcc, coexist, force, paused, phase, tray,
                 radio, wrong>>

-----------------------------------------------------------------------------
\* The other controller.

AwccStartsOrStops ==
  /\ life # "exited" /\ Disturb
  /\ awcc' = ~awcc /\ did' = {} /\ adopted' = FALSE
  /\ UNCHANGED <<passive, baseline, lastWritten, failed, retry, age, adoption, inScene, probing,
                 firmware, beat, unsent, seen, life, coexist, force, paused, phase, tray, radio,
                 wrong>>

External == life # "exited" /\ \E m \in Mode : ExternalChange(m) /\ UNCHANGED shell

CNext ==
  \/ Start \/ Watch \/ TickOnce \/ Exit
  \/ \E m \in TrayModes : SelectInTray(m)
  \/ \E m \in Mode : SelectOnPage(m)
  \/ TakeControl \/ ResetDefaults \/ Scene
  \/ AwccStartsOrStops \/ External

CSpec == CInit /\ [][CNext]_cvars

\* Both timers keep firing while the event loop runs.
CFairSpec == CSpec /\ WF_cvars(Start) /\ WF_cvars(Watch) /\ WF_cvars(TickOnce)

-----------------------------------------------------------------------------
\* Properties.

CTypeOK ==
  /\ TypeOK
  /\ life \in {"starting", "running", "exited"}
  /\ awcc \in BOOLEAN /\ coexist \in BOOLEAN /\ force \in BOOLEAN /\ paused \in BOOLEAN
  /\ phase \in 0 .. WatchPeriod /\ wrong \in Nat
  /\ tray \in TrayModes \cup {NoMode} /\ radio \in Mode

\* "While they run, the app switches to monitor-only ...; control resumes when they
\* close": however AWCC and the settings change, the loop makes no more ticks in the
\* wrong mode than fit between two checks, in either direction.
WrongForOnePeriod == wrong <= WatchPeriod

\* "Synced profile radios": in control and without a refused write, the tray menu and
\* the Thermal page end up showing the same mode, wherever it was selected.
RadiosAgree ==
  <>[](life = "running" /\ ~passive /\ failed = NoMode => tray = InTray(radio))

\* What the notification of the tray icon says: "Use Exit to quit and restore
\* Balanced mode."
ExitRestoresBalanced ==
  [][life = "running" /\ life' = "exited" => firmware' = DefaultMode]_cvars
=============================================================================
