# Dell Toolbox: a TLA+ model, checked and proved

Dell Toolbox (C++/Qt) controls the thermal mode, the fans, the Windows power plan
and the charging mode of Dell and Alienware laptops. It shares the machine with
AWCC and Dell Power Manager, which change the same things behind its back, and
with a firmware that refuses writes and sometimes reads back the wrong profile.
Its logic is one single-threaded event loop with many sources of events: a 1 Hz
timer, a 4 s watcher, clicks, debounce timers, and `powercfg` processes whose
answers arrive in any order or not at all. What can go wrong are sequences: a
late answer that acts for an obsolete wish, an adoption that undoes a click, a
remembered fan speed that is no longer true. This directory models these
sequences, checks them with TLC and proves the central results with TLAPS.

Paths below are relative to `src/src/` unless they say otherwise.

## Inventory

| Part | State | Operations | Interacts with | Where it is hard | Here |
|---|---|---|---|---|---|
| Power-plan chain (`core/Controller.cpp:29-52, 275-438`) | gate, generation, wanted mode, queued flag, minted plan, chip; processes in flight | handlePlanSync, beginPlanChain and its continuations, refreshActivePlanName, setActivePlan | mode writes, Performance page, Settings, Windows | interleaved processes, stale continuations, failures, a copy minted twice | PlanSync, LatestRequest |
| Mode writes and adoption (`core/Controller.cpp:104-273, 440-477`) | baseline, last written, failed, pending, attempts, streak, grace time, passive | tickOnce, adoptExternalProfile, apply, setPassive, forceNextModeWrite, reloadFromConfig | firmware, AWCC, scene, pages | own writes racing foreign ones, flaky readback, retries | ThermalControl |
| Thermal HAL (`hal/win/WinThermalHAL.cpp`, `WmiConnection.cpp`, `hal/ModeWriteProbe.h`) | Balanced latch, candidate, reads and matches, probe timer | setMode, pollPendingModeWrite, cancelPendingModeWrite, callInstanceMethod | the loop, AWCC's WMI class | accepted is not retained, a walk over several ticks, superseded requests, dead instances | ThermalHal |
| Fan writes and minimum speeds (`core/Controller.cpp:478-508`, `ui/pages/ThermalPage.cpp:260-376, 529-540`) | boosts, forced rewrites, remembered speeds, throttle; sliders, saved values, debounce | apply, setFanBoost, saveBoosts, resets | firmware, configuration | stale memory against dead zone, partial failure, lost saves | FanControl |
| Targets: scene, policies, curves (`core/SceneDetector.cpp`, `PolicyChain.cpp`, `BaselinePolicy.cpp`, `FanCurve.cpp`) | in scene, streak, last temperature | onTick, setParams, compute, evaluate, percentFor | snapshot, Thermal page | debounce of two edges with one counter, rounding, hysteresis | ControlTargets, FanCurve |
| Dell ACPI channel, DPM service (`hal/win/DellAcpiChannel.cpp`) | validity, transport, buffer length | initialize, execute, GET and SET | BIOS, Dell Power Manager | two transports, a length found by trying, never revised | DaChannel |
| Charging modes (`hal/win/WinChargeHAL.cpp`, `ui/pages/BatteryPage.cpp`, `core/Controller.cpp:237-248`) | backend, last mode, buttons, thresholds | setMode, modes, choose, poll | DA channel, cctk, Battery page | a list read again between display and click, lost answers | Charging |
| Coexistence (`ui/MainWindow.cpp:115-263`, `main.cpp:274-325`) | passive, coexist, force, tray mode | 4 s watch, tray and page selections, start, Exit | the loop, AWCC, configuration | writes beside AWCC until the next check; two places that show one mode | Coexistence |
| Curve editor (`ui/widgets/FanCurveEditor.cpp`, `ui/pages/ThermalPage.cpp:298-515`) | points, drag, menu | press, move, release, menu items, reset | Thermal page, baseline policy | the curve is swapped under a drag or a menu | CurveEditor |
| Scene card (`ui/pages/ThermalPage.cpp:388-582`) | duration, its unit | edit, switch the unit, reset, reload | scene detector | controls that save while others are being set | SceneCard |
| Performance page (`ui/pages/PerformancePage.cpp`) | plan list, drafts of power profiles | refresh, choose; new, rename, save, delete | powercfg, configuration | a list read before a selection and shown after it, rows found by name | PlanList, PowerProfiles |
| Settings page, autostart, logger (`ui/pages/SettingsPage.cpp`, `core/Autostart.cpp`, `core/Logger.cpp`) | toggles, scheduled task, log level | toggle, restore defaults | Task Scheduler, every page | schtasks fails or is killed half way through a reset | SettingsPage |
| Configuration store (`core/ConfigStore.cpp`) | the ini file | save and load of each setting, clear | every page | each page's memory of what is saved | Pages and its parts |
| Release workflow (`src/scripts/release.py`, `build.yml`) | refs, plan file, release | prepare, finalize, publish | GitHub, developers | runs that die between steps, re-runs, commits and tags pushed meanwhile | Release |
| Manual override, dynamic policy | | | | not reachable: no page sets one, the other is kept out of the chain | no |
| Dashboard, widgets, theme, read-only HALs, diagnostics, mock | | | | presentation and I/O | no |

What makes each part correct: the plan chain serves the newest request and no
other, always frees its gate, and is silent in monitor mode; the loop agrees with
the firmware in the end, without undoing the user or fighting AWCC; a mode the
HAL calls verified is one the machine keeps; the fans obey the last request
although nothing is read back; targets are debounced and never below the curve; a
charging button writes the mode it names; the watcher is late by one period at
most; and what a page shows is what is saved, because the next click saves it.

## Modules

| Module | Models | Composition |
|---|---|---|
| `LatestRequest` | the promise of the plan chain: a mailbox of one request, the newest wins | abstract specification |
| `PlanSync`, `MCPlanSync` | the power-plan chain | refines `LatestRequest` |
| `ModeWriter` | the mode half of `IThermalHAL`: writes, refusals, a verification of so many polls | abstract specification |
| `ThermalControl`, `MCThermalControl` | mode writes, adoption, monitor mode | uses `ModeWriter`, and refines it |
| `ThermalHal`, `MCThermalHal` | the bytes of a mode write and the verification of Performance | refines `ModeWriter` |
| `FanControl` | fan writes, boosts, their sliders and persistence | |
| `FanCurve` | the curve as a pure function | used by `ControlTargets` |
| `ControlTargets`, `MCControlTargets` | scene detector, policies, fan target | |
| `Coexistence`, `MCCoexistence` | watcher, its settings, tray menu, start and Exit | extends `ThermalControl`, whose actions it takes |
| `DaChannel` | which transport and length the DA channel settles on | part of `Charging` |
| `Charging`, `MCCharging` | charging backend, Battery page, poll | extends `DaChannel` |
| `CurveEditor`, `SceneCard`, `PowerProfiles`, `PlanList`, `SettingsPage` | one card or page each | parts of `Pages` |
| `Pages`, `MCPages` | the pages over one configuration: resets, changes of mode, restarts | composes the five |
| `Release` | prepare, finalize, publish, the concurrency group, developers | independent of the program |
| `PlanSyncProofs`, `ThermalControlProofs`, `ThermalHalProofs`, `FanControlProofs`, `ControlTargetsProofs`, `ChargingProofs`, `PagesProofs`, `ReleaseProofs` | the theorems | each extends the module it is about, `ThermalControlProofs` extends `Coexistence` |

The event loop is single-threaded, so one handler is one action. The modules slice
the one `Controller::tickOnce` by the state they are about; what a slice needs of
the others it takes as a choice that allows at least what they do (in
`ThermalControl` a scene flips at will, in `FanControl` an adoption may come at
any tick it is permitted in, in `ThermalHal` the target changes at will).

**PlanSync.** `procs` are the `powercfg` processes of `runPowerCfg`, each with the
chain it belongs to, its command, the generation it was started for and its state.
A process runs (`Execute`, which changes Windows), may fail, hang until its 10 s
kill, or exit with success and an output nothing is recognised in (`Fail`), and its callback is delivered later (`Deliver`), so
that anything may happen between the effect and the callback. A process that fails
to start may call back at once: that is `Fail` followed at once by `Deliver`.
`Deliver*` are the continuations of `beginPlanChain`, each with its generation
test. Variables: `busy`, `generation`, `queued`, `wanted`, `minted`, `chip` are
`m_planBusy`, `m_planGeneration`, `m_planQueuedRequest`, `m_planWanted`,
`m_mintedHighGuid`, `m_planActiveName`; `installed` and `active` belong to
Windows. The refinement maps the generation of the sync process in flight to
`serving` and its command to `stage`. `promised`, `rivals` and `faults` are history.

**ThermalControl.** `Tick` is `tickOnce`: `AdoptExternalProfile`, then in monitor
mode nothing more, else the chain's target and the mode half of `apply`. A tick
is 1000 ms; times are counted in ticks and jitter is left out. The readback may be
the firmware's profile, a wrong one or none. A refused
write may have taken effect all the same. `unsent` and `seen` are history: the
selection no write has carried yet, and the run of equal readings with how many of
them came on the last ticks without a gap. `candidate` is
kept as `NoMode` while the streak is 0, where the code never reads it. The saved
mode always equals the baseline and has no variable. The thermal HAL is the
`ModeWriter` instance `Hal`, whose mode asked for is the chain's `Target` and whose
polls left are `probing`: `apply` takes `Hal!Accepted`, `Hal!Refused`, `Hal!PollGoesOn`
and `Hal!PollEnds`.

**ModeWriter.** What the interface (`hal/HalInterfaces.h:25-30`) lets a controller rely on:
polls end, a poll writes only for the mode asked for, and a new request cancels the
last. It does not promise that a refused write changed nothing, nor that nobody else writes.
`ThermalHal` implements it (`KeepsWriterPromise`: the polls left are three for each table
not tried yet, less the reads made), and `ThermalControl` behaves as its user
(`UsesHalProperly`), so what `ThermalControl` leaves of a verification is what the tables,
codes and lost calls of `ThermalHal` amount to.

**FanControl.** The fan half of `apply`, with two modes, Custom and "bios". `last`
is what the controller believes, `hw` what the fan does; a refused write leaves
the fan alone. `early` is a clock that shows less than a second since the last write
(`stamped`: there is one to count from), by timer jitter or because the wall clock was
set back, however long ago that write was.
A profile that another program changes while Custom is active is not noticed by
the program, on purpose (`Controller.cpp:197-203`), and is left out here. What the
new curve asks for after a reset of the curves is a `CurveMoves`. `Restart` is an
orderly exit and a start.

**FanCurve, ControlTargets.** A curve is a function from temperatures to
percentages, which is what `setPoints` keeps of a valid list; division truncates
towards zero as in C++. One fan; the foreground process is listed or it is not.
`hot` and `cold` are history.

**ThermalHal.** A code is a profile byte of `modeFromProfileCode`. A machine is the set
`accepts` of codes whose call answers 0 and the set `retains` of those it keeps: an
accepted code that is not retained is replaced by `Home` within `MaxHold` half
seconds. `Circumstances` of a handler are the order in which WMI enumerates the
instances, the code whose call is lost, and whether it took effect although its answer
was lost (`took`); `CallInstanceMethod` asks until one answers. `Foreign` is a profile
another program or a hotkey writes, during a verification too. `SetMode` is one action
with all the codes it sends (`sent`):
`balancedUstt` latches on the first Balanced write, `Walk` sends Performance tables
until one is accepted, `PollPendingModeWrite` judges it after three reads at most,
500 ms apart (`rested`), and walks on. `Tick` is the mode half of `apply`, `Select`
is `forceNextModeWrite`, `Adopt` a profile adopted while nothing is verified.
`verdict`, `clean` and `echoed` are history. One half second is finer than a tick, so that a
code may be dropped between two reads.

**DaChannel, Charging.** `platform` is what the machine offers: a service that is
absent, rejects every call (as the code assumes of a rejection) or answers at some
lengths; a BFn class without the wanted instance or with it and its one length;
descriptors that can be enumerated or not; G-Mode active or not. `Initialize` is the whole of `initialize`, the
service first, then BFn; what it leaves behind when both fail is modelled too.
`Start` chooses the backend as the constructor does and builds the page.
`OnModeChosen` looks the number of a button up in the list as it is read at the
click (`ModesOnClick`), writes, and reads back what to show after a refusal; each
of its three calls may be lost, and a write whose answer is lost may have been
carried out. At start the mode and the list are two reads, lost one by one. A BIOS
password may block what `cctk` reads, what it writes, or both. `Named` says which
modes have a name here: over the channel a byte that `acpiModeToKey` does not know reads
as nothing. `KeepGap` is the pair of sliders. `Poll` is the charging half of
`tickOnce`. `wrote` and `listHeard` are history.

**Coexistence.** `CheckAwcc` is the lambda of `MainWindow.cpp:117`, run at start and then
by `Watch`; `phase` counts the ticks since, at most `WatchPeriod` of them, because
both are timers of one event loop. Of a 1 s timer and a 4 s timer that is five ticks,
since the jitter of the two can fit a fifth one in. `TickOnce` is `ThermalControl`'s tick with
`thermalModeChanged`, which both `tray` and `radio` follow; a selection updates only
the place it was made in, the other follows the write. `TakeControl` only saves a
setting, as in the code: the next check reads it. `wrong` is history.

**CurveEditor.** `points` are what the editor shows; `curve` is the configuration's and
`live` the policy's. A menu is opened with what it captured (`hit` or `point`) and
acts later, on the list of then. `drag` survives a removal, as `m_dragIndex` does; when it
then lies behind the end of the list, the code writes out of range, which touches nothing
of the model, and such a move is left out.
A disabled editor gets neither mouse nor menu events (Qt), and `ShowMode` may come
at any moment, since an adopted profile changes the mode.

**SceneCard, PowerProfiles, PlanList, SettingsPage.** Durations are seconds, a minute
is a constant; `SwitchUnit` converts with the rounding of `lround` and saves. Profile
names are numbers ("Profile n") or typed ones, both limits are one slider. The list
process has read a plan (`listing`) before its answer is delivered; selections run
beside it. `Schtasks` succeeds, fails, or is killed after the task was changed
(`told`).

**Pages.** One variable of the configuration per setting lives with its page; `Pages`
adds the mode and the operations that touch several: `RestoreDefaults` clears,
reloads and saves in the order of `onResetDefaults`, `RestoreScene` ends in the
Thermal page's `onConfigReloaded`, `ModeChanges` swaps the curve, and `Restart`
builds every page from what was saved.

**Release.** `history` is `origin/main`, oldest first; it is never force-pushed, so the
parent of commit `c` is `c - 1`. A commit keeps what the script reads of it: the
version (the three files agree, or `version()` refuses), `DTB-Release-Base`, whether
only `RELEASE_FILES` changed, the sections of `CHANGELOG.md`; `content` names the code
it carries and `log` what its own section lists. `active.plan` is the plan file, with
`built`, the source the gates are run on; `head` becomes `release_sha` in `Push`. Mode
and refusals of `prepare` are the sets `TagPlans`, `BranchPlans` and so on: an empty set is
a `require` that fails. `ls-remote` and `fetch` of one command are one moment; finalize's
check and its push are two; publish's check, its create or edit of the release
(`OpenRelease`) and its upload of the files are three, and a release that is not public
yet or lacks files is `Partial`. `Enqueue` is GitHub's
concurrency group: one run, one waiting, a newer one replaces the latter. Developers
push commits (with a version set by hand, or a cherry-picked release commit), push
new tags on any commit, dispatch and re-run. They do not delete or move tags, and
dispatches from other branches, which `prepare` refuses, are left out.

## Runs

| Run | Asks | Bounds |
|---|---|---|
| `plan_sync` | safety of the chain, the refinement, no request stranded, the chip becomes true | two modes with different plans, 3 plans and 2 copies, 2 generations, 1 fault |
| `thermal` | safety and convergence of the loop | 4 modes, grace 2 ticks, 2 retries, 2 polls, 3 disturbances |
| `thermal_hal` | the walk over Performance tables and its verification | every machine over 3 modes, 2 WMI instances (one dead), 2 disturbances (requests, lost calls, foreign writes) |
| `fans` | memory, floor, persistence, arrival of the last boost | 2 fans, 3 speeds around a dead zone of 2, 4 disturbances |
| `targets` | edges, disabling, steady load, curve arithmetic | 2 settings, 2 curves, 5 temperatures, debounces up to 4, 3 changes |
| `charging` | the channel found, the mode written, the mode shown | 3 modes and 2 that only others set, one of them unnamed, every platform or every machine, 2 disturbances |
| `coexistence` | lateness of the watcher, agreement of tray and page | 4 modes, 3 of them in the tray, 2 ticks between checks, 3 disturbances |
| `pages` | controls, curve, drafts, task, duration, plan list | 4 temperatures, 2 percentages, minute of 2 s, 2 plans, 2 profiles, 4 user steps |
| `release` | what is published, main with its tag, changelog, retries | patches up to 3, 2 pushes, 1 tag by hand, 1 dispatch, 1 failure |
| `unsent_selection`, `adoption_debounce`, `exit_balanced` | find a violation, see Findings | as `thermal`, `thermal` and `coexistence` |

Why the bounds suffice. `MaxGeneration = 2` lets a request be superseded while its own
answer is still to come; every test in the code compares a generation with the newest
only, each of the eight mutants of the chain already fails there, and the safety
properties are proved for every bound. One fault per run, at every
place; two faults in one chain end it no differently. A copy of High Performance is
not recognised by name in the runs, as under a display language that is neither
English nor Chinese, because only then `m_mintedHighGuid` matters; the name is
refreshed every 2 ticks instead of 5. In `ThermalControl` the adoption count is
the code's 3; grace and retries are shortened, each still being longer than one
tick; 3 disturbances cover a selection, a foreign change and a scene or monitor
mode between the readings. Speeds 0, 1 and 3 with the dead zone 2 are one pair
inside it and two outside. Temperatures lie on, between and outside the points,
and 60/61 across one; the debounces are 2 and 3 instead of 10 and 30, and the
settings include an exit threshold above the enter threshold, which the page
accepts.

`thermal_hal` keeps the code's three tables, two reads to confirm and three to give
up; only requests, lost calls and foreign writes are bounded. Two instances in both orders are
enough for a search that stops at the first answer. In `charging` the service
lengths are one that suits everything, a larger one and the short last resort;
`MCInit` takes every platform with one machine and every machine with two
platforms, because the page depends on the platform only through whether a request
gets through. In `coexistence` a session begins with Balanced saved and G-Mode in
the firmware, the program gives way to AWCC and AWCC is not running, adoption takes 2 readings and the grace is one tick: the questions are
about the watcher and the two places, and `thermal` has the longer counts. Two ticks between checks
stand for five: the lateness is proved for every `WatchPeriod`. In
`pages` 4 temperatures allow a drag between two neighbours and one point more or
less; four user steps are a drag, a menu, an adoption and a release in any order,
and `MCInit` starts from a common configuration, from which the steps reach others.
The duration, the task and the controls are proved without these bounds.

`MaxEvents`, `MaxFaults` and `MaxGeneration` bound disturbances only; ticks and
answers are never bounded. In `release`, two pushes give a base, a competitor while
its run is in flight, and the commit that comes after the release; one tag by hand
takes the next version, lies on any commit or is no version at all; one failure at
any step is enough to need a retry, and retries themselves are not bounded.

Deadlock is checked for the program: its timer never stops. Two modules may come to
rest, so their runs do not check it: the release workflow, and `Coexistence`, in which
Exit ends the program.

**Fairness.** Weak fairness of the tick (`QTimer` fires while the program runs), of
the watcher and the refresh timer (the same), of the half second of the probe (time
passes), of the end of a process (`runPowerCfg` kills it after 10 s), of its callback
(the event loop delivers it) and of the boost's single-shot timer. Writes may be
refused, readings may be wrong and processes may fail as the bounds allow; no
fairness is assumed for other programs, nor for the user but that he closes a list
he opened. In `thermal` a refusal needs no disturbance, so convergence holds with a
firmware that refuses for ever; `beat` makes each tick a step, without which fairness
would exclude the behaviour in which every tick is refused and changes nothing. In
`fans` a refusal, an early clock and an adoption are disturbances, bounded by
`MaxEvents`: with a fan that refuses for ever nothing could arrive. So are lost calls
in `charging`, whose fair poll is one that is heard, and in `thermal_hal`. In `pages`,
`powercfg /list` may fail any number of times but not for ever (strong fairness of
`ListSucceeds`): a combo box whose list never arrives cannot tell the truth. In
`release`, weak fairness of the steps of a run (a failure is a disturbance), of the
start of the waiting run, and of the maintainer who re-runs a failed run while its
release is pushed and unpublished, as the repository's `README.md:104` tells him to.

### What the runs check

- `plan_sync`: `GateHeld` (the gate is taken exactly while one process of one chain is
  in flight), `FreshIsWanted` (a continuation that passes its test serves the newest
  mode with the sync on and outside monitor mode, though it looks at a number only),
  `MonitorIsSilent`, `MintOnce`, `IntentionStands` (when all is quiet the active plan is one
  the newest intention accepts), `NewestWins` (the refinement), `NoStrandedRequest`, `ChipTellsTruth`.
- `thermal`: `MonitorOwnsNothing`, `AdoptionIsRepeated` (the last three readings all showed
  the profile that is adopted; in monitor mode they are of consecutive ticks, in control
  they need not be, see Findings), `PendingSelectionKept`, `AdoptionIsNotFought`,
  `BannerIsHonest` (the failure banner never names the mode written or adopted last; a
  refused mode that another program then sets keeps its banner), `ViewConverges`.
- `thermal_hal`: `VerifiedIsRetained` (a verification ends in favour of a table only if the
  machine keeps it, or another program wrote the same table meanwhile),
  `NoTableIsSkipped` (who gives up has tried every table),
  `KeepsWriterPromise` (codes, tables and lost calls implement the mode writer of the
  interface: no poll writes for a mode that is no longer asked for, each brings the end
  nearer),
  `VerificationEnds` (while it lasts no profile is adopted, so it must).
- `fans`: `KnownIsTrue`, `FloorIsHonoured`, `UnsavedIsPendingOrDropped`,
  `BoostReachesHardware`.
- `targets`: `DisabledIsOut`, `EdgesAreDebounced`, `SpinDownLate`, `SteadyLoadSettles`.
- `charging`: `ChannelIsFound` (if a transport carries charging requests in some buffer, the
  channel gets them through; "carries" is about charging requests, not about the thermal
  request the channel is probed with, and the three cases in which that probe misleads
  are named in `ChannelWorks`), `ChosenIsWritten` (a button writes the mode it names, unless
  just one of the two readings of the list, at start and at the click, was lost),
  `ChargingConverges` (the mode shown becomes the firmware's, whoever set it, if it can be
  read and has a name).
- `coexistence`: `WrongForOnePeriod` (the loop makes no more ticks in the wrong mode than
  fit between two checks), `RadiosAgree` (tray and page end up showing one mode).
- `pages`: `ControlsShowConfiguration`, `CurveSound` (what is saved is a valid curve and the
  one the fans follow), `AutostartIsTask`, `UnitKeepsDuration`, `PlanComboTellsTruth`.
- `release`: `ReleasesAreTheirTags` (what is published under a version was built from its
  tag and reports that version), `ReleaseCommitsAreTagged` (main and tag move together,
  also when a developer takes the tag between check and push), `ChangesAreLogged` (no
  version for nothing or twice, each change listed once unless a developer's tag hides
  it), `PushedIsPublished` (a retry finishes what was pushed, with all its files).

Type invariants are in no run. Those of `PlanSync`, `ThermalControl`, `Coexistence`,
`ThermalHal`, `FanControl`, `ControlTargets` and `Release` are proved. `TypeOK` of
`Charging` says what values its variables take, and TLC finds it true when it is added
to its run; the channel, the lists and the sliders are typed by the invariants of
`ChargingProofs`, the parts of `Pages` by those of `PagesProofs`, as far as their theorems
need. `FansOnlyInCustom`, `WaitingIsLive`, `SupersededStaysSilent` and `UsesHalProperly`
are proved and in no run: TLC found each of them true on the runs' instances before.
Definitions marked "mutant" are plausible bugs (a dropped test, a missing reset, a
wrong order); nothing uses them: put in the place of the definition after them, each
makes one property fail.

## Findings

1. `unsent_selection`: while a scene holds G-Mode, the scene's own write clears the
   pending mark of a selection that was never sent (`core/Controller.cpp:465`, or `:473`
   after five refusals), and a foreign profile is adopted over it, against `:180-182`.
2. `exit_balanced`: after Exit, `main.cpp:324` only stops the timer and the firmware stays
   in the mode it is in, against "Use Exit to quit and restore Balanced mode"
   (`ui/MainWindow.cpp:312`) and the smoke test (`docs/checklists/win-smoke.md:41` of the
   repository).
3. `adoption_debounce`: while a write is pending or recent, `adoptExternalProfile` returns
   before it reads (`core/Controller.cpp:186-189`) and the streak keeps its value, so a
   reading from before a selection and two from after it adopt a profile, against
   "STABLE for 3 consecutive ticks" (`:206`) and "consecutive ticks of the same external
   mode" (`core/Controller.h:144`).

Behaviour met while modelling that a reader should know; the models contain it, and
the properties are stated so that they hold with it:

- A `/setactive` of the automatic mapping that already runs when the user picks a plan
  may land after the user's (`core/Controller.cpp:429`); `IntentionStands` excepts it.
- A `powercfg /list` that succeeds with nothing readable in it is taken for an empty list:
  where High Performance is wanted the chain goes on to `-duplicatescheme`, although a plan
  of that kind may be installed (`core/Controller.cpp:310-362`).
- "Reset to defaults" of the game card within 400 ms of a boost change marks the boost
  as saved (`ui/pages/ThermalPage.cpp:535`); `UnsavedIsPendingOrDropped` names it.
- Cooling by 1 degree may ask for a faster fan, since the hysteresis is added to the
  new temperature (`core/FanCurve.cpp:50`).
- The changelog starts after the nearest tag `v*`, also one that was never a version
  (`scripts/release.py:108`); `ChangesAreLogged` excepts what a developer's tag hides.
- The saved log level is not applied at start, only shown (`main.cpp:238`);
  `SettingsPage` has `minLevel` apart from `logLevel`.
- In monitor mode, or while a write is refused, tray and page may show different modes:
  each selection marks its own place at once. `RadiosAgree` is about control.
- A profile that another program writes while it is being verified is taken for the
  program's own if it is the same table; `VerifiedIsRetained` excepts it.
- One lost call on the first Balanced write latches the legacy code for the session
  (`hal/win/WinThermalHAL.cpp:165-168`).
- A channel is valid as soon as any BFn instance exists (`hal/win/DellAcpiChannel.cpp:113`),
  but calls need the one named `ACPI\PNP0C14\0_0`; without it, and where `WMI_Query` cannot
  be enumerated and 128 is the wrong length (`:183`), no charging request succeeds and
  `cctk` is not tried. On the first of these machines BFn carries no request, so
  `ChannelWorks` asks nothing of it; the second is its `query`.
- With G-Mode active at start, a service that would carry charging requests is refused,
  because it is probed with a thermal request that G-Mode makes fail (`:96-104`; the comment
  at `:194-196` says so of BFn). The session then has BFn, `cctk` or nothing.
- A service that answers only in buffers too short for a battery request passes the same
  probe and hides a BFn that would do.
- A charging mode whose byte has no name here reads as nothing, so the page and the
  Dashboard keep showing the mode before it (`hal/win/WinChargeHAL.cpp:136-143`).
- If just one of the two readings of the list of modes is lost, the number of a button means
  another mode at the click than on the page (`ui/pages/BatteryPage.cpp:235`).
- The page accepts an exit threshold above the enter threshold, with which a steady load
  between the two enters and leaves the scene for ever (`ui/pages/ThermalPage.cpp:519`).
  `SteadyLoadSettles` is about the other settings.
- A run that dies between the create or edit of the release and the upload leaves a public
  release without all its files until the retry (`scripts/release.py:218-224`).
- A point removed while another is dragged leaves the drag with a stale index, at which the
  next move writes even behind the end of the list (`ui/widgets/FanCurveEditor.cpp:133`), and a
  drag whose release the menu receives stays uncommitted: the editor then shows, in
  Custom, points that are not saved (`ui/widgets/FanCurveEditor.cpp:134-171`).
- After a deletion "Profile N" may name a profile already in the list; the page then
  selects the last of that name (`ui/pages/PerformancePage.cpp:81-160`).
- If the task was deleted by somebody else, switching "Start with Windows" off fails,
  because deleting it does (`core/Autostart.cpp:94`).

## Proofs

TLC checks the bounds above; TLAPS proves the following for every value of the
constants: any sets of modes, plans, fans, speeds, curves and temperatures, any bounds.

- `PlanSyncProofs`: `TypeCorrect`, `GateIsHeld`, `FreshServesTheWanted`, `WaitingIsServed`,
  `MonitorStaysSilent`, `MintsOnce`. The invariant `IInv` adds to the checked ones that
  no process is of a future generation (else a bump could make an old one current
  again), that a user's processes only switch plans, that the chip is empty in monitor
  mode, that nobody reads for a mint once a copy is known, and that a process's target
  is a plan. Every handler starts at most one process and takes the gate with it: the
  lemmas `ContinueOutcome`, `FinishOutcome`, `ActivateOutcome` and `DeliverOutcome` say
  what a continuation does to gate, processes and chip, and the step lemmas use
  nothing else. `NewestRequestWins` is the refinement, that `PlanSync` implements
  `LatestRequest` under the mapping above. It uses `Invariance`: while the gate is free no
  sync process is in flight, and a fresh one serves the newest generation. A step that
  fails maps to the mailbox giving up or starting over with the waiting request.
  `IntentionsStand` is what the user sees: when all is quiet, the active plan is one the
  newest intention accepts. Its strengthening `Course` follows the promise
  through the chain: the refresh of the name only reads (`NamesRead`), what is minted is a
  copy (`MintsCopies`), and while something is promised and no rival is about, either the
  user's plan is the only one still to be set (`UserIntent`), or the request waits, is on
  course or has been served (`SyncIntent`).
- `ThermalControlProofs`, of the loop: `TypeCorrect`, `MonitorIsIdle`, `FansNeedCustom`, `BannerStaysHonest`,
  `AdoptionNeedsStreak`, `SelectionsSurvive`, `AdoptionIsPeaceful`. The strengthening says
  that the program's count never exceeds the run of equal readings really seen, nor in
  monitor mode the ticks of that run (`StreakIsSeen`), and that a selection no write has carried or screened is still
  pending (`FirstChance`). `HalUsedProperly` is the refinement of `ModeWriter`'s user: a tick
  that adopts outside a scene moves the target without writing, every other tick writes
  or polls for the target it began with, and what happens between ticks cancels the
  request, or moves the target, or leaves both alone.
  Of the loop beside its watcher: `ComposedInvariance`, `WatchedMonitorIsIdle`,
  `SwitchedWithinAPeriod`, `WatchedAdoption`, `WatchedHalUse`. The composition takes the
  steps of the loop or leaves it alone, so the step lemmas carry over; the count of wrong
  ticks stays below the ticks since the last check (`WithinThePeriod`).
- `ThermalHalProofs`: `TypeCorrect`, `EveryTableIsTried`, `VerifiedTablesAreKept`,
  `SupersededWritesNothing`. A call reaches the live instance wherever it is enumerated
  (`AnswerHeard`), so an unlost write is refused by the machine only. The invariant says
  what the readbacks have shown: an unretained table still in force has been held for as
  long as its verification lasts (`HeldAsLong`), a retained one has matched every read
  (`KeptIsSeen`), and the tables before it were tried (`TriedBefore`). Foreign writes end
  both histories: they clear `clean`, and the same table makes the verification `echoed`. Two matching reads
  are a second apart from the write, so `VerifiedTablesAreKept` assumes `MaxHold <= 1`:
  of a machine that shows an unretained code for longer the code promises nothing.
  `VerificationIsBounded` is the part of `VerificationEnds` that needs no fairness: at most
  nine polls, each leaving fewer (`PollsFall`), and only a new write of Performance gives
  any back. `WriterPromiseKept` is the refinement of `ModeWriter`, from the two lemmas that
  a write is a write and a poll a poll (`WriteIsWrite`, `PollIsPoll`).
- `FanControlProofs`: `TypeCorrect`, `KnownStaysTrue`, `FloorsAreHonoured`,
  `NoBoostIsForgotten`. The first two invariants are inductive with the types; the third
  needs that the page's memory of what is saved is the configuration, but for boosts a
  scene reset dropped (`SavedIsConfigured`). The dead zone needs no lemma of its own:
  every raise of a floor forces the rewrite.
- `ControlTargetsProofs`: `TypeCorrect`, `DisablingLeavesTheScene`, `BothEdgesDebounced`,
  `FanSpinsDownLate`. The one counter never exceeds the ticks of evidence for the edge it
  serves (`CountsTheEdge`). For the curve: rounded interpolation rises on a rising
  segment and stays in its range on a falling one (`InterpolateRising`,
  `InterpolateFalling`), so the target is a percentage on every curve (`SpeedInRange`)
  and grows with the temperature on one that never drops (`SpeedRises`). The points around a
  temperature exist because a finite set of numbers has a greatest and a least
  element (`Greatest`, `Least`).
- `ChargingProofs`: `ChannelFound`, `ChosenWritten`, `ThresholdsStayValid`. The channel is
  settled once, so what `Initialize` leaves behind holds for ever (`SettledIInv`); it is
  the first length that answers, because a search that stops at the first answer finds the
  least index (`FirstWorks`, from `MinIsLeast`). From there to charging requests: every
  length tried before the last resort holds a battery request, so a service that carries
  them answers first at a length that does (`ServiceLengthWorks`), and BFn's one length is
  described or found (`BfnLengthWorks`). A button means the mode it shows because the list
  read at the click is the one the page was built from if both were heard or neither
  (`ListIInv`): its inputs do not change in a session. The sliders keep their gap
  and their ranges whichever of them is moved (`SlidersIInv`, `GapKept`).
- `PagesProofs`: `AutostartAgrees` (inductive as it stands), `DurationSurvivesTheUnit`,
  `ControlsAgree`, `CurveStaysSound`. A duration out of range would be cut when the page is reloaded, so what is saved
  must be in range (`SceneIInv`); rounding to minutes errs by half a minute
  (`RoundedError`); a row of the profile list is found again by its name because a
  finite list has a last one of that name (`RowOfType`). The saved curve is valid because
  the points of the editor rise strictly (`CurveIInv`): a drag stays between its
  neighbours (`MoveStep`), and sorting by rank is a permutation that rises, since of
  points with distinct temperatures no two have one rank (`SortedRises`).
- `ReleaseProofs`: `TypeCorrect`, `ReleaseCommitsKeepTheirTags`, `PublishedIsTagged`,
  `ChangelogIsComplete`. origin only grows (`Grows`), so what `prepare` found stays true
  (`FitsStays`); each step adds the fact that the upload needs (`Fits`), and a release that is only opened
  says nothing yet of what it was built from (`ReleasesUnfilled`). For the changelog
  the plan of a new release must still list exactly what is not covered when it is
  committed (`LogFits`): developers' pushes do not disturb it, and only the run itself
  adds logs (`LogsStay`, `PushLogs`).

Assumptions: the ASSUMEs of the modules, which every run evaluates. Modes, plans and
marks such as `NoMode` are distinct; bounds are numbers; a copy that the program mints is
a plan of High Performance, and none is installed when a session begins; a curve of
`ControlTargets` has finitely many points, numbers, with percentages from 0 to 100, and
the default curve of the editor is valid and rises; a minute has seconds and the default
duration is in range; the WMI instances are finitely many, one of them live; every length
the channel tries holds a battery request but the last resort of the service
(`SizeAssumption`, the arrays of `hal/win/DellAcpiChannel.cpp`); the modes of a charging
list are told from "none".

Only model-checked: all liveness (`NoStrandedRequest`, `ChipTellsTruth`, `ViewConverges`,
`VerificationEnds`, `BoostReachesHardware`, `SteadyLoadSettles`, `ChargingConverges`,
`RadiosAgree`, `PlanComboTellsTruth`, `PushedIsPublished`), which is out of the prover's
reach; and `TypeOK` of `Charging`, because the list of supported modes is a `SelectSeq`,
a recursive definition the provers cannot unfold. Every other property of a passing
run is stated by a theorem.

## Not modelled

Manual overrides (only tests set them), the dynamic policy (not in the chain), GPU
power limits (the scene profile never asks for one), the read-only HALs for GPU, battery
and load, formatting of the ini file and of `powercfg`'s output beyond what a line
means, the bytes of DA buffers and the COM calls that carry them, process names beyond
"listed or not", the Dashboard and other presentation, the diagnostic command lines of
`main`. `FanControl` and `ThermalControl` see the same tick separately: that a Custom
write is followed by its fans in one tick is modelled in both, their liveness not
jointly.

## Plan

1. `FanControl` with `ThermalControl`: one tick that writes Custom and its fans, and the
   joint liveness of a Custom selection.
2. `ModeWriter` under `Coexistence` with AWCC's own writes told from the firmware's, so
   that the two controllers can be compared write by write.
