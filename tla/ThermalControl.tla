--------------------------- MODULE ThermalControl ---------------------------
(***************************************************************************)
(* The 1 Hz control loop of core/Controller.cpp, as far as the thermal mode  *)
(* is concerned: the tick reads the firmware profile and may adopt it, lets   *)
(* the policy chain choose a target and writes the target to the firmware,    *)
(* while the user, AWCC and the AWCC watcher act between ticks.               *)
(*                                                                          *)
(* A tick is one action because it is one event of a single-threaded loop.    *)
(* Time is counted in ticks: a tick stands for 1000 ms of the code.  The      *)
(* thermal HAL is the writer of modes that ModeWriter promises, which          *)
(* ThermalHal keeps: of the verification of a Performance write only the       *)
(* number of polls it may still take is left.  Fan percentages are left to     *)
(* FanControl: here a fan write happens or does not.                          *)
(***************************************************************************)
EXTENDS Naturals, FiniteSets

CONSTANTS
  Custom, GMode, Performance, OtherModes, \* ThermalMode
  DefaultMode,    \* the mode of a reset configuration (Balanced)
  NoMode,         \* an empty std::optional<ThermalMode>
  AdoptStreak,    \* readbacks before an adoption (3)
  GraceTicks,     \* kModeAdoptGraceMs in ticks (5)
  MaxAttempts,    \* failed writes before a pending write is given up (5)
  MaxPolls,       \* polls the verification of a Performance write may take
  MaxEvents       \* bound on the disturbances from outside the loop

Mode == {Custom, GMode, Performance} \cup OtherModes

ASSUME ModeAssumption ==
  /\ Custom # GMode /\ Custom # Performance /\ GMode # Performance
  /\ DefaultMode \in Mode /\ NoMode \notin Mode

ASSUME BoundAssumption ==
  /\ AdoptStreak \in Nat \ {0} /\ GraceTicks \in Nat \ {0} /\ MaxAttempts \in Nat \ {0}
  /\ MaxPolls \in Nat \ {0} /\ MaxEvents \in Nat

VARIABLES
  \* the controller
  passive,      \* m_passive
  baseline,     \* m_baseline.mode(), saved to the configuration whenever it changes
  lastWritten,  \* m_lastModeWritten
  failed,       \* m_failedMode
  pending,      \* m_pendingModeWrite
  attempts,     \* m_pendingWriteAttempts, up to MaxAttempts
  age,          \* ticks since m_lastModeWriteMs, up to GraceTicks; GraceTicks if never written
  candidate,    \* m_adoptCandidate while m_adoptStreak > 0, else NoMode
  streak,       \* m_adoptStreak
  inScene,      \* the scene policy is active
  \* the thermal HAL and the machine
  probing,      \* polls the pending Performance verification may still take, 0 if none
  firmware,     \* the profile the firmware runs
  beat,         \* flips with every tick, so that each tick is a step: fairness of the
                \* timer must not amount to the success of what a tick tries
  \* bookkeeping of the properties
  did,          \* the kinds of writes of the last step
  adopted,      \* the last step adopted a profile
  events,       \* disturbances so far
  unsent,       \* the mode the user selected while no write has carried it, how often
                \* it was refused, and whether another mode was tried since
  seen          \* the run of equal readbacks that ends now: how many they are, and how
                \* many of them came on the last ticks, one on each

adoption == <<candidate, streak>>
retry    == <<pending, attempts>>
vars == <<passive, baseline, lastWritten, failed, retry, age, adoption, inScene,
          probing, firmware, beat, did, adopted, events, unsent, seen>>

Selection == [mode : Mode \cup {NoMode}, screened : BOOLEAN, refusals : 0 .. MaxAttempts - 1]
Run       == [mode : Mode \cup {NoMode}, readings : 0 .. AdoptStreak, ticks : 0 .. AdoptStreak]

TypeOK ==
  /\ passive \in BOOLEAN
  /\ baseline \in Mode /\ lastWritten \in Mode \cup {NoMode} /\ failed \in Mode \cup {NoMode}
  /\ pending \in BOOLEAN /\ attempts \in 0 .. MaxAttempts
  /\ age \in 0 .. GraceTicks
  /\ candidate \in Mode \cup {NoMode} /\ streak \in 0 .. AdoptStreak - 1
  /\ inScene \in BOOLEAN
  /\ probing \in 0 .. MaxPolls /\ firmware \in Mode /\ beat \in BOOLEAN
  /\ did \subseteq {"mode", "fan"} /\ adopted \in BOOLEAN /\ events \in 0 .. MaxEvents
  /\ unsent \in Selection /\ seen \in Run

AllSent     == [mode |-> NoMode, screened |-> FALSE, refusals |-> 0]
NothingSeen == [mode |-> NoMode, readings |-> 0, ticks |-> 0]

Init ==
  /\ passive = FALSE
  /\ baseline \in Mode /\ lastWritten = NoMode /\ failed = NoMode
  /\ pending = FALSE /\ attempts = 0 /\ age = GraceTicks
  /\ candidate = NoMode /\ streak = 0
  /\ inScene = FALSE
  /\ probing = 0 /\ firmware \in Mode /\ beat = FALSE
  /\ did = {} /\ adopted = FALSE /\ events = 0 /\ unsent = AllSent /\ seen = NothingSeen

Disturb == events < MaxEvents /\ events' = events + 1

-----------------------------------------------------------------------------
\* adoptExternalProfile.

Older(n) == IF n < GraceTicks THEN n + 1 ELSE n

MayAdoptUnguarded == passive \/ Older(age) >= GraceTicks           \* mutant
\* No write of ours is queued, being verified, or so recent that the readback may
\* lag it.  Monitor mode writes nothing, so there is nothing to protect.
MayAdopt == passive \/ (~pending /\ probing = 0 /\ Older(age) >= GraceTicks)

\* The readback shows a profile that is neither ours nor the baseline.
Foreign(read) ==
  /\ read # NoMode /\ read # baseline
  /\ passive \/ read # lastWritten
  /\ passive \/ baseline # Custom

AdoptsMixed(read) ==                                               \* mutant
  MayAdopt /\ Foreign(read) /\ streak + 1 >= AdoptStreak
\* The profile read is adopted now: it was the candidate and completes the streak.
Adopts(read) ==
  /\ MayAdopt /\ Foreign(read)
  /\ streak + 1 >= AdoptStreak
  /\ candidate = read \/ AdoptStreak = 1

\* The debounce: equal foreign readbacks are counted, anything else read resets
\* the count, and a tick that does not read leaves it alone.
Debounce(read) ==
  IF ~MayAdopt THEN UNCHANGED adoption
  ELSE IF Foreign(read) /\ ~Adopts(read)
  THEN /\ candidate' = read
       /\ streak' = IF candidate = read THEN streak + 1 ELSE 1
  ELSE candidate' = NoMode /\ streak' = 0

Capped(n) == IF n < AdoptStreak THEN n + 1 ELSE n

\* Bookkeeping: a readback extends the run of its equals or begins one.  A tick that
\* reads nothing is no readback, and parts the ticks after it from those before.
Witness(read) ==
  seen' = IF ~MayAdopt THEN [seen EXCEPT !.ticks = 0]
          ELSE IF read = seen.mode
          THEN [seen EXCEPT !.readings = Capped(@), !.ticks = Capped(@)]
          ELSE [mode |-> read, readings |-> 1, ticks |-> 1]

AdoptedIsUnwritten(read) == lastWritten                            \* mutant
\* "Do not write it straight back": an adopted profile counts as written.
LastAfterAdoption(read) == IF Adopts(read) THEN read ELSE lastWritten

FailureStays(read) == failed                                       \* mutant
FailedAfterAdoption(read) == IF Adopts(read) THEN NoMode ELSE failed

AdoptExternalProfile(read) ==
  /\ Debounce(read) /\ Witness(read)
  /\ adopted' = Adopts(read)
  /\ baseline' = IF Adopts(read) THEN read ELSE baseline

-----------------------------------------------------------------------------
\* apply.

\* What the policy chain asks for: the scene policy before the baseline.
Target == IF inScene THEN GMode ELSE baseline

Hal == INSTANCE ModeWriter WITH
         Modes <- Mode, asked <- Target, profile <- firmware, left <- probing

\* A write is tried or not, and only a write changes the firmware.
MayWriteMode == did' \in {{}, {"mode"}} /\ (did' = {} => UNCHANGED firmware)

\* One poll of the Performance verification: still undecided, or over.  The next
\* candidate tables may be written.
PollPendingModeWrite == (Hal!PollGoesOn \/ Hal!PollEnds) /\ MayWriteMode

\* Bookkeeping of the user's selection when setMode(target) was called: it is settled
\* when the firmware took it, or has refused it MaxAttempts times.
Sent(target, accepted, adopting) ==
  IF adopting THEN AllSent
  ELSE IF target # unsent.mode THEN [unsent EXCEPT !.screened = unsent.mode # NoMode]
  ELSE IF accepted \/ unsent.refusals + 1 >= MaxAttempts THEN AllSent
  ELSE [unsent EXCEPT !.refusals = @ + 1]

\* setMode succeeded.
ModeWritten(target) ==
  /\ Hal!Accepted(target)
  /\ lastWritten' = target /\ failed' = NoMode
  /\ pending' = FALSE /\ attempts' = 0 /\ age' = 0

PendingForEver == pending                                          \* mutant
\* Whether a pending write stays pending after one more refusal.
StillPending == pending /\ attempts + 1 < MaxAttempts

\* setMode failed: the mode is remembered for the banner and tried again next tick.
\* No dependent fan write follows in the wrong mode.
ModeRefused(target, last) ==
  /\ failed' = target /\ lastWritten' = last
  /\ attempts' = IF attempts < MaxAttempts THEN attempts + 1 ELSE attempts
  /\ pending' = StillPending
  /\ Hal!Refused(target) /\ MayWriteMode /\ age' = Older(age)

\* Outside Custom the firmware owns the fans.
FanWrites(target) == IF target = Custom THEN {{}, {"fan"}} ELSE {{}}

\* last and wrong are lastWritten and failed as adoption left them.
Apply(target, last, wrong, accepted, adopting) ==
  IF target # last
  THEN /\ unsent' = Sent(target, accepted, adopting)
       /\ IF accepted
          THEN ModeWritten(target) /\ did' \in {{"mode"} \cup f : f \in FanWrites(target)}
          ELSE ModeRefused(target, last)
  ELSE /\ lastWritten' = last /\ failed' = wrong /\ age' = Older(age)
       /\ unsent' = IF adopting THEN AllSent ELSE unsent
       /\ UNCHANGED retry
       /\ IF target = Performance /\ probing > 0 THEN PollPendingModeWrite
          ELSE did' \in FanWrites(target) /\ UNCHANGED <<probing, firmware>>

-----------------------------------------------------------------------------
\* tickOnce.

\* The readback is the firmware profile, or a glitch, or fails (NoMode).
Readback(read) ==
  \/ read = firmware /\ UNCHANGED events
  \/ read # firmware /\ Disturb

\* Monitor mode: the tick reads and may adopt, and returns before any write.
MonitorTick(read) ==
  /\ passive
  /\ lastWritten' = LastAfterAdoption(read) /\ failed' = FailedAfterAdoption(read)
  /\ age' = Older(age) /\ did' = {}
  /\ unsent' = IF Adopts(read) THEN AllSent ELSE unsent
  /\ UNCHANGED <<retry, probing, firmware>>

ControlTick(read, accepted) ==
  /\ ~passive
  /\ Apply(Target', LastAfterAdoption(read),
           FailedAfterAdoption(read), accepted, Adopts(read))

\* accepted: what the firmware answers should the tick write a mode.
Tick(read, accepted) ==
  /\ Readback(read)
  /\ UNCHANGED <<passive, inScene>>
  /\ AdoptExternalProfile(read)
  /\ MonitorTick(read) \/ ControlTick(read, accepted)
  /\ beat' = ~beat

Ticking == \E read \in Mode \cup {NoMode}, accepted \in BOOLEAN : Tick(read, accepted)

-----------------------------------------------------------------------------
\* Between ticks.

\* The user picks a mode in the window or the tray: saved, made the baseline, and
\* forceNextModeWrite.
SelectMode(m) ==
  /\ Disturb
  /\ baseline' = m
  /\ lastWritten' = NoMode /\ pending' = TRUE /\ attempts' = 0
  /\ probing' = 0                          \* cancelPendingModeWrite
  /\ unsent' = [mode |-> m, screened |-> FALSE, refusals |-> 0]
  /\ did' = {} /\ adopted' = FALSE
  /\ UNCHANGED <<passive, failed, age, adoption, inScene, firmware, beat, seen>>

KeepInFlight(on) == UNCHANGED <<retry, probing>>         \* mutant
\* Entering monitor mode drops what is in flight.
DropInFlight(on) ==
  IF on THEN pending' = FALSE /\ probing' = 0 /\ UNCHANGED attempts
  ELSE UNCHANGED <<retry, probing>>

\* The watcher's verdict changed: AWCC started or stopped, or a setting changed.
\* (Coexistence has the watcher.)
SetPassive(on) ==
  /\ passive # on /\ passive' = on
  /\ candidate' = NoMode /\ streak' = 0
  /\ lastWritten' = NoMode /\ failed' = NoMode
  /\ DropInFlight(on)
  /\ unsent' = IF on THEN AllSent ELSE unsent
  /\ did' = {} /\ adopted' = FALSE
  /\ UNCHANGED <<baseline, age, inScene, firmware, beat, seen>>

\* Settings "Restore defaults": reloadFromConfig on a cleared configuration.
ReloadFromConfig ==
  /\ Disturb
  /\ baseline' = DefaultMode
  /\ lastWritten' = NoMode /\ failed' = NoMode /\ pending' = TRUE /\ attempts' = 0
  /\ candidate' = NoMode /\ streak' = 0
  /\ probing' = 0
  /\ unsent' = AllSent /\ did' = {} /\ adopted' = FALSE
  /\ UNCHANGED <<passive, age, inScene, firmware, beat, seen>>

\* The scene detector reports or leaves a game (SceneDetector).  It is not run in
\* monitor mode, where only disabling the scene can end it.
SceneFlips ==
  /\ Disturb
  /\ ~passive \/ inScene
  /\ inScene' = ~inScene
  /\ did' = {} /\ adopted' = FALSE
  /\ UNCHANGED <<passive, baseline, lastWritten, failed, retry, age, adoption, probing,
                 firmware, beat, unsent, seen>>

\* AWCC, Dell Power Manager or a hotkey changes the profile.
ExternalChange(m) ==
  /\ Disturb
  /\ m # firmware /\ firmware' = m
  /\ did' = {} /\ adopted' = FALSE
  /\ UNCHANGED <<passive, baseline, lastWritten, failed, retry, age, adoption, inScene,
                 probing, beat, unsent, seen>>

Next ==
  \/ Ticking
  \/ \E m \in Mode : SelectMode(m)
  \/ \E on \in BOOLEAN : Disturb /\ SetPassive(on)
  \/ ReloadFromConfig
  \/ SceneFlips
  \/ \E m \in Mode : ExternalChange(m)

Spec == Init /\ [][Next]_vars

\* The 1 Hz timer keeps firing; nobody else owes anything.
FairSpec == Spec /\ WF_vars(Ticking)

-----------------------------------------------------------------------------
\* Properties.

\* "While passive the loop keeps reading and feeding the UI but performs NO
\* writes": in monitor mode nothing is written, and nothing is left in flight that
\* a later tick could carry on with: no verification, no rejected mode to retry.
MonitorOwnsNothing == passive => did = {} /\ probing = 0 /\ failed = NoMode

\* "No dependent fan targets in the wrong mode": a fan is written only in a step
\* that ends with Custom as the mode last accepted by the firmware.
FansOnlyInCustom == "fan" \in did => lastWritten = Custom

\* A glitch is not adopted: the last AdoptStreak readbacks all showed the profile, and
\* in monitor mode each of them came on the tick after the one before.  In control
\* the count survives the ticks that read nothing (see AdoptionIsDebounced).
AdoptionIsRepeated ==
  [][adopted' => /\ seen'.mode = baseline' /\ seen'.readings = AdoptStreak
                 /\ passive => seen'.ticks = AdoptStreak]_vars

\* Outside monitor mode a selection of the user is not replaced by an adoption
\* before the firmware has taken it or refused it MaxAttempts times, unless a scene
\* wrote another mode meanwhile (see UnsentSelectionKept).
PendingSelectionKept ==
  [][adopted' /\ ~passive => unsent.mode = NoMode \/ unsent.screened]_vars

\* "Only the active controller may poll; entering monitor-only or issuing a new request
\* must cancel it": the loop uses the HAL the way its interface asks.
UsesHalProperly == Hal!Spec

\* The loop does not fight the other controller: the tick that adopts a profile
\* does not write a mode, except the one a scene asks for.
AdoptionIsNotFought == [][adopted' /\ ~inScene => "mode" \notin did']_vars

\* The failure banner never names the mode that was written last, or adopted since.
BannerIsHonest == failed # NoMode => failed # lastWritten

\* Once disturbances cease, the application and the firmware agree, although
\* writes may be refused for ever: monitor mode shows the firmware's profile; in
\* control the firmware runs the baseline or the mode last written, or the user
\* owns the fans in Custom.
ViewConverges ==
  <>[](IF passive THEN baseline = firmware
       ELSE baseline = Custom \/ firmware \in {baseline, lastWritten})

\* What the comments of m_adoptStreak and adoptExternalProfile say: a profile is adopted
\* only if "STABLE for 3 consecutive ticks".  A tick that may not read, after a
\* selection or a write of ours, leaves the count as it is: readbacks from before it
\* and after it are added up.
AdoptionIsDebounced ==
  [][adopted' => seen'.mode = baseline' /\ seen'.ticks = AdoptStreak]_vars

\* What the comment in adoptExternalProfile says: "never adopt over" a queued
\* selection, "otherwise the readback would revert the user's selection before
\* apply() ever sends it".  A scene's write clears the protection without sending it.
UnsentSelectionKept == [][adopted' /\ ~passive => unsent.mode = NoMode]_vars
=============================================================================
