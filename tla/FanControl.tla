----------------------------- MODULE FanControl -----------------------------
(***************************************************************************)
(* Fan speeds: the second half of Controller::apply (core/Controller.cpp),  *)
(* its minimum speeds ("boost"), and the sliders of ui/pages/ThermalPage.cpp *)
(* with their debounced persistence.                                        *)
(*                                                                          *)
(* In Custom mode each tick wants max(curve, boost) for every fan.  To spare *)
(* the firmware it writes only when some fan left the dead zone or is queued *)
(* for a forced rewrite, and not within kMinWriteIntervalMs of the previous  *)
(* write; the controller remembers what it wrote and never reads it back.    *)
(* Modes are reduced to Custom and the BIOS modes, in which the firmware     *)
(* owns the fans (ThermalControl has them all).                              *)
(***************************************************************************)
EXTENDS Integers, FiniteSets

CONSTANTS
  Fans,
  Percents,    \* fan speeds, a finite set of numbers with 0
  DeadZone,    \* kFanDeadZonePercent
  Firmware,    \* the firmware (or AWCC) sets the speed
  NoPercent,   \* nothing written yet
  Initial,     \* the speeds curves and saved boosts may ask for at start
  MaxEvents    \* bound on disturbances

ASSUME PercentAssumption ==
  /\ Percents \subseteq Nat /\ 0 \in Percents /\ Initial \subseteq Percents
  /\ Firmware \notin Percents /\ NoPercent \notin Percents

ASSUME BoundAssumption == DeadZone \in Nat \ {0} /\ MaxEvents \in Nat

VARIABLES
  passive,     \* m_passive
  baseline,    \* "custom" or "bios": the mode of the baseline policy
  inScene,     \* the scene policy asks for G-Mode
  written,     \* m_lastModeWritten
  curve,       \* what each fan's curve asks for at its present temperature
  boost,       \* m_fanBoost
  force,       \* m_fanForceRewrite
  last,        \* m_lastFanPercent
  stamped,     \* m_lastFanWriteMs is set: a write may have to wait for it to age
  slider, saved, debounce,  \* ThermalPage: m_boostSliders, m_boostSaved, m_boostDebounce
  config,      \* the saved boosts
  hw,          \* the speed each fan really runs at
  \* history
  events,      \* disturbances so far
  dropped      \* fans whose unsaved boost a scene reset marked as saved

page == <<slider, saved, debounce, config, dropped>>
mode == <<passive, baseline, inScene, written>>
fan  == <<force, last, stamped, hw>>
vars == <<mode, curve, boost, fan, page, events>>

Mode == {"custom", "bios"}
NoMode == "none"
Nobody == [f \in Fans |-> NoPercent]
ByFirmware == [f \in Fans |-> Firmware]

TypeOK ==
  /\ passive \in BOOLEAN /\ baseline \in Mode /\ inScene \in BOOLEAN
  /\ written \in Mode \cup {NoMode}
  /\ curve \in [Fans -> Percents] /\ boost \in [Fans -> Percents]
  /\ force \subseteq Fans
  /\ last \in [Fans -> Percents \cup {NoPercent}] /\ stamped \in BOOLEAN
  /\ slider \in [Fans -> Percents] /\ saved \in [Fans -> Percents]
  /\ debounce \in BOOLEAN /\ config \in [Fans -> Percents]
  /\ hw \in [Fans -> Percents \cup {Firmware}]
  /\ events \in Nat /\ dropped \subseteq Fans

Disturb == events < MaxEvents /\ events' = events + 1

-----------------------------------------------------------------------------
\* Controller::apply.

\* The boost raises the curve's target; the two do not add up.
Larger(a, b) == IF a >= b THEN a ELSE b
Target(f) == Larger(curve[f], boost[f])
Distance(a, b) == IF a >= b THEN a - b ELSE b - a

DirtyUnforced(known) ==                                            \* mutant
  \E f \in Fans : known[f] = NoPercent \/ Distance(Target(f), known[f]) >= DeadZone
\* A write is due: a fan is queued, unwritten, or off by the dead zone.
Dirty(known) ==
  \E f \in Fans : \/ f \in force
                  \/ known[f] = NoPercent
                  \/ Distance(Target(f), known[f]) >= DeadZone

\* Every fan is written; those in ok acknowledge, the others keep their speed.
WriteFans(known, speed, ok) ==
  /\ last' = [f \in Fans |-> IF f \in ok THEN Target(f) ELSE known[f]]
  /\ hw' = [f \in Fans |-> IF f \in ok THEN Target(f) ELSE speed[f]]
  /\ force' = force \ ok
  /\ stamped' = TRUE

\* The fan half of apply, after the mode half left known, speed and stamp.
ApplyFans(target, known, speed, stamp, early, ok) ==
  IF target = "custom" /\ Dirty(known) /\ ~(stamp /\ early) THEN WriteFans(known, speed, ok)
  ELSE last' = known /\ hw' = speed /\ stamped' = stamp /\ UNCHANGED force

KnownAfterWriteKept(now) == now                                    \* mutant
\* A mode write forgets what the fans were told; so does adopting a mode.
KnownAfterWrite(now) == Nobody

\* now is what is known after adoption.
Apply(target, lastMode, now, accepted, early, ok) ==
  IF target = lastMode
  THEN written' = lastMode /\ ApplyFans(target, now, hw, stamped, early, ok)
  ELSE IF accepted
       THEN /\ written' = target
            /\ ApplyFans(target, KnownAfterWrite(now), ByFirmware, FALSE, early, ok)
       ELSE written' = lastMode /\ last' = now /\ UNCHANGED <<force, stamped, hw>>

-----------------------------------------------------------------------------
\* tickOnce.

\* adoptExternalProfile: m becomes the baseline and counts as written.  Outside
\* monitor mode it never replaces Custom (its debounce is ThermalControl's).
MayAdopt(m) == m # baseline /\ (passive \/ (baseline # "custom" /\ m # written))

Goal(base) == IF inScene THEN "bios" ELSE base

\* ok: the fans that accept a write; early: the clock shows less than
\* kMinWriteIntervalMs since the last write, after jitter or because it was set back,
\* however long ago that write was.
Tick(adopts, m, accepted, early, ok) ==
  LET lastMode == IF adopts THEN m ELSE written
      now      == IF adopts THEN Nobody ELSE last
      calm     == ~adopts /\ accepted /\ ~early /\ ok = Fans
  IN /\ IF calm THEN UNCHANGED events ELSE Disturb
     /\ adopts => MayAdopt(m)
     /\ baseline' = IF adopts THEN m ELSE baseline
     /\ IF passive
        THEN written' = lastMode /\ last' = now /\ UNCHANGED <<force, stamped, hw>>
        ELSE Apply(Goal(baseline'), lastMode, now, accepted, early, ok)
     /\ UNCHANGED <<passive, inScene, curve, boost, page>>

Ticking ==
  \E adopts, accepted, early \in BOOLEAN, m \in Mode, ok \in SUBSET Fans :
    Tick(adopts, m, accepted, early, ok)

-----------------------------------------------------------------------------
\* The Thermal page.

SetFanBoostGently(fs) == UNCHANGED force                           \* mutant
\* setFanBoost queues the fans it is called for.
SetFanBoost(fs) == force' = force \cup fs

Unsaved(value) == {f \in Fans : value[f] # saved[f]}

\* The slider of f moves: the controller follows at once, the configuration later.
MoveSlider(f, v) ==
  /\ Disturb
  /\ v # slider[f]
  /\ slider' = [slider EXCEPT ![f] = v] /\ boost' = [boost EXCEPT ![f] = v]
  /\ SetFanBoost({f})
  /\ debounce' = TRUE
  /\ UNCHANGED <<mode, curve, last, stamped, hw, saved, config, dropped>>

\* saveBoosts, when the sliders stand at value.
SaveBoosts(value, forced) ==
  LET changed == Unsaved(value)
  IN /\ saved' = value
     /\ config' = [f \in Fans |-> IF f \in changed THEN value[f] ELSE config[f]]
     /\ boost' = [f \in Fans |-> IF f \in changed \cup forced THEN value[f] ELSE boost[f]]
     /\ SetFanBoost(changed \cup forced)
     /\ dropped' = dropped \ changed

DebounceTimeout ==
  /\ debounce /\ debounce' = FALSE
  /\ SaveBoosts(slider, {})
  /\ UNCHANGED <<mode, curve, last, stamped, hw, slider, events>>

SliderReleased ==
  /\ Unsaved(slider) # {}
  /\ SaveBoosts(slider, {})
  /\ UNCHANGED <<mode, curve, last, stamped, hw, slider, debounce, events>>

\* "Reset to default" of the curves also releases every boost.
CurveReset ==
  LET moved == {f \in Fans : slider[f] # 0}
  IN /\ Disturb
     /\ slider' = [f \in Fans |-> 0]
     /\ SaveBoosts(slider', moved)
     /\ debounce' = (debounce \/ moved # {})
     /\ UNCHANGED <<mode, curve, last, stamped, hw>>

ResyncWithoutSaved == slider' = boost' /\ UNCHANGED saved         \* mutant
\* onConfigReloaded: the sliders show the controller's boosts, which count as saved.
Resync == slider' = boost' /\ saved' = boost'

\* "Reset to defaults" of the game card reloads the controls only.
SceneReset ==
  /\ Disturb
  /\ UNCHANGED boost /\ Resync
  /\ dropped' = dropped \cup Unsaved(slider)
  /\ UNCHANGED <<mode, curve, fan, debounce, config>>

-----------------------------------------------------------------------------
\* Everything else that reaches the fans.

\* Settings "Restore defaults": an empty configuration and reloadFromConfig.
ReloadFromConfig ==
  /\ Disturb
  /\ baseline' = "bios" /\ written' = NoMode
  /\ config' = [f \in Fans |-> 0] /\ boost' = config'
  /\ force' = force \cup Fans /\ last' = Nobody /\ stamped' = FALSE
  /\ Resync /\ dropped' = {}
  /\ UNCHANGED <<passive, inScene, curve, hw, debounce>>

\* In monitor mode AWCC has the fans.
SetPassive(on) ==
  /\ Disturb
  /\ passive # on /\ passive' = on
  /\ written' = NoMode /\ last' = Nobody /\ stamped' = FALSE
  /\ hw' = ByFirmware
  /\ UNCHANGED <<baseline, inScene, curve, boost, force, page>>

\* The user picks a mode: forceNextModeWrite.
SelectMode(m) ==
  /\ Disturb
  /\ baseline' = m /\ written' = NoMode
  /\ UNCHANGED <<passive, inScene, curve, boost, fan, page>>

SceneFlips ==
  /\ Disturb
  /\ ~passive \/ inScene
  /\ inScene' = ~inScene
  /\ UNCHANGED <<passive, baseline, written, curve, boost, fan, page>>

\* A temperature moves, or a curve is edited.
CurveMoves(f, v) ==
  /\ Disturb
  /\ v # curve[f] /\ curve' = [curve EXCEPT ![f] = v]
  /\ UNCHANGED <<mode, boost, fan, page>>

\* The program exits and is started again: what was not saved is gone.
Restart ==
  /\ Disturb
  /\ passive' = FALSE /\ written' = NoMode /\ inScene' = FALSE
  /\ boost' = config /\ force' = {} /\ last' = Nobody /\ stamped' = FALSE
  /\ slider' = config /\ saved' = config /\ debounce' = FALSE
  /\ dropped' = {}
  /\ UNCHANGED <<baseline, curve, config, hw>>

Init ==
  /\ passive = FALSE /\ baseline \in Mode /\ inScene = FALSE /\ written = NoMode
  /\ curve \in [Fans -> Initial] /\ config \in [Fans -> Initial]
  /\ boost = config /\ force = {} /\ last = Nobody /\ stamped = FALSE
  /\ slider = config /\ saved = config /\ debounce = FALSE
  /\ hw = ByFirmware
  /\ events = 0 /\ dropped = {}

Next ==
  \/ Ticking
  \/ \E f \in Fans, v \in Percents : MoveSlider(f, v) \/ CurveMoves(f, v)
  \/ DebounceTimeout \/ SliderReleased \/ CurveReset \/ SceneReset
  \/ ReloadFromConfig \/ Restart \/ SceneFlips
  \/ \E on \in BOOLEAN : SetPassive(on)
  \/ \E m \in Mode : SelectMode(m)

Spec == Init /\ [][Next]_vars

\* The 1 Hz timer keeps firing, and the single-shot timer of the sliders too.
FairSpec == Spec /\ WF_vars(Ticking) /\ WF_vars(DebounceTimeout)

-----------------------------------------------------------------------------
\* Properties.

Owning == ~passive /\ written = "custom"

\* The dead zone compares the target with what the controller believes it wrote,
\* and never reads a fan back: so in Custom the belief must be the truth.
KnownIsTrue == Owning => \A f \in Fans : last[f] \in {NoPercent, hw[f]}

\* A fan the controller drives never runs below its minimum speed, except while
\* a rewrite for it is queued: boosts and dead zone do not conspire.
FloorIsHonoured == \A f \in Fans : Owning /\ last[f] # NoPercent /\ f \notin force => hw[f] >= boost[f]

\* A boost that is not in the configuration will be put there: the timer runs and
\* the page still sees a difference; a scene reset excepted, which
\* marks what the sliders show as saved although it is not.
UnsavedIsPendingOrDropped ==
  \A f \in Fans : config[f] # boost[f] => (debounce /\ saved[f] # slider[f]) \/ f \in dropped

\* Once disturbances cease, every fan the controller drives has taken the last
\* boost asked of it ("a drop to 0 must reach the hardware even at the same
\* value") and runs within the dead zone of its target.
BoostReachesHardware ==
  <>[](~passive /\ Goal(baseline) = "custom" =>
         force = {} /\ \A f \in Fans : hw[f] \in Percents /\ Distance(hw[f], Target(f)) < DeadZone)
=============================================================================
