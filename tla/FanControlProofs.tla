-------------------------- MODULE FanControlProofs --------------------------
(***************************************************************************)
(* Proofs about FanControl, for every set of fans, every set of speeds and    *)
(* every bound: what the controller believes of the fans it drives is true,    *)
(* they keep their minimum speeds, and no boost is forgotten.                  *)
(*                                                                          *)
(* The first two invariants are inductive beside the types.  The third needs   *)
(* SavedIsConfigured: the page's memory of what is saved is the configuration,  *)
(* but for the fans whose boost a scene reset dropped.                          *)
(***************************************************************************)
EXTENDS FanControl, TLAPS

SavedIsConfigured == \A f \in Fans : f \notin dropped => config[f] = saved[f]

IInv == /\ TypeOK /\ KnownIsTrue /\ FloorIsHonoured /\ UnsavedIsPendingOrDropped
        /\ SavedIsConfigured

-----------------------------------------------------------------------------
\* The larger of a curve's target and a boost is a speed and not below the boost.
LEMMA TargetType ==
  ASSUME TypeOK, NEW f \in Fans
  PROVE  Target(f) \in Percents /\ Target(f) >= boost[f]
<1>1. curve[f] \in Percents /\ boost[f] \in Percents /\ Percents \subseteq Nat
  BY PercentAssumption DEF TypeOK
<1>2. curve[f] \in Nat /\ boost[f] \in Nat
  BY <1>1
<1>3. CASE curve[f] >= boost[f]
  BY <1>1, <1>2, <1>3 DEF Target, Larger
<1>4. CASE ~(curve[f] >= boost[f])
  BY <1>1, <1>2, <1>4 DEF Target, Larger
<1> QED BY <1>3, <1>4

\* What writing the fans leaves: those that acknowledged run at their target, and the
\* others as before.
LEMMA WriteFansStep ==
  ASSUME TypeOK, NEW known \in [Fans -> Percents \cup {NoPercent}],
         NEW speed \in [Fans -> Percents \cup {Firmware}], NEW ok \in SUBSET Fans,
         WriteFans(known, speed, ok), UNCHANGED boost,
         \A f \in Fans : known[f] \in {NoPercent, speed[f]},
         \A f \in Fans : known[f] # NoPercent /\ f \notin force => speed[f] >= boost[f]
  PROVE  /\ last' \in [Fans -> Percents \cup {NoPercent}] /\ stamped' = TRUE
         /\ hw' \in [Fans -> Percents \cup {Firmware}] /\ force' \subseteq Fans
         /\ \A f \in Fans : last'[f] \in {NoPercent, hw'[f]}
         /\ \A f \in Fans : last'[f] # NoPercent /\ f \notin force' => hw'[f] >= boost'[f]
<1>1. force \subseteq Fans
  BY DEF TypeOK
<1>2. /\ last' = [f \in Fans |-> IF f \in ok THEN Target(f) ELSE known[f]]
      /\ hw' = [f \in Fans |-> IF f \in ok THEN Target(f) ELSE speed[f]]
      /\ force' = force \ ok /\ stamped' = TRUE
  BY DEF WriteFans
<1>3. \A f \in Fans : Target(f) \in Percents /\ Target(f) >= boost[f]
  BY TargetType
<1>4. /\ last' \in [Fans -> Percents \cup {NoPercent}]
      /\ hw' \in [Fans -> Percents \cup {Firmware}]
  BY <1>2, <1>3
<1>5. ASSUME NEW f \in Fans
      PROVE  /\ last'[f] \in {NoPercent, hw'[f]}
             /\ last'[f] # NoPercent /\ f \notin force' => hw'[f] >= boost'[f]
  <2>1. CASE f \in ok
    BY <1>2, <1>3, <1>5, <2>1
  <2>2. CASE f \notin ok
    BY <1>2, <1>5, <2>2
  <2> QED BY <2>1, <2>2
<1> QED BY <1>1, <1>2, <1>4, <1>5

\* The same for the fan half of apply, which may not write at all.
LEMMA ApplyFansStep ==
  ASSUME TypeOK, NEW target, NEW known \in [Fans -> Percents \cup {NoPercent}],
         NEW speed \in [Fans -> Percents \cup {Firmware}], NEW stamp,
         NEW early, NEW ok \in SUBSET Fans,
         ApplyFans(target, known, speed, stamp, early, ok), UNCHANGED boost,
         target = "custom" => \A f \in Fans : known[f] \in {NoPercent, speed[f]},
         target = "custom" =>
           \A f \in Fans : known[f] # NoPercent /\ f \notin force => speed[f] >= boost[f]
  PROVE  /\ last' \in [Fans -> Percents \cup {NoPercent}] /\ stamped' \in {TRUE, stamp}
         /\ hw' \in [Fans -> Percents \cup {Firmware}] /\ force' \subseteq Fans
         /\ target = "custom" =>
              /\ \A f \in Fans : last'[f] \in {NoPercent, hw'[f]}
              /\ \A f \in Fans : last'[f] # NoPercent /\ f \notin force' => hw'[f] >= boost'[f]
<1> DEFINE due == target = "custom" /\ Dirty(known) /\ ~(stamp /\ early)
<1>1. CASE due
  <2>1. WriteFans(known, speed, ok)
    BY <1>1 DEF ApplyFans
  <2> QED BY <1>1, <2>1, WriteFansStep
<1>2. CASE ~due
  <2>1. last' = known /\ hw' = speed /\ stamped' = stamp /\ force' = force
    BY <1>2 DEF ApplyFans
  <2> QED BY <2>1 DEF TypeOK
<1> QED BY <1>1, <1>2

\* A tick of the loop: after adopting a mode nothing is known of the fans.
LEMMA TickStep ==
  ASSUME IInv, NEW adopts \in BOOLEAN, NEW m \in Mode, NEW accepted \in BOOLEAN,
         NEW early \in BOOLEAN, NEW ok \in SUBSET Fans, Tick(adopts, m, accepted, early, ok)
  PROVE  IInv'
<1> USE DEF IInv
<1> DEFINE lastMode == IF adopts THEN m ELSE written
           now      == IF adopts THEN Nobody ELSE last
<1>1. /\ UNCHANGED <<passive, inScene, curve, boost, page>>
      /\ baseline' = (IF adopts THEN m ELSE baseline)
  BY DEF Tick
<1>2. events' \in Nat
  BY DEF Tick, Disturb, TypeOK
<1>3. baseline' \in Mode /\ lastMode \in Mode \cup {NoMode}
  BY <1>1 DEF TypeOK
<1>4. now \in [Fans -> Percents \cup {NoPercent}] /\ ByFirmware \in [Fans -> Percents \cup {Firmware}]
  BY DEF Nobody, ByFirmware, TypeOK
<1>5. ~passive /\ lastMode = "custom" =>
        /\ \A f \in Fans : now[f] \in {NoPercent, hw[f]}
        /\ \A f \in Fans : now[f] # NoPercent /\ f \notin force => hw[f] >= boost[f]
  <2>1. CASE adopts
    BY <2>1 DEF Nobody
  <2>2. CASE ~adopts
    BY <2>2 DEF KnownIsTrue, FloorIsHonoured, Owning
  <2> QED BY <2>1, <2>2
<1>6. /\ written' \in Mode \cup {NoMode}
      /\ last' \in [Fans -> Percents \cup {NoPercent}] /\ stamped' \in BOOLEAN
      /\ hw' \in [Fans -> Percents \cup {Firmware}] /\ force' \subseteq Fans
      /\ ~passive /\ written' = "custom" =>
           /\ \A f \in Fans : last'[f] \in {NoPercent, hw'[f]}
           /\ \A f \in Fans : last'[f] # NoPercent /\ f \notin force' => hw'[f] >= boost'[f]
  <2>1. CASE passive
    <3>1. written' = lastMode /\ last' = now /\ UNCHANGED <<force, stamped, hw>>
      BY <2>1 DEF Tick
    <3> QED BY <1>3, <1>4, <2>1, <3>1 DEF TypeOK
  <2>2. CASE ~passive
    <3> DEFINE target == Goal(baseline')
    <3>1. Apply(target, lastMode, now, accepted, early, ok)
      BY <2>2 DEF Tick
    <3>2. target \in Mode
      <4>1. target = IF inScene THEN "bios" ELSE baseline'
        BY DEF Goal
      <4> QED BY <1>3, <4>1 DEF Mode
    <3>3. UNCHANGED boost /\ hw \in [Fans -> Percents \cup {Firmware}] /\ force \subseteq Fans
          /\ stamped \in BOOLEAN
      BY <1>1 DEF TypeOK
    <3> HIDE DEF target, lastMode, now
    <3>4. CASE target = lastMode
      <4>1. written' = lastMode /\ ApplyFans(target, now, hw, stamped, early, ok)
        BY <3>1, <3>4 DEF Apply
      <4>2. /\ last' \in [Fans -> Percents \cup {NoPercent}] /\ stamped' \in {TRUE, stamped}
            /\ hw' \in [Fans -> Percents \cup {Firmware}] /\ force' \subseteq Fans
            /\ target = "custom" =>
                 /\ \A f \in Fans : last'[f] \in {NoPercent, hw'[f]}
                 /\ \A f \in Fans : last'[f] # NoPercent /\ f \notin force' => hw'[f] >= boost'[f]
        BY <1>4, <1>5, <2>2, <3>3, <3>4, <4>1, ApplyFansStep
      <4>3. stamped' \in BOOLEAN
        BY <3>3, <4>2
      <4> QED BY <1>3, <3>4, <4>1, <4>2, <4>3
    <3>5. CASE target # lastMode /\ accepted
      <4>1. written' = target /\ ApplyFans(target, Nobody, ByFirmware, FALSE, early, ok)
        BY <3>1, <3>5 DEF Apply, KnownAfterWrite
      <4>2. Nobody \in [Fans -> Percents \cup {NoPercent}] /\ \A f \in Fans : Nobody[f] = NoPercent
        BY DEF Nobody
      <4>3. /\ last' \in [Fans -> Percents \cup {NoPercent}] /\ stamped' \in {TRUE, FALSE}
            /\ hw' \in [Fans -> Percents \cup {Firmware}] /\ force' \subseteq Fans
            /\ target = "custom" =>
                 /\ \A f \in Fans : last'[f] \in {NoPercent, hw'[f]}
                 /\ \A f \in Fans : last'[f] # NoPercent /\ f \notin force' => hw'[f] >= boost'[f]
        BY <1>4, <3>3, <4>1, <4>2, ApplyFansStep
      <4> QED BY <3>2, <4>1, <4>3
    <3>6. CASE target # lastMode /\ ~accepted
      <4>1. written' = lastMode /\ last' = now /\ UNCHANGED <<force, stamped, hw>>
        BY <3>1, <3>6 DEF Apply
      <4> QED BY <1>3, <1>4, <1>5, <2>2, <3>3, <4>1
    <3> QED BY <3>4, <3>5, <3>6
  <2> QED BY <2>1, <2>2
<1>7. TypeOK'
  BY <1>1, <1>2, <1>3, <1>6 DEF TypeOK, page
<1>8. KnownIsTrue' /\ FloorIsHonoured'
  BY <1>1, <1>6 DEF KnownIsTrue, FloorIsHonoured, Owning
<1>9. UnsavedIsPendingOrDropped' /\ SavedIsConfigured'
  BY <1>1 DEF UnsavedIsPendingOrDropped, SavedIsConfigured, page
<1> QED BY <1>7, <1>8, <1>9

-----------------------------------------------------------------------------
\* Saving, when the sliders stand at value and the fans in forced are rewritten.
LEMMA SaveBoostsStep ==
  ASSUME IInv, NEW value \in [Fans -> Percents], NEW forced \in SUBSET Fans,
         SaveBoosts(value, forced), UNCHANGED <<mode, curve, last, stamped, hw>>,
         slider' = value,
         \A f \in Fans : value[f] # slider[f] => f \in forced
  PROVE  /\ saved' \in [Fans -> Percents] /\ config' \in [Fans -> Percents]
         /\ boost' \in [Fans -> Percents] /\ force' \subseteq Fans /\ dropped' \subseteq Fans
         /\ KnownIsTrue' /\ FloorIsHonoured' /\ UnsavedIsPendingOrDropped' /\ SavedIsConfigured'
<1> USE DEF IInv
<1> DEFINE changed == Unsaved(value)
<1>1. changed \subseteq Fans /\ \A f \in Fans : f \in changed <=> value[f] # saved[f]
  BY DEF Unsaved
<1>2. /\ saved' = value
      /\ config' = [f \in Fans |-> IF f \in changed THEN value[f] ELSE config[f]]
      /\ boost' = [f \in Fans |-> IF f \in changed \cup forced THEN value[f] ELSE boost[f]]
      /\ force' = force \cup changed \cup forced
      /\ dropped' = dropped \ changed
  BY DEF SaveBoosts, SetFanBoost
<1>3. UNCHANGED <<passive, written, last, hw>>
  BY DEF mode
<1> HIDE DEF changed
<1>4. /\ saved' \in [Fans -> Percents] /\ config' \in [Fans -> Percents]
      /\ boost' \in [Fans -> Percents] /\ force' \subseteq Fans /\ dropped' \subseteq Fans
  BY <1>1, <1>2 DEF TypeOK
<1>5. KnownIsTrue'
  BY <1>3 DEF KnownIsTrue, Owning
<1>6. FloorIsHonoured'
  <2> SUFFICES ASSUME NEW f \in Fans, Owning', last'[f] # NoPercent, f \notin force'
               PROVE  hw'[f] >= boost'[f]
    BY DEF FloorIsHonoured
  <2>1. f \notin force /\ f \notin changed \cup forced
    BY <1>2
  <2>2. boost'[f] = boost[f]
    BY <1>2, <2>1
  <2> QED BY <1>3, <2>1, <2>2 DEF FloorIsHonoured, Owning
<1>7. ASSUME NEW f \in Fans, f \notin dropped'
      PROVE  config'[f] = saved'[f] /\ config'[f] = boost'[f]
  <2>1. CASE f \in changed
    BY <1>2, <1>7, <2>1
  <2>2. CASE f \notin changed
    <3>1. f \notin dropped /\ value[f] = saved[f] /\ config'[f] = config[f]
      BY <1>1, <1>2, <1>7, <2>2
    <3>2. config[f] = saved[f]
      BY <3>1 DEF SavedIsConfigured
    <3>3. f \notin forced => boost'[f] = boost[f] /\ value[f] = slider[f] /\ config[f] = boost[f]
      BY <1>2, <2>2, <3>1 DEF UnsavedIsPendingOrDropped
    <3>4. f \in forced => boost'[f] = value[f]
      BY <1>2
    <3> QED BY <1>2, <3>1, <3>2, <3>3, <3>4
  <2> QED BY <2>1, <2>2
<1>8. UnsavedIsPendingOrDropped' /\ SavedIsConfigured'
  BY <1>7 DEF UnsavedIsPendingOrDropped, SavedIsConfigured
<1> QED BY <1>4, <1>5, <1>6, <1>8

LEMMA MoveSliderStep ==
  ASSUME IInv, NEW f \in Fans, NEW v \in Percents, MoveSlider(f, v)
  PROVE  IInv'
<1> USE DEF IInv
<1>1. /\ slider' = [slider EXCEPT ![f] = v] /\ boost' = [boost EXCEPT ![f] = v]
      /\ force' = force \cup {f} /\ debounce' = TRUE /\ events' \in Nat
      /\ UNCHANGED <<passive, baseline, inScene, written, curve, last, stamped, hw, saved, config,
                     dropped>>
  BY DEF MoveSlider, SetFanBoost, Disturb, TypeOK, mode
<1>2. TypeOK'
  BY <1>1 DEF TypeOK
<1>3. KnownIsTrue'
  BY <1>1 DEF KnownIsTrue, Owning
<1>4. FloorIsHonoured'
  <2> SUFFICES ASSUME NEW g \in Fans, Owning', last'[g] # NoPercent, g \notin force'
               PROVE  hw'[g] >= boost'[g]
    BY DEF FloorIsHonoured
  <2>1. g # f /\ g \notin force /\ boost'[g] = boost[g]
    BY <1>1 DEF TypeOK
  <2> QED BY <1>1, <2>1 DEF FloorIsHonoured, Owning
<1>5. SavedIsConfigured'
  BY <1>1 DEF SavedIsConfigured
<1>6. UnsavedIsPendingOrDropped'
  <2> SUFFICES ASSUME NEW g \in Fans, config'[g] # boost'[g]
               PROVE  (debounce' /\ saved'[g] # slider'[g]) \/ g \in dropped'
    BY DEF UnsavedIsPendingOrDropped
  <2>1. CASE g = f
    <3>1. boost'[g] = v /\ slider'[g] = v
      BY <1>1, <2>1 DEF TypeOK
    <3> QED BY <1>1, <3>1 DEF SavedIsConfigured
  <2>2. CASE g # f
    <3>1. boost'[g] = boost[g] /\ slider'[g] = slider[g]
      BY <1>1, <2>2 DEF TypeOK
    <3> QED BY <1>1, <3>1 DEF UnsavedIsPendingOrDropped
  <2> QED BY <2>1, <2>2
<1> QED BY <1>2, <1>3, <1>4, <1>5, <1>6

\* The debounce, the end of a drag and the reset of the curves all save.
LEMMA SavingStep ==
  ASSUME IInv, DebounceTimeout \/ SliderReleased \/ CurveReset
  PROVE  IInv'
<1> USE DEF IInv
<1>1. PICK value \in [Fans -> Percents], forced \in SUBSET Fans :
        /\ SaveBoosts(value, forced) /\ slider' = value
        /\ \A f \in Fans : value[f] # slider[f] => f \in forced
        /\ UNCHANGED <<mode, curve, last, stamped, hw>>
        /\ debounce' \in BOOLEAN /\ events' \in Nat
  <2>1. CASE DebounceTimeout \/ SliderReleased
    <3>1. /\ SaveBoosts(slider, {}) /\ slider' = slider
          /\ UNCHANGED <<mode, curve, last, stamped, hw>>
          /\ debounce' \in BOOLEAN /\ events' \in Nat
      BY <2>1 DEF DebounceTimeout, SliderReleased, TypeOK
    <3>2. slider \in [Fans -> Percents]
      BY DEF TypeOK
    <3> QED BY <3>1, <3>2
  <2>2. CASE CurveReset
    <3> DEFINE moved == {f \in Fans : slider[f] # 0}
               zero  == [f \in Fans |-> 0]
    <3>1. /\ SaveBoosts(slider', moved) /\ slider' = zero
          /\ UNCHANGED <<mode, curve, last, stamped, hw>>
          /\ debounce' = (debounce \/ moved # {}) /\ events' \in Nat
      BY <2>2 DEF CurveReset, Disturb, TypeOK
    <3>2. zero \in [Fans -> Percents] /\ \A f \in Fans : zero[f] # slider[f] => f \in moved
      BY PercentAssumption
    <3>3. debounce' \in BOOLEAN
      BY <3>1 DEF TypeOK
    <3>4. SaveBoosts(zero, moved)
      BY <3>1
    <3> HIDE DEF moved, zero
    <3>5. moved \in SUBSET Fans
      BY DEF moved
    <3> QED BY <3>1, <3>2, <3>3, <3>4, <3>5
  <2> QED BY <2>1, <2>2
<1>2. /\ saved' \in [Fans -> Percents] /\ config' \in [Fans -> Percents]
      /\ boost' \in [Fans -> Percents] /\ force' \subseteq Fans /\ dropped' \subseteq Fans
      /\ KnownIsTrue' /\ FloorIsHonoured' /\ UnsavedIsPendingOrDropped' /\ SavedIsConfigured'
  BY <1>1, SaveBoostsStep
<1>3. TypeOK'
  BY <1>1, <1>2 DEF TypeOK, mode
<1> QED BY <1>2, <1>3

LEMMA SceneResetStep == ASSUME IInv, SceneReset PROVE IInv'
<1> USE DEF IInv
<1>1. /\ slider' = boost /\ saved' = boost /\ dropped' = dropped \cup Unsaved(slider)
      /\ events' \in Nat
      /\ UNCHANGED <<passive, baseline, inScene, written, curve, boost, force, last, stamped, hw,
                     debounce, config>>
  BY DEF SceneReset, Resync, Disturb, TypeOK, mode, fan
<1>2. Unsaved(slider) \subseteq Fans /\ \A f \in Fans : f \in Unsaved(slider) <=> slider[f] # saved[f]
  BY DEF Unsaved
<1>3. TypeOK'
  BY <1>1, <1>2 DEF TypeOK
<1>4. KnownIsTrue' /\ FloorIsHonoured'
  BY <1>1 DEF KnownIsTrue, FloorIsHonoured, Owning
<1>5. \A f \in Fans : f \notin dropped' => config[f] = boost[f]
  BY <1>1, <1>2 DEF UnsavedIsPendingOrDropped
<1>6. UnsavedIsPendingOrDropped' /\ SavedIsConfigured'
  BY <1>1, <1>5 DEF UnsavedIsPendingOrDropped, SavedIsConfigured
<1> QED BY <1>3, <1>4, <1>6

\* Whatever makes the configuration, the boosts, the sliders and what counts as saved
\* equal, and forgets the last mode written, re-establishes the invariant.
LEMMA FreshStep ==
  ASSUME IInv, ReloadFromConfig \/ Restart
  PROVE  IInv'
<1> USE DEF IInv
<1> DEFINE zero == [f \in Fans |-> 0]
<1>1. zero \in [Fans -> Percents] /\ Nobody \in [Fans -> Percents \cup {NoPercent}]
  BY PercentAssumption DEF Nobody
<1>2. /\ boost' = config' /\ slider' = config' /\ saved' = config' /\ config' \in {zero, config}
      /\ written' = NoMode /\ dropped' = {} /\ last' = Nobody /\ stamped' = FALSE
      /\ force' \subseteq Fans /\ UNCHANGED <<curve, hw>> /\ events' \in Nat
      /\ passive' \in BOOLEAN /\ baseline' \in Mode /\ inScene' \in BOOLEAN /\ debounce' \in BOOLEAN
  <2>1. CASE ReloadFromConfig
    BY <2>1 DEF ReloadFromConfig, Resync, Disturb, TypeOK, Mode
  <2>2. CASE Restart
    <3>1. /\ UNCHANGED <<baseline, curve, config, hw>> /\ passive' = FALSE /\ inScene' = FALSE
          /\ written' = NoMode /\ boost' = config /\ slider' = config /\ saved' = config
          /\ force' = {} /\ dropped' = {} /\ last' = Nobody /\ stamped' = FALSE
          /\ debounce' = FALSE
      BY <2>2 DEF Restart
    <3>2. events' \in Nat /\ baseline \in Mode
      BY <2>2 DEF Restart, Disturb, TypeOK
    <3> QED BY <3>1, <3>2
  <2> QED BY <2>1, <2>2
<1>3. config' \in [Fans -> Percents]
  BY <1>1, <1>2 DEF TypeOK
<1> HIDE DEF zero
<1>4. TypeOK'
  BY <1>1, <1>2, <1>3 DEF TypeOK
<1>5. ~Owning'
  BY <1>2 DEF Owning, NoMode
<1> QED BY <1>2, <1>4, <1>5 DEF KnownIsTrue, FloorIsHonoured, UnsavedIsPendingOrDropped, SavedIsConfigured

\* The steps that leave the page alone and either forget the last mode written or leave
\* what is known of the fans alone.
LEMMA ModeStep ==
  ASSUME IInv,
         \/ \E on \in BOOLEAN : SetPassive(on)
         \/ \E m \in Mode : SelectMode(m)
         \/ SceneFlips
         \/ \E f \in Fans, v \in Percents : CurveMoves(f, v)
  PROVE  IInv'
<1> USE DEF IInv
<1>1. /\ UNCHANGED <<boost, force, slider, saved, debounce, config, dropped>>
      /\ events' \in Nat /\ curve' \in [Fans -> Percents]
      /\ passive' \in BOOLEAN /\ baseline' \in Mode /\ inScene' \in BOOLEAN
      /\ last' \in [Fans -> Percents \cup {NoPercent}] /\ stamped' \in BOOLEAN
      /\ hw' \in [Fans -> Percents \cup {Firmware}]
      /\ written' = NoMode \/ UNCHANGED <<passive, written, last, hw>>
  <2>1. CASE \E on \in BOOLEAN : SetPassive(on)
    <3>1. PICK on \in BOOLEAN : SetPassive(on)
      BY <2>1
    <3>2. /\ passive' = on /\ written' = NoMode /\ last' = Nobody /\ stamped' = FALSE
          /\ hw' = ByFirmware
          /\ UNCHANGED <<baseline, inScene, curve, boost, force, slider, saved, debounce, config,
                         dropped>>
      BY <3>1 DEF SetPassive, page
    <3>3. events' \in Nat
      BY <3>1 DEF SetPassive, Disturb, TypeOK
    <3>4. Nobody \in [Fans -> Percents \cup {NoPercent}] /\ ByFirmware \in [Fans -> Percents \cup {Firmware}]
      BY DEF Nobody, ByFirmware
    <3> QED BY <3>2, <3>3, <3>4 DEF TypeOK
  <2>2. CASE \E m \in Mode : SelectMode(m)
    BY <2>2 DEF SelectMode, Disturb, TypeOK, page, fan
  <2>3. CASE SceneFlips
    BY <2>3 DEF SceneFlips, Disturb, TypeOK, page, fan
  <2>4. CASE \E f \in Fans, v \in Percents : CurveMoves(f, v)
    BY <2>4 DEF CurveMoves, Disturb, TypeOK, page, fan, mode
  <2> QED BY <2>1, <2>2, <2>3, <2>4
<1>2. written' \in Mode \cup {NoMode}
  BY <1>1 DEF TypeOK
<1>3. TypeOK'
  BY <1>1, <1>2 DEF TypeOK
<1>4. KnownIsTrue' /\ FloorIsHonoured'
  <2>1. CASE written' = NoMode
    BY <2>1 DEF KnownIsTrue, FloorIsHonoured, Owning, NoMode
  <2>2. CASE UNCHANGED <<passive, written, last, hw>>
    BY <1>1, <2>2 DEF KnownIsTrue, FloorIsHonoured, Owning
  <2> QED BY <1>1, <2>1, <2>2
<1>5. UnsavedIsPendingOrDropped' /\ SavedIsConfigured'
  BY <1>1 DEF UnsavedIsPendingOrDropped, SavedIsConfigured
<1> QED BY <1>3, <1>4, <1>5

-----------------------------------------------------------------------------
LEMMA InitIInv == Init => IInv
<1> SUFFICES ASSUME Init PROVE IInv OBVIOUS
<1>1. curve \in [Fans -> Percents] /\ config \in [Fans -> Percents]
  BY PercentAssumption DEF Init
<1>2. Nobody \in [Fans -> Percents \cup {NoPercent}] /\ ByFirmware \in [Fans -> Percents \cup {Firmware}]
  BY DEF Nobody, ByFirmware
<1>3. TypeOK
  BY <1>1, <1>2 DEF Init, TypeOK
<1> QED BY <1>3 DEF Init, IInv, KnownIsTrue, FloorIsHonoured, UnsavedIsPendingOrDropped,
                    SavedIsConfigured, Owning, NoMode

LEMMA NextIInv == IInv /\ [Next]_vars => IInv'
<1> SUFFICES ASSUME IInv, [Next]_vars PROVE IInv' OBVIOUS
<1>1. CASE Ticking
  BY <1>1, TickStep DEF Ticking
<1>2. ASSUME NEW f \in Fans, NEW v \in Percents, MoveSlider(f, v) PROVE IInv'
  BY <1>2, MoveSliderStep
<1>3. CASE DebounceTimeout \/ SliderReleased \/ CurveReset
  BY <1>3, SavingStep
<1>4. CASE SceneReset
  BY <1>4, SceneResetStep
<1>5. CASE ReloadFromConfig \/ Restart
  BY <1>5, FreshStep
<1>6. CASE \/ \E on \in BOOLEAN : SetPassive(on)
           \/ \E m \in Mode : SelectMode(m)
           \/ SceneFlips
           \/ \E f \in Fans, v \in Percents : CurveMoves(f, v)
  BY <1>6, ModeStep
<1>7. CASE UNCHANGED vars
  BY <1>7 DEF IInv, TypeOK, KnownIsTrue, FloorIsHonoured, UnsavedIsPendingOrDropped,
              SavedIsConfigured, Owning, vars, mode, fan, page
<1> QED BY <1>1, <1>2, <1>3, <1>4, <1>5, <1>6, <1>7 DEF Next

\* The fan control keeps its inductive invariant, for every set of fans and speeds.
THEOREM Invariance == Spec => []IInv
BY InitIInv, NextIInv, PTL DEF Spec

\* The state of the controller and of the sliders is well typed.
THEOREM TypeCorrect == Spec => []TypeOK
<1>1. IInv => TypeOK
  BY DEF IInv
<1> QED BY <1>1, Invariance, PTL

\* In Custom what the controller remembers of a fan is what the fan does, through
\* refused writes, adoption, monitor mode, resets and restarts (Controller.cpp:462).
THEOREM KnownStaysTrue == Spec => []KnownIsTrue
<1>1. IInv => KnownIsTrue
  BY DEF IInv
<1> QED BY <1>1, Invariance, PTL

\* A fan the controller drives runs at its boost or faster, unless a rewrite is queued
\* for it (Controller.cpp:494).
THEOREM FloorsAreHonoured == Spec => []FloorIsHonoured
<1>1. IInv => FloorIsHonoured
  BY DEF IInv
<1> QED BY <1>1, Invariance, PTL

\* A boost that differs from the configuration is about to be saved, or a scene reset
\* dropped it (ThermalPage.cpp:287).
THEOREM NoBoostIsForgotten == Spec => []UnsavedIsPendingOrDropped
<1>1. IInv => UnsavedIsPendingOrDropped
  BY DEF IInv
<1> QED BY <1>1, Invariance, PTL
=============================================================================
