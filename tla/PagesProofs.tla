---------------------------- MODULE PagesProofs ----------------------------
(***************************************************************************)
(* Proofs about Pages, for every value of its constants: any temperatures,    *)
(* durations, profile names and plans, and any number of steps.               *)
(*                                                                          *)
(* "Start with Windows" is inductive as it stands.  That the controls show     *)
(* the configuration is not: a duration out of range would be cut when the     *)
(* page is reloaded, so what is saved has to be in range (SceneIInv), and a    *)
(* row of the profile list is found again by its name only because a finite    *)
(* list has a last profile of that name (Greatest).  That the saved curve is    *)
(* valid rests on the points of the editor: they rise strictly (CurveIInv),     *)
(* while one is dragged (MoveStep) and after every commit (SortedRises).        *)
(***************************************************************************)
EXTENDS Pages, SequenceTheorems, FiniteSetTheorems, WellFoundedInduction, TLAPS

-----------------------------------------------------------------------------
\* "Start with Windows".

LEMMA SetEnabledTask ==
  ASSUME NEW on \in BOOLEAN, NEW ok \in BOOLEAN, SetEnabled(on, ok), told'
  PROVE  told /\ task' = IF ok THEN on ELSE task
BY DEF SetEnabled, Schtasks

LEMMA ResetSettingsTask ==
  ASSUME AutostartIsTask, ResetSettings
  PROVE  AutostartIsTask'
<1> SUFFICES ASSUME told' PROVE autostart' <=> task'
  BY DEF AutostartIsTask
<1>1. PICK ok \in BOOLEAN :
        /\ IF autostart THEN SetEnabled(FALSE, ok) ELSE ok /\ UNCHANGED <<task, told>>
        /\ autostart' = AutostartAfterReset(ok)
  BY DEF ResetSettings
<1>2. CASE autostart
  <2>1. told /\ task' = IF ok THEN FALSE ELSE task
    BY <1>1, <1>2, SetEnabledTask
  <2> QED BY <1>1, <1>2, <2>1 DEF AutostartIsTask, AutostartAfterReset
<1>3. CASE ~autostart
  BY <1>1, <1>3 DEF AutostartIsTask, AutostartAfterReset
<1> QED BY <1>2, <1>3

LEMMA ToggledTask ==
  ASSUME AutostartIsTask, OnAutostartToggled
  PROVE  AutostartIsTask'
<1> SUFFICES ASSUME told' PROVE autostart' <=> task'
  BY DEF AutostartIsTask
<1>1. PICK ok \in BOOLEAN : /\ SetEnabled(~autostartButton, ok)
                            /\ autostart' = ActualAutostart(~autostartButton, ok)
  BY DEF OnAutostartToggled
<1>2. told /\ task' = IF ok THEN ~autostartButton ELSE task
  BY <1>1, SetEnabledTask
<1> QED BY <1>1, <1>2 DEF AutostartIsTask, ActualAutostart

LEMMA NextTask ==
  ASSUME AutostartIsTask, [Next]_vars
  PROVE  AutostartIsTask'
<1>1. CASE OnAutostartToggled
  BY <1>1, ToggledTask
<1>2. CASE ResetSettings
  BY <1>2, ResetSettingsTask
<1>3. CASE TaskDeleted
  BY <1>3 DEF TaskDeleted, AutostartIsTask
<1>4. CASE UNCHANGED <<autostart, task, told>>
  BY <1>4 DEF AutostartIsTask
<1>5. SettingsStep \/ ResetSettings \/ BuildSettings \/ UNCHANGED settingsVars
  <2>1. CASE User
    BY <2>1 DEF User, OnCurve, OnScene, OnProfiles, OnPlans, OnSettings, ModeChanges,
                RestoreDefaults, RestoreScene, Restart
  <2>2. CASE Program(PlanProgramStep)
    BY <2>2 DEF Program
  <2>3. CASE UNCHANGED vars
    BY <2>3 DEF vars, pages
  <2> QED BY <2>1, <2>2, <2>3 DEF Next
<1>6. \/ OnAutostartToggled \/ ResetSettings \/ TaskDeleted
      \/ UNCHANGED <<autostart, task, told>>
  BY <1>5 DEF SettingsStep, Toggle, OnLogLevelChanged, BuildSettings, settingsVars
<1> QED BY <1>1, <1>2, <1>3, <1>4, <1>6

\* The saved "Start with Windows" is the scheduled task, through failures of schtasks,
\* resets and restarts.
THEOREM AutostartAgrees == Spec => []AutostartIsTask
<1>1. Init => AutostartIsTask
  BY DEF Init, SettingsInit, AutostartIsTask
<1>2. AutostartIsTask /\ [Next]_vars => AutostartIsTask'
  BY NextTask
<1> QED BY <1>1, <1>2, PTL DEF Spec

-----------------------------------------------------------------------------
\* The scene card.

SceneIInv ==
  /\ sceneSaved \in [enabled : BOOLEAN, seconds : 1 .. MaxSeconds]
  /\ unit \in {"s", "min"} /\ (wasMin <=> unit = "min") /\ wasMin \in BOOLEAN
  /\ spin \in Range1(unit)
  /\ SceneShown

\* Multiplication is monotonic.
LEMMA Times ==
  ASSUME NEW a \in Nat, NEW b \in Nat, NEW c \in Nat, a <= b
  PROVE  a * c <= b * c /\ a * c \in Nat
OBVIOUS

LEMMA MaxSecondsType == MaxSeconds \in Nat /\ 1 <= MaxSeconds
BY DurationAssumption DEF MaxSeconds

\* A value of the spin box is a duration that may be saved.
LEMMA ShownInRange ==
  ASSUME NEW u \in {"s", "min"}, NEW n \in Range1(u)
  PROVE  SecondsShown(n, u) \in 1 .. MaxSeconds
<1>1. CASE u = "s"
  BY <1>1, MaxSecondsType DEF Range1, SecondsShown
<1>2. CASE u = "min"
  <2>1. n \in 1 .. MaxMinutes
    BY <1>2 DEF Range1
  <2>2. n * Minute <= MaxMinutes * Minute /\ n * Minute \in Nat
    BY <2>1, Times, DurationAssumption
  <2>3. 1 * Minute <= n * Minute
    BY <2>1, Times, DurationAssumption
  <2>4. MaxMinutes * Minute = MaxSeconds
    BY DurationAssumption DEF MaxSeconds
  <2> QED BY <1>2, <2>1, <2>2, <2>3, <2>4, MaxSecondsType, DurationAssumption DEF SecondsShown
<1> QED BY <1>1, <1>2

LEMMA BoundedIsWithin ==
  ASSUME NEW lo \in Int, NEW hi \in Int, lo <= hi, NEW n \in Int
  PROVE  /\ Bounded(lo, n, hi) \in lo .. hi
         /\ n \in lo .. hi => Bounded(lo, n, hi) = n
BY DEF Bounded

\* Setting the controls to parameters that are in range.
LEMMA ShowSceneStep ==
  ASSUME NEW params \in [enabled : BOOLEAN, seconds : 1 .. MaxSeconds],
         ShowScene(params), sceneSaved' = params, sceneLive' = params
  PROVE  SceneIInv'
<1>1. params.seconds \in 1 .. MaxSeconds /\ params.enabled \in BOOLEAN
  OBVIOUS
<1>2. spin' = params.seconds
  BY <1>1, BoundedIsWithin, MaxSecondsType DEF ShowScene
<1>3. enabledBox' = params.enabled /\ unit' = "s" /\ wasMin' = FALSE
  BY DEF ShowScene
<1>4. SecondsShown(spin', unit') = params.seconds
  BY <1>1, <1>2, <1>3 DEF SecondsShown
<1>5. spin' \in Range1(unit')
  BY <1>1, <1>2, <1>3 DEF Range1
<1> QED BY <1>3, <1>4, <1>5 DEF SceneIInv, SceneShown

\* Rounding to minutes is off by less than a minute.
LEMMA RoundedError ==
  ASSUME NEW s \in 1 .. MaxSeconds
  PROVE  /\ Rounded(s) \in Int
         /\ Rounded(s) * Minute < s + Minute
         /\ s < Rounded(s) * Minute + Minute
<1> DEFINE d == 2 * Minute
           a == 2 * s + Minute
           q == a \div d
<1>1. d \in Nat /\ d > 0 /\ a \in Nat /\ Minute \in Nat /\ Minute > 0 /\ s \in Nat
  BY DurationAssumption, MaxSecondsType
<1>2. q \in Int /\ d * q <= a /\ a < d * q + d
  <2> HIDE DEF d, a
  <2> QED BY <1>1
<1>3. d * q = 2 * (q * Minute)
  BY <1>1, <1>2
<1>4. q * Minute \in Int
  BY <1>1, <1>2
<1>5. 2 * (q * Minute) <= 2 * s + Minute /\ 2 * s + Minute < 2 * (q * Minute) + 2 * Minute
  BY <1>2, <1>3
<1>6. q * Minute < s + Minute /\ s < q * Minute + Minute
  <2> HIDE DEF q
  <2> QED BY <1>1, <1>4, <1>5
<1> QED BY <1>2, <1>6 DEF Rounded

\* The new duration is within a minute of the old one.
Near ==
  /\ sceneSaved'.seconds < sceneSaved.seconds + Minute
  /\ sceneSaved.seconds < sceneSaved'.seconds + Minute

LEMMA SwitchToMinutes ==
  ASSUME SceneIInv, SwitchUnit, unit = "s"
  PROVE  SceneIInv' /\ Near
<1> DEFINE m == Bounded(1, Rounded(spin), MaxMinutes)
<1>1. /\ ~wasMin /\ spin = sceneSaved.seconds /\ spin \in 1 .. MaxSeconds
      /\ sceneSaved \in [enabled : BOOLEAN, seconds : 1 .. MaxSeconds]
      /\ enabledBox = sceneSaved.enabled /\ spin \in Nat
  BY MaxSecondsType DEF SceneIInv, SceneShown, SecondsShown, Range1
<1>2. spin * UnitBefore(unit) = spin
  BY <1>1 DEF UnitBefore
<1>3. /\ unit' = "min" /\ wasMin' = TRUE /\ spin' = m
      /\ sceneSaved' = [sceneSaved EXCEPT !.seconds = SecondsShown(m, "min")]
      /\ sceneLive' = sceneSaved' /\ enabledBox' = enabledBox
  <2>1. unit = "s" /\ unit' = (IF unit = "s" THEN "min" ELSE "s")
    BY DEF SwitchUnit
  <2>2. unit' = "min"
    BY <2>1
  <2>3. /\ wasMin' = (unit' = "min") /\ enabledBox' = enabledBox
        /\ spin' = Bounded(1, Rounded(spin * UnitBefore(unit)), MaxMinutes)
        /\ Save([sceneSaved EXCEPT !.seconds = SecondsShown(spin', unit')])
    BY <2>1, <2>2 DEF SwitchUnit
  <2> QED BY <1>2, <2>2, <2>3 DEF Save
<1>4. /\ Rounded(spin) \in Int
      /\ Rounded(spin) * Minute < spin + Minute
      /\ spin < Rounded(spin) * Minute + Minute
  BY <1>1, RoundedError
<1>5. m \in 1 .. MaxMinutes /\ (Rounded(spin) \in 1 .. MaxMinutes => m = Rounded(spin))
  <2>1. 1 \in Int /\ MaxMinutes \in Int /\ 1 <= MaxMinutes
    BY DurationAssumption
  <2> QED BY <1>4, <2>1, BoundedIsWithin
<1>6. m \in Range1("min") /\ SecondsShown(m, "min") \in 1 .. MaxSeconds
  BY <1>5, ShownInRange DEF Range1
<1>7. SceneIInv'
  BY <1>1, <1>3, <1>6 DEF SceneIInv, SceneShown
<1>8. SecondsShown(m, "min") = m * Minute /\ sceneSaved'.seconds = m * Minute
  BY <1>1, <1>3 DEF SecondsShown
<1>9. m * Minute < spin + Minute /\ spin < m * Minute + Minute
  <2>1. CASE Rounded(spin) \in 1 .. MaxMinutes
    BY <1>4, <1>5, <2>1
  <2>2. CASE Rounded(spin) < 1
    <3>1. m = 1
      BY <1>4, <2>2, DurationAssumption DEF Bounded
    <3>2. Rounded(spin) * Minute <= 0
      BY <1>4, <2>2, DurationAssumption
    <3>3. Rounded(spin) * Minute \in Int
      BY <1>4, DurationAssumption
    <3>4. spin < Minute /\ m * Minute = Minute
      BY <1>1, <1>4, <3>1, <3>2, <3>3, DurationAssumption
    <3> HIDE DEF m
    <3> QED BY <1>1, <3>4, DurationAssumption
  <2>3. CASE Rounded(spin) > MaxMinutes
    <3>1. m = MaxMinutes
      BY <1>4, <2>3, DurationAssumption DEF Bounded
    <3>2. MaxMinutes * Minute <= Rounded(spin) * Minute /\ Rounded(spin) * Minute \in Nat
      BY <1>4, <2>3, Times, DurationAssumption
    <3>3. MaxMinutes * Minute = MaxSeconds /\ MaxSeconds \in Nat
      BY DurationAssumption, MaxSecondsType DEF MaxSeconds
    <3> HIDE DEF m
    <3> QED BY <1>1, <1>4, <3>1, <3>2, <3>3, DurationAssumption
  <2> QED BY <1>4, <2>1, <2>2, <2>3, DurationAssumption
<1> QED BY <1>1, <1>7, <1>8, <1>9 DEF Near

LEMMA SwitchToSeconds ==
  ASSUME SceneIInv, SwitchUnit, unit = "min"
  PROVE  SceneIInv' /\ Near
<1> DEFINE s == Bounded(1, spin * Minute, MaxSeconds)
<1>1. /\ wasMin /\ spin \in Range1("min") /\ enabledBox = sceneSaved.enabled
      /\ SecondsShown(spin, "min") = sceneSaved.seconds
      /\ sceneSaved \in [enabled : BOOLEAN, seconds : 1 .. MaxSeconds]
  BY DEF SceneIInv, SceneShown
<1>2. spin * Minute = sceneSaved.seconds /\ sceneSaved.seconds \in 1 .. MaxSeconds
  BY <1>1 DEF SecondsShown
<1>3. /\ unit' = "s" /\ wasMin' = FALSE /\ spin' = s
      /\ sceneSaved' = [sceneSaved EXCEPT !.seconds = SecondsShown(s, "s")]
      /\ sceneLive' = sceneSaved' /\ enabledBox' = enabledBox
  BY <1>1 DEF SwitchUnit, Save, UnitBefore
<1>4. s = sceneSaved.seconds
  BY <1>2, BoundedIsWithin, MaxSecondsType
<1>5. SecondsShown(s, "s") = s
  <2> HIDE DEF s
  <2> QED BY <1>2, <1>4 DEF SecondsShown
<1>6. SceneIInv'
  <2> HIDE DEF s
  <2> QED BY <1>1, <1>2, <1>3, <1>4, <1>5 DEF SceneIInv, SceneShown, Range1
<1>7. sceneSaved'.seconds = sceneSaved.seconds
  <2> HIDE DEF s
  <2> QED BY <1>1, <1>3, <1>4, <1>5
<1> QED BY <1>2, <1>6, <1>7, DurationAssumption, MaxSecondsType DEF Near

LEMMA EditStep ==
  ASSUME SceneIInv, NEW n \in 1 .. MaxSeconds, Edit(n)
  PROVE  SceneIInv' /\ unit' = unit
<1>1. /\ n \in Range1(unit) /\ spin' = n /\ unit' = unit /\ wasMin' = wasMin
      /\ sceneSaved' = [sceneSaved EXCEPT !.seconds = SecondsShown(n, unit)]
      /\ sceneLive' = sceneSaved' /\ enabledBox' = enabledBox
  BY DEF Edit, Save
<1>2. SecondsShown(n, unit) \in 1 .. MaxSeconds
  BY <1>1, ShownInRange DEF SceneIInv
<1> QED BY <1>1, <1>2 DEF SceneIInv, SceneShown

LEMMA ToggleEnabledStep ==
  ASSUME SceneIInv, ToggleEnabled
  PROVE  SceneIInv' /\ unit' = unit
<1>1. /\ enabledBox' = ~enabledBox
      /\ sceneSaved' = [sceneSaved EXCEPT !.enabled = enabledBox']
      /\ sceneLive' = sceneSaved' /\ UNCHANGED <<spin, unit, wasMin>>
  BY DEF ToggleEnabled, Save
<1>2. enabledBox' \in BOOLEAN
  BY <1>1
<1> QED BY <1>1, <1>2 DEF SceneIInv, SceneShown

\* A step of the program does one of these to the card.
LEMMA SceneCardSteps ==
  ASSUME [Next]_vars
  PROVE  \/ SceneStep
         \/ ResetScene
         \/ Save(DefaultScene) /\ ShowScene(DefaultScene)
         \/ UNCHANGED sceneSaved /\ sceneLive' = sceneSaved /\ ShowScene(sceneSaved)
         \/ UNCHANGED sceneVars
<1>1. CASE User
  BY <1>1 DEF User, OnCurve, OnScene, OnProfiles, OnPlans, OnSettings, ModeChanges,
              RestoreDefaults, RestoreScene, Restart
<1>2. CASE Program(PlanProgramStep)
  BY <1>2 DEF Program
<1>3. CASE UNCHANGED vars
  BY <1>3 DEF vars, pages
<1> QED BY <1>1, <1>2, <1>3 DEF Next

LEMMA NextScene ==
  ASSUME SceneIInv, [Next]_vars
  PROVE  SceneIInv' /\ (unit' # unit => Near \/ sceneSaved'.seconds = DefaultSeconds)
<1>1. CASE SwitchUnit
  BY <1>1, SwitchToMinutes, SwitchToSeconds DEF SceneIInv
<1>2. CASE ToggleEnabled
  BY <1>2, ToggleEnabledStep
<1>3. CASE \E n \in 1 .. MaxSeconds : Edit(n)
  BY <1>3, EditStep
<1>4. ASSUME NEW on \in BOOLEAN, Save([enabled |-> on, seconds |-> DefaultSeconds]),
             ShowScene([enabled |-> on, seconds |-> DefaultSeconds])
      PROVE  SceneIInv' /\ sceneSaved'.seconds = DefaultSeconds
  <2>1. [enabled |-> on, seconds |-> DefaultSeconds] \in [enabled : BOOLEAN, seconds : 1 .. MaxSeconds]
    BY DurationAssumption
  <2> QED BY <1>4, <2>1, ShowSceneStep DEF Save
<1>5. CASE ResetScene
  <2>1. enabledBox \in BOOLEAN
    BY DEF SceneIInv, SceneShown
  <2> QED BY <1>4, <1>5, <2>1 DEF ResetScene
<1>6. CASE Save(DefaultScene) /\ ShowScene(DefaultScene)
  BY <1>4, <1>6 DEF DefaultScene
<1>7. CASE UNCHANGED sceneSaved /\ sceneLive' = sceneSaved /\ ShowScene(sceneSaved)
  <2>1. SceneIInv'
    BY <1>7, ShowSceneStep DEF SceneIInv
  <2>2. sceneSaved.seconds \in 1 .. MaxSeconds
    BY DEF SceneIInv
  <2> QED BY <1>7, <2>1, <2>2, DurationAssumption, MaxSecondsType DEF Near
<1>8. CASE UNCHANGED sceneVars
  BY <1>8 DEF sceneVars, SceneIInv, SceneShown
<1> QED BY <1>1, <1>2, <1>3, <1>5, <1>6, <1>7, <1>8, SceneCardSteps DEF SceneStep

LEMMA InitScene == Init => SceneIInv
<1> SUFFICES ASSUME Init PROVE SceneIInv
  OBVIOUS
<1>1. /\ sceneSaved \in [enabled : BOOLEAN, seconds : 1 .. MaxSeconds] /\ sceneLive = sceneSaved
      /\ enabledBox = sceneSaved.enabled /\ spin = sceneSaved.seconds /\ unit = "s" /\ wasMin = FALSE
  BY DEF Init, SceneInit
<1>2. spin \in Range1(unit) /\ SecondsShown(spin, unit) = spin
  BY <1>1, MaxSecondsType DEF Range1, SecondsShown
<1> QED BY <1>1, <1>2 DEF SceneIInv, SceneShown

THEOREM SceneInvariance == Spec => []SceneIInv
<1>1. SceneIInv /\ [Next]_vars => SceneIInv'
  BY NextScene
<1> QED BY InitScene, <1>1, PTL DEF Spec

\* Whatever the lengths of a minute and of the range are, switching the unit moves the
\* saved duration by less than a minute, unless the card goes back to its default.
THEOREM DurationSurvivesTheUnit == Spec => UnitKeepsDuration
<1>1. SceneIInv /\ [Next]_vars
        => [unit' # unit =>
              \/ sceneSaved'.seconds < sceneSaved.seconds + Minute
                 /\ sceneSaved.seconds < sceneSaved'.seconds + Minute
              \/ sceneSaved'.seconds = DefaultSeconds]_vars
  BY NextScene DEF Near
<1> QED BY SceneInvariance, <1>1, PTL DEF Spec, UnitKeepsDuration

-----------------------------------------------------------------------------
\* The curve and the settings.

LEMMA ShowCurveStep ==
  ASSUME NEW m, NEW saved, ShowCurve(m, saved)
  PROVE  CurveShown'
BY DEF ShowCurve, SetPoints, CurveShown

\* Only an editable curve is edited.
LEMMA CurveStepShown ==
  ASSUME CurveShown, CurveStep
  PROVE  CurveShown'
<1>1. CASE \E i \in 0 .. Len(points) : Press(i)
  BY <1>1 DEF Press, CurveShown
<1>2. CASE \E p \in Points : Move(p)
  BY <1>2 DEF Move, Editable, EditableIn, CurveShown
<1>3. CASE Release
  <2>1. CASE Editable
    BY <1>3, <2>1 DEF Release, Editable, EditableIn, CurveShown
  <2>2. CASE ~Editable
    BY <1>3, <2>2 DEF Release, CurveShown
  <2> QED BY <2>1, <2>2
<1>4. CASE OpenMenu
  BY <1>4 DEF OpenMenu, CurveShown
<1>5. CASE TriggerItem
  BY <1>5 DEF TriggerItem, Editable, EditableIn, CurveShown
<1>6. CASE CloseMenu
  BY <1>6 DEF CloseMenu, CurveShown
<1>7. CASE \E m \in FactoryModes \cup {CustomMode} : ShowMode(m)
  BY <1>7, ShowCurveStep DEF ShowMode
<1>8. CASE ResetCurve
  BY <1>8 DEF ResetCurve, Editable, EditableIn, CurveShown
<1> QED BY <1>1, <1>2, <1>3, <1>4, <1>5, <1>6, <1>7, <1>8 DEF CurveStep

LEMMA NextCurve ==
  ASSUME CurveShown, [Next]_vars
  PROVE  CurveShown'
<1>1. \/ CurveStep
      \/ \E m \in FactoryModes \cup {CustomMode} : ShowMode(m)
      \/ ReloadCurve(DefaultMode, DefaultCurve, DefaultCurve)
      \/ ReloadCurve(mode, curve, live)
      \/ BuildCurve(mode, curve)
      \/ UNCHANGED curveVars
  <2>1. CASE User
    BY <2>1 DEF User, OnCurve, OnScene, OnProfiles, OnPlans, OnSettings, ModeChanges,
                RestoreDefaults, RestoreScene, Restart
  <2>2. CASE Program(PlanProgramStep)
    BY <2>2 DEF Program
  <2>3. CASE UNCHANGED vars
    BY <2>3 DEF vars, pages
  <2> QED BY <2>1, <2>2, <2>3 DEF Next
<1>2. CASE CurveStep
  BY <1>2, CurveStepShown
<1>3. CASE \E m \in FactoryModes \cup {CustomMode} : ShowMode(m)
  BY <1>3, ShowCurveStep DEF ShowMode
<1>4. CASE \/ ReloadCurve(DefaultMode, DefaultCurve, DefaultCurve)
           \/ ReloadCurve(mode, curve, live)
  BY <1>4, ShowCurveStep DEF ReloadCurve
<1>5. CASE BuildCurve(mode, curve)
  BY <1>5, ShowCurveStep DEF BuildCurve
<1>6. CASE UNCHANGED curveVars
  BY <1>6 DEF curveVars, CurveShown
<1> QED BY <1>1, <1>2, <1>3, <1>4, <1>5, <1>6

LEMMA NextSettings ==
  ASSUME SettingsShown, [Next]_vars
  PROVE  SettingsShown'
<1>1. SettingsStep \/ ResetSettings \/ BuildSettings \/ UNCHANGED settingsVars
  <2>1. CASE User
    BY <2>1 DEF User, OnCurve, OnScene, OnProfiles, OnPlans, OnSettings, ModeChanges,
                RestoreDefaults, RestoreScene, Restart
  <2>2. CASE Program(PlanProgramStep)
    BY <2>2 DEF Program
  <2>3. CASE UNCHANGED vars
    BY <2>3 DEF vars, pages
  <2> QED BY <2>1, <2>2, <2>3 DEF Next
<1>2. CASE SettingsStep
  BY <1>2 DEF SettingsStep, OnAutostartToggled, TaskDeleted, Toggle, OnLogLevelChanged, SettingsShown
<1>3. CASE ResetSettings
  BY <1>3 DEF ResetSettings, SettingsShown
<1>4. CASE BuildSettings
  BY <1>4 DEF BuildSettings, SettingsShown
<1>5. CASE UNCHANGED settingsVars
  BY <1>5 DEF settingsVars, SettingsShown
<1> QED BY <1>1, <1>2, <1>3, <1>4, <1>5

-----------------------------------------------------------------------------
\* The profiles.

Names   == Nat \cup NewNames
Profile == [name : Names, watts : Watts]

ProfilesIInv ==
  /\ profiles \in Seq(Profile) /\ stored \in Seq(Profile)
  /\ row \in 0 .. Len(profiles) /\ slider \in Watts
  /\ ProfilesShown

\* Every set of naturals that is not empty has a least element, and every bounded one a
\* greatest.
LEMMA Least ==
  ASSUME NEW T \in SUBSET Nat, T # {}
  PROVE  \E x \in T : \A y \in T : x <= y
<1>1. \E x \in T : \A y \in T : ~ (<<y, x>> \in OpToRel(<, Nat))
  BY NatLessThanWellFounded, WFMin
<1>2. PICK x \in T : \A y \in T : ~ (<<y, x>> \in OpToRel(<, Nat))
  BY <1>1
<1>3. \A y \in T : ~(y < x)
  BY <1>2 DEF OpToRel
<1> QED BY <1>3

LEMMA Greatest ==
  ASSUME NEW n \in Nat, NEW S \in SUBSET (0 .. n), S # {}
  PROVE  \E x \in S : \A y \in S : y <= x
<1> DEFINE T == {n - i : i \in S}
<1>1. T \in SUBSET Nat /\ T # {}
  <2>1. \A i \in S : i \in 0 .. n
    OBVIOUS
  <2>2. \A i \in S : n - i \in Nat
    BY <2>1
  <2>3. T \subseteq Nat
    BY <2>2
  <2>4. PICK i \in S : TRUE
    OBVIOUS
  <2>5. n - i \in T
    BY <2>4
  <2> QED BY <2>3, <2>5
<1>2. PICK t \in T : \A y \in T : t <= y
  <2> HIDE DEF T
  <2> QED BY <1>1, Least
<1>3. PICK x \in S : t = n - x
  BY <1>2
<1>4. \A y \in S : n - x <= n - y
  BY <1>2, <1>3
<1> QED BY <1>3, <1>4

\* The row that is selected is one of the list, if there is any.
LEMMA RowOfType ==
  ASSUME NEW list \in Seq(Profile), NEW name
  PROVE  /\ RowOf(list, name) \in 0 .. Len(list)
         /\ RowOf(list, name) = 0 <=> list = <<>>
<1> DEFINE named == {i \in DOMAIN list : list[i].name = name}
<1>1. Len(list) \in Nat /\ DOMAIN list = 1 .. Len(list) /\ (list = <<>> <=> Len(list) = 0)
  BY EmptySeq, LenProperties
<1>2. CASE named # {}
  <2>1. named \in SUBSET (0 .. Len(list)) /\ named \subseteq 1 .. Len(list)
    BY <1>1
  <2>2. \E i \in named : \A j \in named : j <= i
    <3> HIDE DEF named
    <3> QED BY <1>1, <1>2, <2>1, Greatest
  <2>3. RowOf(list, name) = CHOOSE i \in named : \A j \in named : j <= i
    BY <1>2 DEF RowOf
  <2>4. RowOf(list, name) \in named
    <3> HIDE DEF named
    <3> QED BY <2>2, <2>3
  <2>5. RowOf(list, name) \in 1 .. Len(list)
    <3> HIDE DEF named
    <3> QED BY <2>1, <2>4
  <2> QED BY <1>1, <2>5
<1>3. CASE named = {} /\ list = <<>>
  BY <1>1, <1>3 DEF RowOf
<1>4. CASE named = {} /\ list # <<>>
  <2>1. RowOf(list, name) = 1
    BY <1>4 DEF RowOf
  <2>2. Len(list) >= 1
    BY <1>1, <1>4
  <2> QED BY <1>1, <1>4, <2>1, <2>2
<1> QED BY <1>2, <1>3, <1>4

\* Whoever stores a list and refreshes the page shows it.
LEMMA RefreshStep ==
  ASSUME slider \in Watts, NEW list \in Seq(Profile), NEW name,
         profiles' = list, stored' = list, Refresh(list, name)
  PROVE  ProfilesIInv'
<1>1. /\ row' = RowOf(list, name) /\ slider' = Loaded(list, row')
      /\ moved' = IF row' = 0 THEN moved ELSE FALSE
  BY DEF Refresh
<1>2. row' \in 0 .. Len(list) /\ (row' = 0 <=> list = <<>>)
  BY <1>1, RowOfType
<1>3. Len(list) \in Nat
  BY LenProperties
<1>4. CASE row' = 0
  <2>1. slider' = slider
    BY <1>1, <1>4 DEF Loaded
  <2> QED BY <1>2, <1>3, <1>4, <2>1 DEF ProfilesIInv, ProfilesShown
<1>5. CASE row' # 0
  <2>1. slider' = list[row'].watts /\ moved' = FALSE
    BY <1>1, <1>5 DEF Loaded
  <2>2. row' \in 1 .. Len(list)
    BY <1>2, <1>3, <1>5
  <2>3. list[row'] \in Profile
    BY <2>2, ElementOfSeq
  <2>4. slider' \in Watts
    BY <2>1, <2>3 DEF Profile
  <2> QED BY <1>2, <1>3, <1>5, <2>1, <2>4 DEF ProfilesIInv, ProfilesShown
<1> QED BY <1>4, <1>5

LEMMA RemoveAtType ==
  ASSUME NEW S, NEW list \in Seq(S), NEW i \in 1 .. Len(list)
  PROVE  RemoveAt(list, i) \in Seq(S)
<1>1. Len(list) \in Nat /\ \A j \in 1 .. Len(list) : list[j] \in S
  BY LenProperties, ElementOfSeq
<1>2. SubSeq(list, 1, i - 1) \in Seq(S)
  <2>1. \A j \in 1 .. i - 1 : list[j] \in S
    BY <1>1
  <2> QED BY <1>1, <2>1, SubSeqProperties
<1>3. SubSeq(list, i + 1, Len(list)) \in Seq(S)
  <2>1. \A j \in i + 1 .. Len(list) : list[j] \in S
    BY <1>1
  <2> QED BY <1>1, <2>1, SubSeqProperties
<1> QED BY <1>2, <1>3, ConcatProperties DEF RemoveAt

LEMMA ProfilesStepShown ==
  ASSUME ProfilesIInv, ProfilesStep
  PROVE  ProfilesIInv'
<1> USE DEF ProfilesIInv
<1>1. Len(profiles) \in Nat /\ \A i \in 1 .. Len(profiles) : profiles[i] \in Profile
  BY LenProperties, ElementOfSeq
<1>2. CASE NewProfile
  <2> DEFINE name == Len(profiles) + 1
             list == Append(profiles, [name |-> name, watts |-> slider])
  <2>1. [name |-> name, watts |-> slider] \in Profile
    BY <1>1 DEF Profile, Names
  <2>2. list \in Seq(Profile)
    BY <2>1, AppendProperties
  <2>3. profiles' = list /\ stored' = list /\ Refresh(list, name)
    BY <1>2 DEF NewProfile, Store
  <2> HIDE DEF list, name
  <2> QED BY <2>2, <2>3, RefreshStep
<1>3. CASE Delete
  <2>1. row \in 1 .. Len(profiles)
    BY <1>1, <1>3 DEF Delete
  <2>2. RemoveAt(profiles, row) \in Seq(Profile)
    BY <2>1, RemoveAtType
  <2> QED BY <1>3, <2>2, RefreshStep DEF Delete, Store
<1>4. CASE SaveProfile
  <2> DEFINE list == [profiles EXCEPT ![row].watts = slider]
  <2>1. row \in 1 .. Len(profiles)
    BY <1>1, <1>4 DEF SaveProfile
  <2>2. [profiles[row] EXCEPT !.watts = slider] \in Profile
    BY <1>1, <2>1 DEF Profile
  <2>3. list \in Seq(Profile)
    BY <2>1, <2>2, ExceptSeq
  <2>4. profiles' = list /\ stored' = list /\ Refresh(list, list[row].name)
    BY <1>4 DEF SaveProfile, Store
  <2> HIDE DEF list
  <2> QED BY <2>3, <2>4, RefreshStep
<1>5. ASSUME NEW name \in NewNames, Rename(name) PROVE ProfilesIInv'
  <2> DEFINE list == [profiles EXCEPT ![row].name = name]
  <2>1. row \in 1 .. Len(profiles)
    BY <1>1, <1>5 DEF Rename
  <2>2. [profiles[row] EXCEPT !.name = name] \in Profile
    BY <1>1, <2>1 DEF Profile, Names
  <2>3. list \in Seq(Profile)
    BY <2>1, <2>2, ExceptSeq
  <2>4. profiles' = list /\ stored' = list /\ Refresh(list, name)
    BY <1>5 DEF Rename, Store
  <2> HIDE DEF list
  <2> QED BY <2>3, <2>4, RefreshStep
<1>6. ASSUME NEW i \in DOMAIN profiles, SelectRow(i) PROVE ProfilesIInv'
  <2>1. i \in 1 .. Len(profiles)
    BY LenProperties
  <2>2. /\ row' = i /\ slider' = profiles[i].watts /\ moved' = FALSE
        /\ profiles' = profiles /\ stored' = stored
    BY <1>6 DEF SelectRow
  <2>3. slider' \in Watts
    BY <1>1, <2>1, <2>2 DEF Profile
  <2>4. profiles # <<>>
    BY <2>1, EmptySeq
  <2> QED BY <1>1, <2>1, <2>2, <2>3, <2>4 DEF ProfilesShown
<1>7. ASSUME NEW w \in Watts, MoveSlider(w) PROVE ProfilesIInv'
  BY <1>7 DEF MoveSlider, ProfilesShown
<1> QED BY <1>2, <1>3, <1>4, <1>5, <1>6, <1>7 DEF ProfilesStep

LEMMA NextProfiles ==
  ASSUME ProfilesIInv, [Next]_vars
  PROVE  ProfilesIInv'
<1>1. ProfilesStep \/ LoadProfiles(<<>>) \/ LoadProfiles(stored) \/ UNCHANGED profileVars
  <2>1. CASE User
    BY <2>1 DEF User, OnCurve, OnScene, OnProfiles, OnPlans, OnSettings, ModeChanges,
                RestoreDefaults, RestoreScene, Restart
  <2>2. CASE Program(PlanProgramStep)
    BY <2>2 DEF Program
  <2>3. CASE UNCHANGED vars
    BY <2>3 DEF vars, pages
  <2> QED BY <2>1, <2>2, <2>3 DEF Next
<1>2. slider \in Watts /\ stored \in Seq(Profile) /\ <<>> \in Seq(Profile)
  BY EmptySeq DEF ProfilesIInv
<1>3. CASE LoadProfiles(<<>>) \/ LoadProfiles(stored)
  BY <1>2, <1>3, RefreshStep DEF LoadProfiles
<1>4. CASE UNCHANGED profileVars
  BY <1>4 DEF profileVars, ProfilesIInv, ProfilesShown
<1> QED BY <1>1, <1>3, <1>4, ProfilesStepShown

-----------------------------------------------------------------------------
PagesIInv == SettingsShown /\ CurveShown /\ ProfilesIInv /\ SceneIInv

LEMMA InitPages == Init => PagesIInv
<1> SUFFICES ASSUME Init PROVE PagesIInv
  OBVIOUS
<1>1. SettingsShown
  BY DEF Init, SettingsInit, SettingsShown
<1>2. CurveShown
  BY DEF Init, CurveInit, CurveShown
<1>3. ProfilesIInv
  <2>1. profiles = <<>> /\ stored = <<>> /\ row = 0 /\ slider \in Watts
    BY DEF Init, ProfilesInit
  <2>2. <<>> \in Seq(Profile) /\ Len(<<>>) = 0
    BY EmptySeq
  <2> QED BY <2>1, <2>2 DEF ProfilesIInv, ProfilesShown
<1> QED BY <1>1, <1>2, <1>3, InitScene DEF PagesIInv

\* The inductive invariant of the pages.
THEOREM PagesInvariance == Spec => []PagesIInv
<1>1. PagesIInv /\ [Next]_vars => PagesIInv'
  BY NextSettings, NextCurve, NextProfiles, NextScene DEF PagesIInv
<1> QED BY InitPages, <1>1, PTL DEF Spec

\* The controls of every page agree with the configuration, for every curve, duration
\* and list of profiles.
THEOREM ControlsAgree == Spec => []ControlsShowConfiguration
<1>1. PagesIInv => ControlsShowConfiguration
  BY DEF PagesIInv, ProfilesIInv, SceneIInv, ControlsShowConfiguration
<1> QED BY PagesInvariance, <1>1, PTL

-----------------------------------------------------------------------------
\* The curve editor: the points it shows rise strictly whatever is dragged, so what is
\* committed is valid.

\* A list of points whose temperatures rise strictly.
Rising(pts) == \A i, j \in DOMAIN pts : i < j => pts[i][1] < pts[j][1]
Distinct(pts) == \A i, j \in DOMAIN pts : i # j => pts[i][1] # pts[j][1]
RisingCurve(pts) == pts \in Seq(Points) /\ Len(pts) >= 2 /\ Rising(pts)

LEMMA PointTyped ==
  ASSUME NEW pts \in Seq(Points), NEW i \in DOMAIN pts
  PROVE  pts[i] \in Points /\ pts[i][1] \in 0 .. MaxTemp /\ i \in 1 .. Len(pts)
BY DEF Points

LEMMA RisingIsValid ==
  ASSUME NEW pts, RisingCurve(pts)
  PROVE  Valid(pts)
<1> SUFFICES ASSUME NEW i \in DOMAIN pts, NEW j \in DOMAIN pts, i # j
             PROVE  pts[i][1] # pts[j][1]
  BY DEF RisingCurve, Valid
<1>1. i \in Nat /\ j \in Nat /\ pts[i][1] \in Int /\ pts[j][1] \in Int
  BY PointTyped, CurveAssumption DEF RisingCurve
<1>2. i < j \/ j < i
  BY <1>1
<1> QED BY <1>1, <1>2 DEF RisingCurve, Rising

\* The ranks of points at distinct temperatures number them in the order of
\* their temperatures.
LEMMA RankOrders ==
  ASSUME NEW pts \in Seq(Points), Distinct(pts)
  PROVE  /\ \A i \in DOMAIN pts : Rank(pts, i) \in DOMAIN pts
         /\ \A i, j \in DOMAIN pts : pts[i][1] < pts[j][1] => Rank(pts, i) < Rank(pts, j)
<1> DEFINE D == DOMAIN pts
           Upto(i) == {j \in D : pts[j][1] < pts[i][1] \/ (pts[j][1] = pts[i][1] /\ j <= i)}
<1>1. IsFiniteSet(D) /\ Cardinality(D) = Len(pts) /\ D = 1 .. Len(pts) /\ Len(pts) \in Nat
  <2>1. D = 1 .. Len(pts) /\ Len(pts) \in Nat
    OBVIOUS
  <2> QED BY <2>1, FS_Interval
<1>2. \A i \in D : pts[i][1] \in Int /\ i \in Nat
  BY PointTyped, CurveAssumption
<1>3. \A i \in D : /\ IsFiniteSet(Upto(i)) /\ Cardinality(Upto(i)) \in Nat
                   /\ Cardinality(Upto(i)) <= Len(pts)
                   /\ Rank(pts, i) = Cardinality(Upto(i))
  <2> SUFFICES ASSUME NEW i \in D
               PROVE  /\ IsFiniteSet(Upto(i)) /\ Cardinality(Upto(i)) \in Nat
                      /\ Cardinality(Upto(i)) <= Len(pts)
                      /\ Rank(pts, i) = Cardinality(Upto(i))
    OBVIOUS
  <2>1. Rank(pts, i) = Cardinality(Upto(i))
    BY DEF Rank
  <2>2. Upto(i) \in SUBSET D
    OBVIOUS
  <2> HIDE DEF D, Upto
  <2> QED BY <1>1, <2>1, <2>2, FS_Subset, FS_CardinalityType
<1>4. \A i \in D : i \in Upto(i) /\ Cardinality(Upto(i)) # 0
  <2> SUFFICES ASSUME NEW i \in D PROVE i \in Upto(i) /\ Cardinality(Upto(i)) # 0
    OBVIOUS
  <2>1. i \in Upto(i)
    BY <1>2
  <2> HIDE DEF D, Upto
  <2> QED BY <1>3, <2>1, FS_EmptySet
<1>5. ASSUME NEW i \in D, NEW j \in D, pts[i][1] < pts[j][1]
      PROVE  Rank(pts, i) < Rank(pts, j)
  <2>1. Upto(i) \in SUBSET Upto(j)
    BY <1>2, <1>5
  <2>2. j \in Upto(j) /\ j \notin Upto(i)
    BY <1>2, <1>4, <1>5
  <2>3. Upto(i) # Upto(j)
    BY <2>2
  <2> HIDE DEF D, Upto
  <2>4. Cardinality(Upto(i)) < Cardinality(Upto(j))
    BY <1>3, <2>1, <2>3, FS_Subset
  <2> QED BY <1>3, <2>4
<1>6. \A i \in D : Rank(pts, i) \in D
  <2> HIDE DEF D, Upto
  <2> QED BY <1>1, <1>3, <1>4
<1> QED BY <1>5, <1>6

\* Sorting a list of points at distinct temperatures makes them rise, and neither
\* adds nor loses one.
LEMMA SortedRises ==
  ASSUME NEW pts \in Seq(Points), Distinct(pts)
  PROVE  /\ Sorted(pts) \in Seq(Points) /\ Len(Sorted(pts)) = Len(pts)
         /\ Rising(Sorted(pts))
<1> DEFINE D == DOMAIN pts
           r == [i \in D |-> Rank(pts, i)]
           c(k) == CHOOSE i \in D : Rank(pts, i) = k
<1>1. IsFiniteSet(D) /\ D = 1 .. Len(pts) /\ Len(pts) \in Nat
  <2>1. D = 1 .. Len(pts) /\ Len(pts) \in Nat
    OBVIOUS
  <2> QED BY <2>1, FS_Interval
<1>2. \A i \in D : pts[i] \in Points /\ pts[i][1] \in Int /\ i \in Nat
  BY PointTyped, CurveAssumption
<1>3. \A i, j \in D : pts[i][1] < pts[j][1] => Rank(pts, i) < Rank(pts, j)
  BY RankOrders
<1>4. \A i \in D : Rank(pts, i) \in D /\ Rank(pts, i) \in Nat
  BY RankOrders, <1>1
<1>5. r \in Injection(D, D)
  <2>1. \A i, j \in D : i # j => Rank(pts, i) # Rank(pts, j)
    <3> SUFFICES ASSUME NEW i \in D, NEW j \in D, i # j PROVE Rank(pts, i) # Rank(pts, j)
      OBVIOUS
    <3>1. pts[i][1] < pts[j][1] \/ pts[j][1] < pts[i][1]
      BY <1>2 DEF Distinct
    <3> QED BY <1>3, <1>4, <3>1
  <2>2. r \in [D -> D]
    BY <1>4
  <2> QED BY <2>1, <2>2 DEF Injection, IsInjective
<1>6. \A k \in D : \E i \in D : Rank(pts, i) = k
  <2>1. r \in Surjection(D, D)
    <3> HIDE DEF r, D
    <3> QED BY <1>1, <1>5, FS_Injection
  <2> QED BY <2>1 DEF Surjection
<1>7. \A k \in D : c(k) \in D /\ Rank(pts, c(k)) = k
  BY <1>6
<1>8. Sorted(pts) = [k \in D |-> pts[c(k)]]
  BY DEF Sorted
<1> HIDE DEF c
<1>9. Sorted(pts) \in Seq(Points) /\ Len(Sorted(pts)) = Len(pts)
  <2>1. Sorted(pts) \in [1 .. Len(pts) -> Points]
    BY <1>1, <1>2, <1>7, <1>8
  <2> QED BY <1>1, <2>1
<1>10. ASSUME NEW k \in D, NEW l \in D, k < l
       PROVE  pts[c(k)][1] < pts[c(l)][1]
  <2>1. c(k) \in D /\ c(l) \in D /\ Rank(pts, c(k)) = k /\ Rank(pts, c(l)) = l
    BY <1>7
  <2>2. pts[c(k)][1] \in Int /\ pts[c(l)][1] \in Int /\ k \in Nat /\ l \in Nat
    BY <1>2, <2>1
  <2>3. c(k) # c(l)
    BY <1>10, <2>1, <2>2
  <2>4. pts[c(k)][1] # pts[c(l)][1]
    BY <2>1, <2>3 DEF Distinct
  <2>5. ~(pts[c(l)][1] < pts[c(k)][1])
    BY <1>3, <1>10, <2>1, <2>2
  <2> QED BY <2>2, <2>4, <2>5
<1>11. Rising(Sorted(pts))
  BY <1>8, <1>10 DEF Rising
<1> QED BY <1>9, <1>11

\* What holds of the curve and of the editor that shows it.  A menu that offers to
\* remove a point was opened on a curve of more than two.
CurveIInv ==
  /\ live = curve /\ RisingCurve(curve)
  /\ shown = CustomMode => RisingCurve(points) /\ Len(points) = Len(curve)
  /\ menu.item = "add" => menu.point \in Points
  /\ menu.item = "remove" => menu.hit \in 1 .. Len(curve) /\ Len(curve) > 2

LEMMA InitCurve == Init => CurveIInv
<1> SUFFICES ASSUME Init PROVE CurveIInv OBVIOUS
<1>1. RisingCurve(DefaultCurve)
  BY CurveAssumption DEF RisingCurve, Rising, Valid
<1> QED BY <1>1 DEF Init, CurveInit, CurveIInv, NoMenu

\* A committed list of two points or more at distinct temperatures becomes the curve.
LEMMA CommitStep ==
  ASSUME NEW pts \in Seq(Points), Distinct(pts), Len(pts) >= 2, Commit(pts)
  PROVE  /\ live' = curve' /\ points' = curve' /\ RisingCurve(curve')
         /\ Len(curve') = Len(pts)
<1>1. points' = Sorted(pts) /\ RisingCurve(Sorted(pts)) /\ Len(Sorted(pts)) = Len(pts)
  BY SortedRises DEF Commit, RisingCurve
<1>2. Valid(points')
  BY <1>1, RisingIsValid
<1> QED BY <1>1, <1>2 DEF Commit, Edited

LEMMA RisingIsDistinct ==
  ASSUME NEW pts, RisingCurve(pts)
  PROVE  Distinct(pts) /\ pts \in Seq(Points) /\ Len(pts) \in Nat
BY RisingIsValid DEF Valid, Distinct, RisingCurve

\* A dragged point stays between its neighbours.
LEMMA MoveStep ==
  ASSUME CurveIInv, NEW p \in Points, Move(p)
  PROVE  CurveIInv'
<1>1. shown = CustomMode /\ RisingCurve(points) /\ Len(points) = Len(curve)
  BY DEF Move, Editable, EditableIn, CurveIInv
<1> DEFINE t == ClampedTemp(p[1])
<1>2. /\ drag \in DOMAIN points /\ t \in 0 .. MaxTemp
      /\ points' = [points EXCEPT ![drag] = <<t, p[2]>>]
      /\ UNCHANGED <<shown, menu, curve, live>>
  BY DEF Move
<1>3. p[1] \in 0 .. MaxTemp /\ <<t, p[2]>> \in Points /\ <<t, p[2]>>[1] = t
  BY <1>2 DEF Points
<1>4. points \in Seq(Points) /\ Len(points) \in Nat /\ DOMAIN points = 1 .. Len(points)
  BY <1>1 DEF RisingCurve
<1>5. \A i \in DOMAIN points : points[i][1] \in 0 .. MaxTemp /\ i \in Nat
  BY <1>4, PointTyped
<1>6. \A i \in DOMAIN points : i < drag => points[i][1] < t
  <2> SUFFICES ASSUME NEW i \in DOMAIN points, i < drag PROVE points[i][1] < t
    OBVIOUS
  <2>1. drag > 1 /\ drag - 1 \in DOMAIN points /\ drag \in Nat
    BY <1>2, <1>4
  <2>2. points[i][1] <= points[drag - 1][1]
    <3>1. i = drag - 1 \/ i < drag - 1
      BY <1>4, <2>1
    <3> QED BY <1>1, <1>5, <2>1, <3>1, CurveAssumption DEF RisingCurve, Rising
  <2>3. points[drag - 1][1] < points[drag][1]
    BY <1>1, <1>2, <2>1 DEF RisingCurve, Rising
  <2>4. drag < Len(points) => drag + 1 \in DOMAIN points /\ points[drag][1] < points[drag + 1][1]
    BY <1>1, <1>2, <1>4, <2>1 DEF RisingCurve, Rising
  <2>5. points[drag - 1][1] + 1 <= t
    <3> DEFINE low == points[drag - 1][1] + 1
               above == IF p[1] < low THEN low ELSE p[1]
    <3>1. t = IF drag < Len(points) /\ above >= points[drag + 1][1]
              THEN points[drag + 1][1] - 1 ELSE above
      BY <2>1 DEF ClampedTemp
    <3>2. low \in Int /\ above \in Int /\ low <= above /\ points[drag][1] \in Int
          /\ low <= points[drag][1]
      BY <1>2, <1>3, <1>5, <2>1, <2>3, CurveAssumption
    <3> HIDE DEF low, above
    <3>3. CASE drag < Len(points) /\ above >= points[drag + 1][1]
      <4>1. points[drag + 1][1] \in Int /\ points[drag][1] < points[drag + 1][1]
        BY <1>5, <2>4, <3>3, CurveAssumption
      <4>2. low <= t
        BY <3>1, <3>2, <3>3, <4>1
      <4> QED BY <4>2 DEF low
    <3>4. CASE ~(drag < Len(points) /\ above >= points[drag + 1][1])
      <4>1. low <= t
        BY <3>1, <3>2, <3>4
      <4> QED BY <4>1 DEF low
    <3> QED BY <3>3, <3>4
  <2> HIDE DEF t
  <2> QED BY <1>2, <1>5, <2>1, <2>2, <2>5, CurveAssumption
<1>7. \A i \in DOMAIN points : drag < i => t < points[i][1]
  <2> SUFFICES ASSUME NEW i \in DOMAIN points, drag < i PROVE t < points[i][1]
    OBVIOUS
  <2>1. drag < Len(points) /\ drag + 1 \in DOMAIN points /\ drag \in Nat
    BY <1>2, <1>4
  <2>2. points[drag + 1][1] <= points[i][1]
    <3>1. i = drag + 1 \/ drag + 1 < i
      BY <1>4, <2>1
    <3> QED BY <1>1, <1>5, <2>1, <3>1, CurveAssumption DEF RisingCurve, Rising
  <2>3. t < points[drag + 1][1]
    <3> DEFINE low == IF drag > 1 THEN points[drag - 1][1] + 1 ELSE 0
               above == IF p[1] < low THEN low ELSE p[1]
    <3>1. t = IF above >= points[drag + 1][1] THEN points[drag + 1][1] - 1 ELSE above
      BY <2>1 DEF ClampedTemp
    <3>2. drag > 1 => drag - 1 \in DOMAIN points
      BY <1>2, <1>4
    <3>3. low \in Int
      BY <1>5, <3>2, CurveAssumption
    <3> HIDE DEF low
    <3>4. above \in Int
      BY <1>3, <3>3, CurveAssumption
    <3> HIDE DEF above
    <3> QED BY <1>5, <2>1, <3>1, <3>4, CurveAssumption
  <2> HIDE DEF t
  <2> QED BY <1>2, <1>5, <2>1, <2>2, <2>3, CurveAssumption
<1> HIDE DEF t
<1>8. points' \in Seq(Points) /\ Len(points') = Len(points) /\ DOMAIN points' = DOMAIN points
  BY <1>2, <1>3, <1>4
<1>9. \A i \in DOMAIN points : points'[i] = IF i = drag THEN <<t, p[2]>> ELSE points[i]
  BY <1>2
<1>10. ASSUME NEW i \in DOMAIN points, NEW j \in DOMAIN points, i < j
       PROVE  points'[i][1] < points'[j][1]
  <2>1. points[i][1] < points[j][1]
    BY <1>1, <1>10 DEF RisingCurve, Rising
  <2>2. CASE i = drag
    BY <1>3, <1>5, <1>7, <1>9, <1>10, <2>2
  <2>3. CASE j = drag
    BY <1>3, <1>5, <1>6, <1>9, <1>10, <2>3
  <2>4. CASE i # drag /\ j # drag
    BY <1>9, <2>1, <2>4
  <2> QED BY <2>2, <2>3, <2>4
<1>11. RisingCurve(points')
  BY <1>1, <1>8, <1>10 DEF RisingCurve, Rising
<1> QED BY <1>1, <1>2, <1>8, <1>11 DEF CurveIInv

\* The list without the point the menu was opened on.
LEMMA WithoutPoint ==
  ASSUME NEW pts, RisingCurve(pts), NEW k \in 1 .. Len(pts), Len(pts) > 2
  PROVE  /\ RemoveAt(pts, k) \in Seq(Points) /\ Distinct(RemoveAt(pts, k))
         /\ Len(RemoveAt(pts, k)) = Len(pts) - 1
<1> DEFINE n == Len(pts)
           a == SubSeq(pts, 1, k - 1)
           b == SubSeq(pts, k + 1, n)
           r == RemoveAt(pts, k)
<1>1. pts \in Seq(Points) /\ n \in Nat /\ k \in Nat /\ 1 <= k /\ k <= n
  BY DEF RisingCurve
<1>2. /\ a \in Seq(Points) /\ Len(a) = k - 1 /\ \A i \in 1 .. k - 1 : a[i] = pts[i]
      /\ b \in Seq(Points) /\ Len(b) = n - k /\ \A i \in 1 .. n - k : b[i] = pts[k + i]
  BY <1>1
<1>3. r = a \o b
  BY DEF RemoveAt
<1> HIDE DEF a, b, r
<1>4. /\ r \in Seq(Points) /\ Len(r) = n - 1
      /\ \A i \in 1 .. n - 1 : r[i] = IF i <= k - 1 THEN a[i] ELSE b[i - (k - 1)]
  BY <1>1, <1>2, <1>3
<1>5. \A i \in 1 .. n - 1 : r[i] = pts[IF i < k THEN i ELSE i + 1]
  <2> SUFFICES ASSUME NEW i \in 1 .. n - 1 PROVE r[i] = pts[IF i < k THEN i ELSE i + 1]
    OBVIOUS
  <2>1. CASE i < k
    BY <1>1, <1>2, <1>4, <2>1
  <2>2. CASE ~(i < k)
    <3>1. i - (k - 1) \in 1 .. n - k /\ k + (i - (k - 1)) = i + 1 /\ ~(i <= k - 1)
      BY <1>1, <2>2
    <3> QED BY <1>2, <1>4, <2>2, <3>1
  <2> QED BY <2>1, <2>2
<1>6. ASSUME NEW i \in 1 .. n - 1, NEW j \in 1 .. n - 1, i # j
      PROVE  r[i][1] # r[j][1]
  <2> DEFINE x == IF i < k THEN i ELSE i + 1
             y == IF j < k THEN j ELSE j + 1
  <2>1. x \in 1 .. n /\ y \in 1 .. n /\ x # y
    BY <1>1, <1>6
  <2>2. r[i] = pts[x] /\ r[j] = pts[y]
    BY <1>5
  <2>3. DOMAIN pts = 1 .. n
    BY <1>1
  <2> HIDE DEF x, y
  <2> QED BY <2>1, <2>2, <2>3, RisingIsDistinct DEF Distinct
<1> QED BY <1>1, <1>4, <1>6 DEF Distinct, r

\* The list with a point at a temperature that is not taken.
LEMMA WithPoint ==
  ASSUME NEW pts, RisingCurve(pts), NEW p \in Points, \A i \in DOMAIN pts : pts[i][1] # p[1]
  PROVE  /\ Append(pts, p) \in Seq(Points) /\ Distinct(Append(pts, p))
         /\ Len(Append(pts, p)) = Len(pts) + 1
<1> DEFINE n == Len(pts)
           r == Append(pts, p)
<1>1. pts \in Seq(Points) /\ n \in Nat /\ DOMAIN pts = 1 .. n
  BY DEF RisingCurve
<1>2. /\ r \in Seq(Points) /\ Len(r) = n + 1 /\ DOMAIN r = 1 .. n + 1
      /\ \A i \in 1 .. n : r[i] = pts[i]
      /\ r[n + 1] = p
  BY <1>1
<1> HIDE DEF r
<1>3. ASSUME NEW i \in 1 .. n + 1, NEW j \in 1 .. n + 1, i # j
      PROVE  r[i][1] # r[j][1]
  <2>1. CASE i = n + 1
    BY <1>1, <1>2, <1>3, <2>1
  <2>2. CASE j = n + 1
    BY <1>1, <1>2, <1>3, <2>2
  <2>3. CASE i \in 1 .. n /\ j \in 1 .. n
    BY <1>1, <1>2, <1>3, <2>3, RisingIsDistinct DEF Distinct
  <2> QED BY <1>1, <2>1, <2>2, <2>3
<1> QED BY <1>2, <1>3 DEF Distinct, r

LEMMA TriggerItemStep ==
  ASSUME CurveIInv, TriggerItem
  PROVE  CurveIInv'
<1>1. /\ shown = CustomMode /\ shown' = shown /\ menu'.item = "none"
      /\ RisingCurve(points) /\ Len(points) = Len(curve)
  BY DEF TriggerItem, Editable, EditableIn, CurveIInv, NoMenu
<1>2. points \in Seq(Points) /\ Len(points) \in Nat /\ Len(points) >= 2
  BY <1>1 DEF RisingCurve
<1>3. CASE menu.item = "remove" /\ Commit(RemoveAt(points, menu.hit))
  <2>1. menu.hit \in 1 .. Len(points) /\ Len(points) > 2
    BY <1>1, <1>3 DEF CurveIInv
  <2>2. Len(points) - 1 >= 2
    BY <1>2, <2>1
  <2> QED BY <1>1, <1>3, <2>1, <2>2, WithoutPoint, CommitStep DEF CurveIInv
<1>4. CASE /\ menu.item = "add" /\ Commit(Append(points, menu.point))
           /\ \A i \in DOMAIN points : points[i][1] # menu.point[1]
  <2>1. menu.point \in Points /\ Len(points) + 1 >= 2
    BY <1>2, <1>4 DEF CurveIInv
  <2> QED BY <1>1, <1>4, <2>1, WithPoint, CommitStep DEF CurveIInv
<1>5. CASE UNCHANGED <<points, curve, live>>
  BY <1>1, <1>5 DEF CurveIInv
<1> QED BY <1>3, <1>4, <1>5 DEF TriggerItem

LEMMA OpenMenuStep ==
  ASSUME CurveIInv, OpenMenu
  PROVE  CurveIInv'
<1>1. /\ shown = CustomMode /\ UNCHANGED <<shown, points, curve, live>>
      /\ RisingCurve(points) /\ Len(points) = Len(curve)
  BY DEF OpenMenu, Editable, EditableIn, CurveIInv
<1>2. CASE \E i \in DOMAIN points :
             Len(points) > 2 /\ menu' = [NoMenu EXCEPT !.item = "remove", !.hit = i]
  <2>1. PICK i \in DOMAIN points :
          Len(points) > 2 /\ menu' = [NoMenu EXCEPT !.item = "remove", !.hit = i]
    BY <1>2
  <2>2. i \in 1 .. Len(points)
    BY <1>1 DEF RisingCurve
  <2>3. menu'.item = "remove" /\ menu'.hit = i
    BY <2>1 DEF NoMenu
  <2> QED BY <1>1, <2>1, <2>2, <2>3 DEF CurveIInv
<1>3. CASE \E p \in Points : menu' = [NoMenu EXCEPT !.item = "add", !.point = p]
  <2>1. PICK p \in Points : menu' = [NoMenu EXCEPT !.item = "add", !.point = p]
    BY <1>3
  <2>2. menu'.item = "add" /\ menu'.point = p
    BY <2>1 DEF NoMenu
  <2> QED BY <1>1, <2>1, <2>2 DEF CurveIInv
<1> QED BY <1>2, <1>3 DEF OpenMenu

\* Releasing the button commits what was dragged.
LEMMA ReleaseStep ==
  ASSUME CurveIInv, Release
  PROVE  CurveIInv'
<1>1. shown' = shown /\ menu' = menu
  BY DEF Release
<1>2. CASE Editable /\ menu = NoMenu /\ drag # 0
  <2>1. Commit(points) /\ RisingCurve(points) /\ Len(points) = Len(curve)
    BY <1>2 DEF Release, Editable, EditableIn, CurveIInv
  <2> QED BY <1>1, <2>1, RisingIsDistinct, CommitStep DEF CurveIInv, RisingCurve
<1>3. CASE ~(Editable /\ menu = NoMenu /\ drag # 0)
  BY <1>1, <1>3 DEF Release, CurveIInv
<1> QED BY <1>2, <1>3

\* Showing a curve that is kept.
LEMMA ShownStep ==
  ASSUME NEW m, NEW saved, RisingCurve(saved), ShowCurve(m, saved),
         live' = saved, curve' = saved, menu' = menu,
         menu.item = "add" => menu.point \in Points,
         menu.item = "remove" => menu.hit \in 1 .. Len(saved) /\ Len(saved) > 2
  PROVE  CurveIInv'
BY DEF ShowCurve, SetPoints, CurveIInv

\* Every step of every page.
LEMMA NextCurveSound ==
  ASSUME CurveIInv, [Next]_vars
  PROVE  CurveIInv'
<1>1. RisingCurve(DefaultCurve)
  BY CurveAssumption DEF RisingCurve, Rising, Valid
<1>2. ASSUME NEW m, ShowMode(m) PROVE CurveIInv'
  BY <1>2, ShownStep DEF ShowMode, CurveIInv
<1>3. CASE CurveStep
  <2>1. ASSUME NEW i, Press(i) PROVE CurveIInv'
    BY <2>1 DEF Press, CurveIInv
  <2>2. CASE CloseMenu
    BY <2>2 DEF CloseMenu, CurveIInv, NoMenu
  <2>3. CASE ResetCurve
    BY <1>1, <2>3, RisingIsValid DEF ResetCurve, SetPoints, Edited, CurveIInv, NoMenu
  <2> QED BY <1>2, <1>3, <2>1, <2>2, <2>3, MoveStep, ReleaseStep, OpenMenuStep, TriggerItemStep
          DEF CurveStep
<1>4. CASE ModeChanges
  BY <1>2, <1>4 DEF ModeChanges, curveVars, CurveIInv
<1>5. CASE RestoreDefaults
  <2>1. menu = NoMenu /\ ReloadCurve(DefaultMode, DefaultCurve, DefaultCurve)
    BY <1>5 DEF RestoreDefaults
  <2> QED BY <1>1, <2>1, ShownStep DEF ReloadCurve, NoMenu
<1>6. CASE RestoreScene
  <2>1. menu = NoMenu /\ ReloadCurve(mode, curve, live)
    BY <1>6 DEF RestoreScene
  <2> QED BY <2>1, ShownStep DEF ReloadCurve, NoMenu, CurveIInv
<1>7. CASE Restart
  <2>1. menu = NoMenu /\ BuildCurve(mode, curve)
    BY <1>7 DEF Restart
  <2> QED BY <2>1, ShownStep DEF BuildCurve, NoMenu, CurveIInv
<1>8. CASE UNCHANGED curveVars
  BY <1>8 DEF curveVars, CurveIInv
<1> QED BY <1>3, <1>4, <1>5, <1>6, <1>7, <1>8
        DEF Next, User, Program, OnCurve, OnScene, OnProfiles, OnPlans, OnSettings, vars, pages

\* However points are dragged, added and removed while modes change, the curve that is
\* saved is valid and the one the fans follow.
THEOREM CurveStaysSound == Spec => []CurveSound
<1>1. CurveIInv => CurveSound
  BY RisingIsValid DEF CurveIInv, CurveSound
<1> QED BY <1>1, InitCurve, NextCurveSound, PTL DEF Spec
=============================================================================
