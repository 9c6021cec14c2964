------------------------ MODULE ThermalControlProofs ------------------------
(***************************************************************************)
(* Proofs about ThermalControl and about Coexistence, which composes it with   *)
(* the watcher, for every value of their constants.                            *)
(*                                                                          *)
(* IInv adds two facts to the checked invariants.  The debounce counter of    *)
(* the code never runs ahead of the readbacks really seen, nor in monitor mode *)
(* of the ticks they came on (StreakIsSeen), and a selection of the user that   *)
(* nothing has screened is still pending, with one attempt counted for each     *)
(* refusal of it (FirstChance).  The composition keeps it: what is shown of a loop whose      *)
(* monitor mode is switched at will holds of the one that the watcher           *)
(* switches.  And the count of ticks made in the wrong mode never exceeds the   *)
(* ticks since the last check, which is the strengthening WrongForOnePeriod     *)
(* needs.                                                                    *)
(***************************************************************************)
EXTENDS Coexistence, TLAPS

StreakIsSeen == /\ streak = 0 => candidate = NoMode
                /\ streak > 0 => /\ seen.mode = candidate /\ seen.readings \geq streak
                                 /\ passive => seen.ticks \geq streak
FirstChance  == unsent.mode # NoMode /\ ~unsent.screened =>
                  pending /\ attempts = unsent.refusals

IInv == /\ TypeOK /\ MonitorOwnsNothing /\ FansOnlyInCustom /\ BannerIsHonest
        /\ StreakIsSeen /\ FirstChance

-----------------------------------------------------------------------------
\* The helpers are well typed.

LEMMA OlderType == ASSUME NEW n \in 0 .. GraceTicks PROVE Older(n) \in 0 .. GraceTicks
BY BoundAssumption DEF Older

LEMMA CappedType ==
  ASSUME NEW n \in 0 .. AdoptStreak
  PROVE  Capped(n) \in 0 .. AdoptStreak /\ Capped(n) \geq n /\ (n < AdoptStreak => Capped(n) = n + 1)
BY BoundAssumption DEF Capped

LEMMA AllSentType == AllSent \in Selection /\ AllSent.mode = NoMode
<1>1. 0 \in 0 .. MaxAttempts - 1
  BY BoundAssumption
<1> QED BY <1>1 DEF AllSent, Selection

\* What a tick adds to the readbacks seen.
LEMMA WitnessStep ==
  ASSUME IInv, NEW read \in Mode \cup {NoMode}, Witness(read)
  PROVE  /\ seen' \in Run
         /\ ~MayAdopt => seen'.mode = seen.mode /\ seen'.readings = seen.readings
         /\ MayAdopt =>
              /\ seen'.mode = read
              /\ seen'.readings = IF read = seen.mode THEN Capped(seen.readings) ELSE 1
              /\ seen'.ticks = IF read = seen.mode THEN Capped(seen.ticks) ELSE 1
<1>1. /\ seen \in Run /\ AdoptStreak \in Nat \ {0}
      /\ seen.readings \in 0 .. AdoptStreak /\ seen.ticks \in 0 .. AdoptStreak
  BY BoundAssumption DEF IInv, TypeOK, Run
<1>2. CASE ~MayAdopt
  <2>1. seen' = [seen EXCEPT !.ticks = 0]
    BY <1>2 DEF Witness
  <2> QED BY <1>1, <1>2, <2>1 DEF Run
<1>3. CASE MayAdopt /\ read = seen.mode
  <2>1. seen' = [seen EXCEPT !.readings = Capped(seen.readings), !.ticks = Capped(seen.ticks)]
    BY <1>3 DEF Witness
  <2>2. Capped(seen.readings) \in 0 .. AdoptStreak /\ Capped(seen.ticks) \in 0 .. AdoptStreak
    BY <1>1, CappedType
  <2> QED BY <1>1, <1>3, <2>1, <2>2 DEF Run
<1>4. CASE MayAdopt /\ read # seen.mode
  <2>1. seen' = [mode |-> read, readings |-> 1, ticks |-> 1]
    BY <1>4 DEF Witness
  <2> QED BY <1>1, <1>4, <2>1 DEF Run
<1> QED BY <1>2, <1>3, <1>4

\* What a tick that does not read, or reads anything, does to the debounce and to
\* the readbacks seen.
LEMMA DebounceStep ==
  ASSUME IInv, NEW read \in Mode \cup {NoMode}, Debounce(read), Witness(read), UNCHANGED passive
  PROVE  /\ candidate' \in Mode \cup {NoMode} /\ streak' \in 0 .. AdoptStreak - 1
         /\ seen' \in Run
         /\ StreakIsSeen'
         /\ Adopts(read) => /\ seen'.mode = read /\ seen'.readings = AdoptStreak
                            /\ passive => seen'.ticks = AdoptStreak
<1> USE DEF IInv
<1>1. /\ candidate \in Mode \cup {NoMode} /\ streak \in 0 .. AdoptStreak - 1
      /\ AdoptStreak \in Nat \ {0} /\ NoMode \notin Mode
      /\ seen.readings \in 0 .. AdoptStreak /\ seen.ticks \in 0 .. AdoptStreak
  BY BoundAssumption, ModeAssumption DEF TypeOK, Run
<1>2. /\ seen' \in Run /\ seen'.readings \in 0 .. AdoptStreak /\ seen'.ticks \in 0 .. AdoptStreak
  BY WitnessStep DEF Run
<1>3. CASE ~MayAdopt
  <2>1. ~passive' /\ candidate' = candidate /\ streak' = streak
    BY <1>3 DEF Debounce, MayAdopt, adoption
  <2>2. seen'.mode = seen.mode /\ seen'.readings = seen.readings
    BY <1>3, WitnessStep
  <2> QED BY <1>1, <1>2, <1>3, <2>1, <2>2 DEF StreakIsSeen, Adopts
<1>4. CASE MayAdopt
  <2>1. /\ seen'.mode = read
        /\ seen'.readings = IF read = seen.mode THEN Capped(seen.readings) ELSE 1
        /\ seen'.ticks = IF read = seen.mode THEN Capped(seen.ticks) ELSE 1
    BY <1>4, WitnessStep
  <2>2. CASE Foreign(read) /\ ~Adopts(read)
    <3>1. candidate' = read /\ streak' = IF candidate = read THEN streak + 1 ELSE 1
      BY <1>4, <2>2 DEF Debounce
    <3>2. read # NoMode
      BY <2>2 DEF Foreign
    <3>3. candidate = read => /\ streak > 0 /\ seen.mode = read /\ seen.readings \geq streak
                              /\ passive => seen.ticks \geq streak
                              /\ streak + 1 < AdoptStreak
      BY <1>1, <1>4, <2>2, <3>2 DEF StreakIsSeen, Adopts
    <3>4. AdoptStreak > 1
      BY <1>1, <1>4, <2>2 DEF Adopts
    <3>5. candidate = read => /\ seen'.readings \geq streak + 1
                              /\ passive => seen'.ticks \geq streak + 1
      BY <1>1, <2>1, <3>3, CappedType
    <3>6. seen'.readings \geq 1 /\ seen'.ticks \geq 1
      BY <1>1, <2>1, CappedType
    <3> QED BY <1>1, <1>2, <2>1, <2>2, <3>1, <3>2, <3>3, <3>4, <3>5, <3>6 DEF StreakIsSeen
  <2>3. CASE ~(Foreign(read) /\ ~Adopts(read))
    <3>1. candidate' = NoMode /\ streak' = 0
      BY <1>4, <2>3 DEF Debounce
    <3>2. ASSUME Adopts(read)
          PROVE  seen'.readings = AdoptStreak /\ (passive => seen'.ticks = AdoptStreak)
      <4>1. CASE AdoptStreak = 1
        BY <1>1, <1>2, <2>1, <4>1, CappedType
      <4>2. CASE AdoptStreak # 1
        <5>1. /\ streak > 0 /\ streak + 1 >= AdoptStreak /\ candidate = read
              /\ seen.mode = read /\ seen.readings \geq streak
              /\ passive => seen.ticks \geq streak
          BY <1>1, <3>2, <4>2 DEF Adopts, StreakIsSeen
        <5> QED BY <1>1, <1>2, <2>1, <4>2, <5>1, CappedType
      <4> QED BY <4>1, <4>2
    <3> QED BY <1>1, <1>2, <2>1, <3>1, <3>2 DEF StreakIsSeen
  <2> QED BY <2>2, <2>3
<1> QED BY <1>3, <1>4

-----------------------------------------------------------------------------
\* The outcome of apply.

\* The last mode and the failed mode as adoption leaves them.
LEMMA AfterAdoption ==
  ASSUME IInv, NEW read \in Mode \cup {NoMode}
  PROVE  /\ Adopts(read) => read \in Mode
         /\ LastAfterAdoption(read) \in Mode \cup {NoMode}
         /\ FailedAfterAdoption(read) \in Mode \cup {NoMode}
         /\ FailedAfterAdoption(read) # NoMode =>
              FailedAfterAdoption(read) # LastAfterAdoption(read)
BY DEF IInv, TypeOK, LastAfterAdoption, FailedAfterAdoption, Adopts, Foreign, BannerIsHonest

\* What a request of the thermal HAL may leave behind.
LEMMA HalTypes ==
  ASSUME IInv, NEW target \in Mode
  PROVE  /\ Hal!Accepted(target) => probing' \in 0 .. MaxPolls /\ firmware' \in Mode
         /\ Hal!Refused(target) => probing' = 0 /\ firmware' \in Mode
         /\ Hal!PollGoesOn => probing' \in 0 .. MaxPolls /\ firmware' \in Mode
         /\ Hal!PollEnds => probing' = 0 /\ firmware' \in Mode
<1>1. /\ probing \in 0 .. MaxPolls /\ firmware \in Mode /\ Performance \in Mode
      /\ MaxPolls \in Nat \ {0}
  BY BoundAssumption DEF IInv, TypeOK, Mode
<1>2. ASSUME Hal!Accepted(target) PROVE probing' \in 0 .. MaxPolls /\ firmware' \in Mode
  BY <1>1, <1>2 DEF Hal!Accepted
<1>3. ASSUME Hal!PollGoesOn PROVE probing' \in 0 .. MaxPolls /\ firmware' \in Mode
  BY <1>1, <1>3 DEF Hal!PollGoesOn
<1> QED BY <1>1, <1>2, <1>3 DEF Hal!Refused, Hal!PollEnds

\* apply leaves every variable it touches well typed, keeps fan writes to Custom
\* and the banner honest, and screens a selection only by trying another mode.
LEMMA ApplyStep ==
  ASSUME IInv, NEW target \in Mode, NEW last \in Mode \cup {NoMode},
         NEW banner \in Mode \cup {NoMode}, NEW accepted \in BOOLEAN, NEW adopting \in BOOLEAN,
         Apply(target, last, banner, accepted, adopting), banner # NoMode => banner # last
  PROVE  /\ lastWritten' \in Mode \cup {NoMode} /\ failed' \in Mode \cup {NoMode}
         /\ pending' \in BOOLEAN /\ attempts' \in 0 .. MaxAttempts /\ age' \in 0 .. GraceTicks
         /\ probing' \in 0 .. MaxPolls /\ firmware' \in Mode
         /\ did' \subseteq {"mode", "fan"}
         /\ unsent' \in Selection
         /\ FansOnlyInCustom' /\ BannerIsHonest' /\ FirstChance'
<1> USE DEF IInv
<1>1. /\ attempts \in 0 .. MaxAttempts /\ age \in 0 .. GraceTicks /\ probing \in 0 .. MaxPolls
      /\ firmware \in Mode /\ pending \in BOOLEAN
      /\ unsent \in Selection
      /\ Performance \in Mode /\ Custom # Performance /\ NoMode \notin Mode
      /\ MaxAttempts \in Nat \ {0} /\ MaxPolls \in Nat \ {0} /\ GraceTicks \in Nat \ {0}
  BY BoundAssumption, ModeAssumption DEF TypeOK, Mode
<1>2. /\ AllSent \in Selection
      /\ AllSent.mode = NoMode
      /\ Older(age) \in 0 .. GraceTicks
  BY <1>1, OlderType, AllSentType
<1>3. CASE target # last
  <2>1. unsent' = Sent(target, accepted, adopting)
    BY <1>3 DEF Apply
  <2>2. /\ unsent' \in Selection
        /\ unsent'.mode # NoMode /\ ~unsent'.screened =>
             /\ ~accepted /\ unsent.mode # NoMode /\ ~unsent.screened
             /\ unsent'.refusals = unsent.refusals + 1 /\ unsent.refusals + 1 < MaxAttempts
    <3>1. CASE adopting
      BY <1>2, <2>1, <3>1 DEF Sent
    <3>2. CASE ~adopting /\ target # unsent.mode
      <4>1. unsent' = [unsent EXCEPT !.screened = unsent.mode # NoMode]
        BY <2>1, <3>2 DEF Sent
      <4> QED BY <1>1, <4>1 DEF Selection
    <3>3. CASE ~adopting /\ target = unsent.mode /\ (accepted \/ unsent.refusals + 1 >= MaxAttempts)
      BY <1>2, <2>1, <3>3 DEF Sent
    <3>4. CASE /\ ~adopting /\ target = unsent.mode
               /\ ~(accepted \/ unsent.refusals + 1 >= MaxAttempts)
      <4>1. unsent' = [unsent EXCEPT !.refusals = unsent.refusals + 1]
        BY <2>1, <3>4 DEF Sent
      <4>2. unsent.refusals \in 0 .. MaxAttempts - 1 /\ unsent.refusals + 1 \in 0 .. MaxAttempts - 1
        BY <1>1, <3>4 DEF Selection
      <4> QED BY <1>1, <3>4, <4>1, <4>2 DEF Selection
    <3> QED BY <3>1, <3>2, <3>3, <3>4
  <2>4. CASE accepted
    <3>1. /\ ModeWritten(target)
          /\ did' \in {{"mode"} \cup f : f \in FanWrites(target)}
      BY <1>3, <2>4 DEF Apply
    <3>2. did' \subseteq {"mode", "fan"} /\ ("fan" \in did' => target = Custom)
      BY <3>1 DEF FanWrites
    <3>3. pending' \in BOOLEAN
      BY <3>1, Zenon DEF ModeWritten
    <3>4. probing' \in 0 .. MaxPolls /\ firmware' \in Mode
      BY <3>1, HalTypes DEF ModeWritten
    <3>5. FirstChance'
      BY <2>2, <2>4 DEF FirstChance
    <3> QED BY <1>1, <2>2, <3>1, <3>2, <3>3, <3>4, <3>5
            DEF ModeWritten, FansOnlyInCustom, BannerIsHonest
  <2>5. CASE ~accepted
    <3>1. ModeRefused(target, last)
      BY <1>3, <2>5 DEF Apply
    <3>2. pending' \in BOOLEAN
      BY <3>1 DEF ModeRefused, StillPending
    <3>3. attempts' \in 0 .. MaxAttempts
      BY <1>1, <3>1 DEF ModeRefused
    <3>4. probing' \in 0 .. MaxPolls /\ firmware' \in Mode
      BY <1>1, <3>1, HalTypes DEF ModeRefused
    <3>5. did' \subseteq {"mode"}
      BY <3>1 DEF ModeRefused, MayWriteMode
    <3>6. FirstChance'
      <4> SUFFICES ASSUME unsent'.mode # NoMode, ~unsent'.screened
                   PROVE  pending' /\ attempts' = unsent'.refusals
        BY DEF FirstChance
      <4>1. /\ pending /\ attempts = unsent.refusals
            /\ unsent'.refusals = unsent.refusals + 1 /\ unsent.refusals + 1 < MaxAttempts
        BY <2>2 DEF FirstChance
      <4>2. pending' = (pending /\ attempts + 1 < MaxAttempts)
        BY <3>1 DEF ModeRefused, StillPending
      <4>3. attempts' = attempts + 1
        BY <1>1, <3>1, <4>1 DEF ModeRefused
      <4> QED BY <4>1, <4>2, <4>3
    <3> QED BY <1>1, <1>2, <1>3, <2>2, <3>1, <3>2, <3>3, <3>4, <3>5, <3>6
            DEF ModeRefused, FansOnlyInCustom, BannerIsHonest
  <2> QED BY <2>4, <2>5
<1>4. CASE target = last
  <2>1. /\ lastWritten' = last /\ failed' = banner /\ age' = Older(age)
        /\ unsent' = IF adopting THEN AllSent ELSE unsent
        /\ pending' = pending /\ attempts' = attempts
    BY <1>4 DEF Apply, retry
  <2>2. FirstChance'
    BY <1>2, <2>1 DEF FirstChance
  <2>3. CASE target = Performance /\ probing > 0
    <3>1. PollPendingModeWrite
      BY <1>4, <2>3 DEF Apply
    <3>2. probing' \in 0 .. MaxPolls /\ firmware' \in Mode /\ did' \subseteq {"mode"}
      <4>1. did' \subseteq {"mode"}
        BY <3>1 DEF PollPendingModeWrite, MayWriteMode
      <4> QED BY <1>1, <3>1, <4>1, HalTypes DEF PollPendingModeWrite
    <3> QED BY <1>1, <1>2, <2>1, <2>2, <3>2 DEF FansOnlyInCustom, BannerIsHonest
  <2>4. CASE ~(target = Performance /\ probing > 0)
    <3>1. did' \in FanWrites(target) /\ probing' = probing /\ firmware' = firmware
      BY <1>4, <2>4 DEF Apply
    <3>2. did' \subseteq {"fan"} /\ ("fan" \in did' => target = Custom)
      BY <3>1 DEF FanWrites
    <3> QED BY <1>1, <1>2, <1>4, <2>1, <2>2, <3>1, <3>2 DEF FansOnlyInCustom, BannerIsHonest
  <2> QED BY <2>3, <2>4
<1> QED BY <1>3, <1>4

-----------------------------------------------------------------------------
\* The invariant, action by action.

LEMMA InitIInv == Init => IInv
<1> SUFFICES ASSUME Init PROVE IInv OBVIOUS
<1>1. TypeOK
  <2>1. /\ passive \in BOOLEAN /\ pending \in BOOLEAN /\ inScene \in BOOLEAN
        /\ adopted \in BOOLEAN
    BY Zenon DEF Init
  <2>2. unsent \in Selection
    BY AllSentType DEF Init
  <2>3. /\ 0 \in 0 .. AdoptStreak /\ 0 \in 0 .. AdoptStreak - 1 /\ 0 \in 0 .. MaxAttempts
        /\ 0 \in 0 .. MaxPolls /\ 0 \in 0 .. MaxEvents /\ GraceTicks \in 0 .. GraceTicks
    BY BoundAssumption
  <2>4. seen \in Run
    BY <2>3 DEF Init, NothingSeen, Run
  <2> QED BY <2>1, <2>2, <2>3, <2>4 DEF Init, TypeOK
<1>2. MonitorOwnsNothing /\ FansOnlyInCustom /\ BannerIsHonest /\ StreakIsSeen /\ FirstChance
  BY DEF Init, MonitorOwnsNothing, FansOnlyInCustom, BannerIsHonest, StreakIsSeen, FirstChance,
         AllSent
<1> QED BY <1>1, <1>2 DEF IInv

LEMMA TickStep ==
  ASSUME IInv, NEW read \in Mode \cup {NoMode}, NEW accepted \in BOOLEAN, Tick(read, accepted)
  PROVE  IInv'
<1>1. /\ Debounce(read) /\ Witness(read) /\ adopted' = Adopts(read)
      /\ baseline' = IF Adopts(read) THEN read ELSE baseline
      /\ passive' = passive /\ inScene' = inScene
  BY DEF Tick, AdoptExternalProfile
<1>2. /\ candidate' \in Mode \cup {NoMode} /\ streak' \in 0 .. AdoptStreak - 1
      /\ seen' \in Run
      /\ StreakIsSeen'
  BY <1>1, DebounceStep
<1>3. events' \in 0 .. MaxEvents
  BY BoundAssumption DEF Tick, Readback, Disturb, IInv, TypeOK
<1>4. baseline' \in Mode /\ passive' \in BOOLEAN /\ inScene' \in BOOLEAN
  BY <1>1, AfterAdoption DEF IInv, TypeOK
<1>5. Adopts(read) \in BOOLEAN /\ adopted' \in BOOLEAN /\ beat' \in BOOLEAN
  BY <1>1 DEF Adopts, Tick
<1>6. AllSent \in Selection /\ AllSent.mode = NoMode
  BY AllSentType
<1>7. CASE MonitorTick(read)
  <2>1. /\ passive /\ did' = {} /\ age' = Older(age)
        /\ lastWritten' = LastAfterAdoption(read) /\ failed' = FailedAfterAdoption(read)
        /\ unsent' = IF Adopts(read) THEN AllSent ELSE unsent
        /\ pending' = pending /\ attempts' = attempts /\ probing' = probing
        /\ firmware' = firmware
    BY <1>7 DEF MonitorTick, retry
  <2>2. TypeOK'
    BY <1>2, <1>3, <1>4, <1>5, <1>6, <2>1, AfterAdoption, OlderType DEF IInv, TypeOK
  <2>3. MonitorOwnsNothing'
    BY <2>1 DEF IInv, MonitorOwnsNothing, FailedAfterAdoption
  <2>4. FansOnlyInCustom' /\ BannerIsHonest'
    BY <2>1, AfterAdoption DEF FansOnlyInCustom, BannerIsHonest
  <2>5. FirstChance'
    BY <1>6, <2>1 DEF IInv, FirstChance
  <2> QED BY <1>2, <2>2, <2>3, <2>4, <2>5 DEF IInv
<1>8. CASE ControlTick(read, accepted)
  <2> DEFINE target == Target'
             last   == LastAfterAdoption(read)
             banner  == FailedAfterAdoption(read)
  <2>1. target \in Mode
    BY <1>4 DEF Target, Mode
  <2>2. ~passive /\ Apply(target, last, banner, accepted, Adopts(read))
    BY <1>8 DEF ControlTick
  <2>3. /\ last \in Mode \cup {NoMode} /\ banner \in Mode \cup {NoMode}
        /\ banner # NoMode => banner # last
    BY AfterAdoption
  <2> HIDE DEF target, last, banner
  <2>4. /\ lastWritten' \in Mode \cup {NoMode} /\ failed' \in Mode \cup {NoMode}
        /\ pending' \in BOOLEAN /\ attempts' \in 0 .. MaxAttempts /\ age' \in 0 .. GraceTicks
        /\ probing' \in 0 .. MaxPolls /\ firmware' \in Mode
        /\ did' \subseteq {"mode", "fan"}
        /\ unsent' \in Selection
        /\ FansOnlyInCustom' /\ BannerIsHonest' /\ FirstChance'
    BY <1>5, <2>1, <2>2, <2>3, ApplyStep
  <2>5. TypeOK'
    BY <1>2, <1>3, <1>4, <1>5, <2>4 DEF TypeOK
  <2>6. MonitorOwnsNothing'
    BY <1>1, <2>2 DEF MonitorOwnsNothing
  <2> QED BY <1>2, <2>4, <2>5, <2>6 DEF IInv
<1> QED BY <1>7, <1>8 DEF Tick

LEMMA DisturbType == ASSUME IInv, Disturb PROVE events' \in 0 .. MaxEvents
BY BoundAssumption DEF Disturb, IInv, TypeOK

LEMMA SelectModeStep ==
  ASSUME IInv, NEW m \in Mode, SelectMode(m)
  PROVE  IInv'
<1>1. /\ baseline' = m /\ lastWritten' = NoMode /\ pending' = TRUE /\ attempts' = 0
      /\ probing' = 0 /\ unsent' = [mode |-> m, screened |-> FALSE, refusals |-> 0]
      /\ did' = {} /\ adopted' = FALSE /\ events' \in 0 .. MaxEvents
      /\ UNCHANGED <<passive, failed, age, candidate, streak, inScene, firmware, beat, seen>>
  BY DisturbType DEF SelectMode, adoption
<1>2. pending' \in BOOLEAN /\ adopted' \in BOOLEAN
  BY <1>1, Zenon
<1>3. TypeOK'
  <2>1. 0 \in 0 .. MaxAttempts - 1
    BY BoundAssumption
  <2>2. unsent' \in Selection
    BY <1>1, <2>1 DEF Selection
  <2> QED BY <1>1, <1>2, <2>2, BoundAssumption DEF IInv, TypeOK
<1>4. MonitorOwnsNothing' /\ FansOnlyInCustom' /\ BannerIsHonest' /\ StreakIsSeen' /\ FirstChance'
  BY <1>1 DEF IInv, MonitorOwnsNothing, FansOnlyInCustom, BannerIsHonest, StreakIsSeen, FirstChance
<1> QED BY <1>3, <1>4 DEF IInv

LEMMA SetPassiveStep ==
  ASSUME IInv, NEW on \in BOOLEAN, SetPassive(on), events' \in 0 .. MaxEvents
  PROVE  IInv'
<1>1. /\ passive' = on /\ candidate' = NoMode /\ streak' = 0
      /\ lastWritten' = NoMode /\ failed' = NoMode /\ DropInFlight(on)
      /\ unsent' = IF on THEN AllSent ELSE unsent
      /\ did' = {} /\ adopted' = FALSE /\ events' \in 0 .. MaxEvents
      /\ UNCHANGED <<baseline, age, inScene, firmware, beat, seen>>
  BY DEF SetPassive
<1>2. /\ AllSent \in Selection /\ AllSent.mode = NoMode
      /\ adopted' \in BOOLEAN
  BY <1>1, AllSentType, Zenon
<1>3. CASE on
  <2>1. pending' = FALSE /\ probing' = 0 /\ attempts' = attempts /\ pending' \in BOOLEAN
    BY <1>1, <1>3 DEF DropInFlight
  <2>2. TypeOK'
    BY <1>1, <1>2, <1>3, <2>1, BoundAssumption DEF IInv, TypeOK
  <2>3. MonitorOwnsNothing' /\ FansOnlyInCustom' /\ BannerIsHonest' /\ StreakIsSeen' /\ FirstChance'
    BY <1>1, <1>2, <1>3, <2>1 DEF MonitorOwnsNothing, FansOnlyInCustom, BannerIsHonest,
                                  StreakIsSeen, FirstChance
  <2> QED BY <2>2, <2>3 DEF IInv
<1>4. CASE ~on
  <2>1. pending' = pending /\ probing' = probing /\ attempts' = attempts
    BY <1>1, <1>4 DEF DropInFlight, retry
  <2>2. TypeOK'
    BY <1>1, <1>2, <1>4, <2>1, BoundAssumption DEF IInv, TypeOK
  <2>3. MonitorOwnsNothing' /\ FansOnlyInCustom' /\ BannerIsHonest' /\ StreakIsSeen' /\ FirstChance'
    BY <1>1, <1>4, <2>1 DEF IInv, MonitorOwnsNothing, FansOnlyInCustom, BannerIsHonest,
                            StreakIsSeen, FirstChance
  <2> QED BY <2>2, <2>3 DEF IInv
<1> QED BY <1>3, <1>4

LEMMA ReloadStep ==
  ASSUME IInv, ReloadFromConfig
  PROVE  IInv'
<1>1. /\ baseline' = DefaultMode /\ lastWritten' = NoMode /\ failed' = NoMode
      /\ pending' = TRUE /\ attempts' = 0 /\ candidate' = NoMode /\ streak' = 0
      /\ probing' = 0 /\ unsent' = AllSent /\ did' = {} /\ adopted' = FALSE
      /\ events' \in 0 .. MaxEvents
      /\ UNCHANGED <<passive, age, inScene, firmware, beat, seen>>
  BY DisturbType DEF ReloadFromConfig
<1>2. pending' \in BOOLEAN /\ adopted' \in BOOLEAN
  BY <1>1, Zenon
<1>3. /\ AllSent \in Selection /\ AllSent.mode = NoMode
  BY AllSentType
<1>4. TypeOK'
  BY <1>1, <1>2, <1>3, BoundAssumption, ModeAssumption DEF IInv, TypeOK
<1>5. MonitorOwnsNothing' /\ FansOnlyInCustom' /\ BannerIsHonest' /\ StreakIsSeen' /\ FirstChance'
  BY <1>1, <1>3 DEF MonitorOwnsNothing, FansOnlyInCustom, BannerIsHonest, StreakIsSeen, FirstChance
<1> QED BY <1>4, <1>5 DEF IInv

\* Scenes and other controllers change nothing the invariant is about.
LEMMA OutsideStep ==
  ASSUME IInv, SceneFlips \/ \E m \in Mode : ExternalChange(m)
  PROVE  IInv'
<1>1. /\ UNCHANGED <<passive, baseline, lastWritten, failed, pending, attempts, age, candidate,
                     streak, probing, beat, unsent, seen>>
      /\ did' = {} /\ adopted' = FALSE /\ events' \in 0 .. MaxEvents
  BY DisturbType DEF SceneFlips, ExternalChange, adoption, retry
<1>2. inScene' \in BOOLEAN /\ firmware' \in Mode
  BY DEF SceneFlips, ExternalChange, IInv, TypeOK
<1>3. adopted' \in BOOLEAN
  BY <1>1, Zenon
<1>4. TypeOK'
  BY <1>1, <1>2, <1>3 DEF IInv, TypeOK
<1>5. MonitorOwnsNothing' /\ FansOnlyInCustom' /\ BannerIsHonest' /\ StreakIsSeen' /\ FirstChance'
  BY <1>1 DEF IInv, MonitorOwnsNothing, FansOnlyInCustom, BannerIsHonest, StreakIsSeen, FirstChance
<1> QED BY <1>4, <1>5 DEF IInv

LEMMA NextIInv == IInv /\ [Next]_vars => IInv'
<1> SUFFICES ASSUME IInv, [Next]_vars PROVE IInv' OBVIOUS
<1>1. CASE Ticking
  BY <1>1, TickStep DEF Ticking
<1>2. CASE \E m \in Mode : SelectMode(m)
  BY <1>2, SelectModeStep
<1>3. CASE \E on \in BOOLEAN : Disturb /\ SetPassive(on)
  BY <1>3, DisturbType, SetPassiveStep
<1>4. CASE ReloadFromConfig
  BY <1>4, ReloadStep
<1>5. CASE SceneFlips \/ \E m \in Mode : ExternalChange(m)
  BY <1>5, OutsideStep
<1>6. CASE UNCHANGED vars
  BY <1>6 DEF vars, retry, adoption, IInv, TypeOK, MonitorOwnsNothing, FansOnlyInCustom,
              BannerIsHonest, StreakIsSeen, FirstChance
<1> QED BY <1>1, <1>2, <1>3, <1>4, <1>5, <1>6 DEF Next

\* The inductive invariant holds in every reachable state.
THEOREM Invariance == Spec => []IInv
BY InitIInv, NextIInv, PTL DEF Spec

\* Every variable keeps its type.
THEOREM TypeCorrect == Spec => []TypeOK
<1>1. IInv => TypeOK BY DEF IInv
<1> QED BY <1>1, Invariance, PTL

\* In monitor mode the loop writes nothing and has nothing in flight.
THEOREM MonitorIsIdle == Spec => []MonitorOwnsNothing
<1>1. IInv => MonitorOwnsNothing BY DEF IInv
<1> QED BY <1>1, Invariance, PTL

\* A fan is written only when the firmware has last accepted Custom.
THEOREM FansNeedCustom == Spec => []FansOnlyInCustom
<1>1. IInv => FansOnlyInCustom BY DEF IInv
<1> QED BY <1>1, Invariance, PTL

\* The failure banner never names the mode written last.
THEOREM BannerStaysHonest == Spec => []BannerIsHonest
<1>1. IInv => BannerIsHonest BY DEF IInv
<1> QED BY <1>1, Invariance, PTL

-----------------------------------------------------------------------------
\* Adoption.

\* Only a tick adopts, and it adopts what it read.
LEMMA AdoptingStep ==
  ASSUME IInv, Next, adopted'
  PROVE  \E read \in Mode \cup {NoMode}, accepted \in BOOLEAN :
           Tick(read, accepted) /\ Adopts(read)
BY DEF Next, Ticking, Tick, AdoptExternalProfile, SelectMode, SetPassive, ReloadFromConfig,
       SceneFlips, ExternalChange

\* What every adoption respects.
AdoptionRules ==
  /\ seen'.mode = baseline' /\ seen'.readings = AdoptStreak
  /\ passive => seen'.ticks = AdoptStreak
  /\ ~passive => unsent.mode = NoMode \/ unsent.screened
  /\ ~inScene => "mode" \notin did'

LEMMA AdoptingRules ==
  ASSUME IInv, NEW read \in Mode \cup {NoMode}, NEW accepted \in BOOLEAN,
         Tick(read, accepted), Adopts(read)
  PROVE  AdoptionRules
<1>1. /\ seen'.mode = baseline' /\ seen'.readings = AdoptStreak
      /\ passive => seen'.ticks = AdoptStreak
  <2>1. Debounce(read) /\ Witness(read) /\ baseline' = read /\ UNCHANGED passive
    BY DEF Tick, AdoptExternalProfile
  <2> QED BY <2>1, DebounceStep
<1>2. ASSUME ~passive PROVE unsent.mode = NoMode \/ unsent.screened
  <2>1. ~pending
    BY <1>2 DEF Adopts, MayAdopt
  <2> QED BY <2>1 DEF IInv, FirstChance
<1>3. ASSUME ~inScene PROVE "mode" \notin did'
  <2>1. baseline' = read /\ LastAfterAdoption(read) = read
    BY DEF Tick, AdoptExternalProfile, LastAfterAdoption
  <2>2. CASE MonitorTick(read)
    BY <2>2 DEF MonitorTick
  <2>3. CASE ControlTick(read, accepted)
    <3>1. ~passive /\ Apply(read, read, FailedAfterAdoption(read), accepted, TRUE)
      BY <1>3, <2>1, <2>3 DEF ControlTick, Target, Tick
    <3>2. probing = 0
      BY <3>1 DEF Adopts, MayAdopt
    <3>3. did' \in FanWrites(read)
      BY <3>1, <3>2 DEF Apply
    <3> QED BY <3>3 DEF FanWrites
  <2> QED BY <2>2, <2>3 DEF Tick
<1> QED BY <1>1, <1>2, <1>3 DEF AdoptionRules

LEMMA AdoptionStep == IInv /\ [Next]_vars => [adopted' => AdoptionRules]_vars
BY AdoptingStep, AdoptingRules

\* A profile is adopted only when the last AdoptStreak readbacks all showed it, in
\* monitor mode on as many ticks in a row (Controller.cpp:209).
THEOREM AdoptionNeedsStreak == Spec => AdoptionIsRepeated
<1>1. IInv /\ [Next]_vars =>
        [adopted' => /\ seen'.mode = baseline' /\ seen'.readings = AdoptStreak
                     /\ passive => seen'.ticks = AdoptStreak]_vars
  BY AdoptionStep DEF AdoptionRules
<1> QED BY <1>1, Invariance, PTL DEF Spec, AdoptionIsRepeated

\* Outside monitor mode no adoption replaces a selection that the firmware has neither
\* taken nor refused MaxAttempts times, and that no scene has screened.
THEOREM SelectionsSurvive == Spec => PendingSelectionKept
<1>1. IInv /\ [Next]_vars =>
        [adopted' /\ ~passive => unsent.mode = NoMode \/ unsent.screened]_vars
  BY AdoptionStep DEF AdoptionRules
<1> QED BY <1>1, Invariance, PTL DEF Spec, PendingSelectionKept

\* The tick that adopts a profile writes no mode unless a scene asks for one.
THEOREM AdoptionIsPeaceful == Spec => AdoptionIsNotFought
<1>1. IInv /\ [Next]_vars => [adopted' /\ ~inScene => "mode" \notin did']_vars
  BY AdoptionStep DEF AdoptionRules
<1> QED BY <1>1, Invariance, PTL DEF Spec, AdoptionIsNotFought

-----------------------------------------------------------------------------
\* The thermal HAL is used the way its interface asks.

\* A tick writes or polls for the mode the chain chose before the tick: adoption may
\* change the target, but then only Custom's fans are left to write.
LEMMA TickUsesHal ==
  ASSUME IInv, NEW read \in Mode \cup {NoMode}, NEW accepted \in BOOLEAN, Tick(read, accepted)
  PROVE  [Hal!Next]_(Hal!vars)
<1>1. /\ adopted' = Adopts(read) /\ passive' = passive /\ inScene' = inScene
      /\ baseline' = IF Adopts(read) THEN read ELSE baseline
  BY DEF Tick, AdoptExternalProfile
<1>2. Target' \in Mode
  BY <1>1, AfterAdoption DEF IInv, TypeOK, Target, Mode
<1>3. UNCHANGED <<probing, firmware>> => [Hal!Next]_(Hal!vars)
  BY <1>2 DEF Hal!Next, Hal!Retarget
<1>4. CASE MonitorTick(read)
  BY <1>3, <1>4 DEF MonitorTick
<1>5. CASE ControlTick(read, accepted)
  <2>1. ~passive /\ Apply(Target', LastAfterAdoption(read), FailedAfterAdoption(read),
                         accepted, Adopts(read))
    BY <1>5 DEF ControlTick
  <2>2. CASE Adopts(read) /\ ~inScene
    <3>1. Target' = LastAfterAdoption(read) /\ probing = 0
      BY <1>1, <2>1, <2>2 DEF Target, LastAfterAdoption, Adopts, MayAdopt
    <3>2. UNCHANGED <<probing, firmware>>
      BY <2>1, <3>1 DEF Apply
    <3> QED BY <1>3, <3>2
  <2>3. CASE ~(Adopts(read) /\ ~inScene)
    <3>1. Target' = Target
      BY <1>1, <2>3 DEF Target
    <3>2. CASE Target' # LastAfterAdoption(read)
      <4>1. Hal!Accepted(Target') \/ Hal!Refused(Target')
        BY <2>1, <3>2 DEF Apply, ModeWritten, ModeRefused
      <4>2. Hal!Accepted(Target) \/ Hal!Refused(Target)
        BY <3>1, <4>1 DEF Hal!Accepted, Hal!Refused
      <4> QED BY <3>1, <4>2 DEF Hal!Next, Hal!Write
    <3>3. CASE Target' = LastAfterAdoption(read) /\ Target' = Performance /\ probing > 0
      <4>1. Hal!PollGoesOn \/ Hal!PollEnds
        BY <2>1, <3>3 DEF Apply, PollPendingModeWrite
      <4> QED BY <3>1, <3>3, <4>1 DEF Hal!Next, Hal!Poll
    <3>4. CASE Target' = LastAfterAdoption(read) /\ ~(Target' = Performance /\ probing > 0)
      BY <1>3, <2>1, <3>4 DEF Apply
    <3> QED BY <3>2, <3>3, <3>4
  <2> QED BY <2>2, <2>3
<1> QED BY <1>4, <1>5 DEF Tick

\* Between ticks requests are cancelled, or the target moves, or the firmware does.
LEMMA EventUsesHal ==
  ASSUME IInv, IInv',
         \/ \E m \in Mode : SelectMode(m)
         \/ \E on \in BOOLEAN : SetPassive(on)
         \/ ReloadFromConfig \/ SceneFlips \/ (\E m \in Mode : ExternalChange(m))
  PROVE  [Hal!Next]_(Hal!vars)
<1>1. Target' \in Mode /\ firmware' \in Mode
  BY DEF IInv, TypeOK, Target, Mode
<1>2. CASE (\E m \in Mode : SelectMode(m)) \/ ReloadFromConfig
  <2>1. Hal!Cancel
    BY <1>1, <1>2 DEF SelectMode, ReloadFromConfig, Hal!Cancel, Hal!Cancelled
  <2> QED BY <2>1 DEF Hal!Next
<1>3. ASSUME NEW on \in BOOLEAN, SetPassive(on) PROVE [Hal!Next]_(Hal!vars)
  <2>1. UNCHANGED firmware /\ Target' = Target /\ DropInFlight(on)
    BY <1>3 DEF SetPassive, Target
  <2>2. probing' = 0 \/ probing' = probing
    BY <2>1 DEF DropInFlight
  <2> QED BY <1>1, <2>1, <2>2 DEF Hal!Next, Hal!Cancel, Hal!Cancelled, Hal!vars
<1>4. CASE SceneFlips
  <2>1. Hal!Retarget
    BY <1>1, <1>4 DEF SceneFlips, Hal!Retarget
  <2> QED BY <2>1 DEF Hal!Next
<1>5. CASE \E m \in Mode : ExternalChange(m)
  <2>1. Hal!Outside
    BY <1>1, <1>5 DEF ExternalChange, Target, Hal!Outside
  <2> QED BY <2>1 DEF Hal!Next
<1> QED BY <1>2, <1>3, <1>4, <1>5

LEMMA InitUsesHal == Init => Hal!Init
<1> SUFFICES ASSUME Init PROVE Hal!Init OBVIOUS
<1>1. IInv
  BY InitIInv
<1>2. Target \in Mode /\ firmware \in Mode
  BY <1>1 DEF IInv, TypeOK, Target, Mode
<1> QED BY <1>2 DEF Init, Hal!Init

\* Every step of the loop is a step of the writer the interface promises: the loop
\* polls only while Performance is its target, and what replaces a request cancels it.
THEOREM HalUsedProperly == Spec => UsesHalProperly
<1>1. IInv /\ [Next]_vars => [Hal!Next]_(Hal!vars)
  <2> SUFFICES ASSUME IInv, [Next]_vars PROVE [Hal!Next]_(Hal!vars) OBVIOUS
  <2>1. IInv'
    BY NextIInv
  <2>2. CASE Ticking
    BY <2>2, TickUsesHal DEF Ticking
  <2>3. CASE UNCHANGED vars
    BY <2>3 DEF vars, Target, Hal!vars
  <2> QED BY <2>1, <2>2, <2>3, EventUsesHal DEF Next
<1> QED BY <1>1, InitUsesHal, Invariance, PTL DEF Spec, UsesHalProperly, Hal!Spec

-----------------------------------------------------------------------------
\* The composition with the watcher.

WithinThePeriod == wrong \in Nat /\ phase \in 0 .. WatchPeriod /\ wrong <= phase

-----------------------------------------------------------------------------
\* The actions of the window that are none of the loop's.
LEMMA ShellStep ==
  ASSUME IInv, TakeControl \/ Exit \/ AwccStartsOrStops
  PROVE  IInv'
<1>1. /\ UNCHANGED <<passive, baseline, lastWritten, failed, pending, attempts, age, candidate,
                     streak, inScene, probing, firmware, beat, unsent, seen>>
      /\ did' = {} /\ adopted' = FALSE /\ events' \in 0 .. MaxEvents
  <2>1. CASE TakeControl
    BY <2>1, DisturbType DEF TakeControl, adoption, retry
  <2>2. CASE Exit
    BY <2>2 DEF Exit, adoption, retry, IInv, TypeOK
  <2>3. CASE AwccStartsOrStops
    BY <2>3, DisturbType DEF AwccStartsOrStops, adoption, retry
  <2> QED BY <2>1, <2>2, <2>3
<1>2. TypeOK'
  BY <1>1 DEF IInv, TypeOK
<1> QED BY <1>1, <1>2 DEF IInv, MonitorOwnsNothing, FansOnlyInCustom, BannerIsHonest, StreakIsSeen,
                          FirstChance

LEMMA ShouldType ==
  ASSUME awcc \in BOOLEAN, coexist \in BOOLEAN, force \in BOOLEAN
  PROVE  ShouldBePassive \in BOOLEAN
BY DEF ShouldBePassive

\* A check makes passive what it should be, and nothing else of the loop changes but
\* what SetPassive changes.
LEMMA CheckStep ==
  ASSUME IInv, CTypeOK, CheckAwcc
  PROVE  IInv' /\ passive' = ShouldBePassive
<1>1. ShouldBePassive \in BOOLEAN /\ passive \in BOOLEAN
  BY ShouldType DEF CTypeOK, TypeOK
<1>2. CASE MustSwitch(ShouldBePassive)
  <2>1. SetPassive(ShouldBePassive) /\ UNCHANGED events
    BY <1>2 DEF CheckAwcc
  <2>2. events' \in 0 .. MaxEvents
    BY <2>1 DEF IInv, TypeOK
  <2>3. passive' = ShouldBePassive
    BY <2>1 DEF SetPassive
  <2> QED BY <1>1, <2>1, <2>2, <2>3, SetPassiveStep
<1>3. CASE ~MustSwitch(ShouldBePassive)
  <2>1. UNCHANGED vars
    BY <1>3 DEF CheckAwcc
  <2>2. passive' = ShouldBePassive
    BY <1>1, <1>3, <2>1 DEF MustSwitch, vars
  <2>3. IInv'
    BY <2>1, NextIInv
  <2> QED BY <2>2, <2>3
<1> QED BY <1>2, <1>3

LEMMA CNextIInv ==
  ASSUME IInv, CTypeOK, [CNext]_cvars
  PROVE  IInv'
<1>1. CASE Start \/ Watch
  BY <1>1, CheckStep DEF Start, Watch
<1>2. CASE TickOnce
  BY <1>2, TickStep DEF TickOnce
<1>3. ASSUME NEW m \in Mode, SelectMode(m) PROVE IInv'
  BY <1>3, SelectModeStep
<1>4. CASE (\E m \in TrayModes : SelectInTray(m)) \/ (\E m \in Mode : SelectOnPage(m))
  BY <1>3, <1>4, TrayAssumption DEF SelectInTray, SelectOnPage
<1>5. CASE TakeControl \/ Exit \/ AwccStartsOrStops
  BY <1>5, ShellStep
<1>6. CASE ResetDefaults
  BY <1>6, ReloadStep DEF ResetDefaults
<1>7. CASE Scene \/ External
  BY <1>7, OutsideStep DEF Scene, External
<1>8. CASE UNCHANGED cvars
  <2>1. UNCHANGED vars
    BY <1>8 DEF cvars
  <2> QED BY <2>1, NextIInv
<1> QED BY <1>1, <1>2, <1>4, <1>5, <1>6, <1>7, <1>8 DEF CNext

-----------------------------------------------------------------------------
\* The variables of the window.
LEMMA ShellTypes ==
  ASSUME CTypeOK, TypeOK', WithinThePeriod, [CNext]_cvars,
         CheckAwcc => passive' = ShouldBePassive
  PROVE  CTypeOK' /\ WithinThePeriod'
<1> USE DEF CTypeOK, WithinThePeriod
<1>1. /\ DefaultMode \in TrayModes /\ TrayModes \subseteq Mode /\ WatchPeriod \in Nat \ {0}
      /\ \A m \in Mode \cup {NoMode} : InTray(m) \in TrayModes \cup {NoMode}
  BY TrayAssumption, WatchAssumption DEF InTray
<1>2. CASE Start \/ Watch
  <2>1. CheckAwcc /\ life' \in {"starting", "running", "exited"}
    BY <1>2 DEF Start, Watch
  <2>2. /\ paused' = ShouldBePassive /\ phase' = 0 /\ wrong' = 0
        /\ UNCHANGED <<awcc, coexist, force, tray, radio>>
    BY <2>1 DEF CheckAwcc
  <2>3. ShouldBePassive \in BOOLEAN
    BY ShouldType
  <2> QED BY <1>1, <2>1, <2>2, <2>3
<1>3. CASE TickOnce
  <2>1. PICK read \in Mode \cup {NoMode}, accepted \in BOOLEAN :
          Tick(read, accepted) /\ OnThermalModeChanged(Changed(read))
    BY <1>3 DEF TickOnce
  <2>2. /\ phase < WatchPeriod /\ phase' = phase + 1
        /\ wrong' = (IF passive # ShouldBePassive THEN wrong + 1 ELSE 0)
        /\ UNCHANGED <<life, awcc, coexist, force, paused>>
    BY <1>3 DEF TickOnce
  <2>3. Changed(read) \in Mode \cup {NoMode}
    BY DEF Changed, TypeOK
  <2>4. tray' \in TrayModes \cup {NoMode} /\ radio' \in Mode
    BY <1>1, <2>1, <2>3 DEF OnThermalModeChanged, SyncTrayModes
  <2>5. phase' \in 0 .. WatchPeriod /\ wrong' \in Nat /\ wrong' <= phase'
    BY <1>1, <2>2
  <2> QED BY <2>2, <2>4, <2>5
<1>4. ASSUME NEW m \in TrayModes, SelectInTray(m) PROVE CTypeOK' /\ WithinThePeriod'
  BY <1>1, <1>4 DEF SelectInTray
<1>5. ASSUME NEW m \in Mode, SelectOnPage(m) PROVE CTypeOK' /\ WithinThePeriod'
  BY <1>1, <1>5 DEF SelectOnPage
<1>6. CASE TakeControl \/ ResetDefaults \/ Exit \/ AwccStartsOrStops
  <2>1. /\ life' \in {"starting", "running", "exited"} /\ awcc' \in BOOLEAN
        /\ coexist' \in BOOLEAN /\ force' \in BOOLEAN
        /\ UNCHANGED <<paused, phase, tray, wrong>> /\ radio' \in {radio, DefaultMode}
    BY <1>6 DEF TakeControl, ResetDefaults, Exit, AwccStartsOrStops
  <2> QED BY <1>1, <2>1
<1>7. CASE Scene \/ External \/ UNCHANGED cvars
  <2>1. UNCHANGED shell
    BY <1>7 DEF Scene, External, cvars
  <2> QED BY <2>1 DEF shell
<1> QED BY <1>2, <1>3, <1>4, <1>5, <1>6, <1>7 DEF CNext

\* The loop keeps its inductive invariant when the watcher, its settings and the two
\* places that select a mode drive it, for every watch period and set of modes; the
\* window's own state is well typed.
THEOREM ComposedInvariance == CSpec => [](IInv /\ CTypeOK /\ WithinThePeriod)
<1>1. CInit => IInv /\ CTypeOK /\ WithinThePeriod
  <2> SUFFICES ASSUME CInit PROVE IInv /\ CTypeOK /\ WithinThePeriod OBVIOUS
  <2>1. IInv
    BY InitIInv DEF CInit
  <2>2. TypeOK /\ baseline \in Mode
    BY <2>1 DEF IInv, TypeOK
  <2>3. WatchPeriod \in Nat
    BY WatchAssumption
  <2>4. /\ life \in {"starting", "running", "exited"} /\ awcc \in BOOLEAN /\ coexist \in BOOLEAN
        /\ force \in BOOLEAN /\ paused \in BOOLEAN
    BY Zenon DEF CInit
  <2>5. phase \in 0 .. WatchPeriod /\ wrong \in Nat /\ wrong <= phase
    BY <2>3 DEF CInit
  <2>6. radio \in Mode /\ tray \in TrayModes \cup {NoMode}
    BY <2>2 DEF CInit
  <2> QED BY <2>1, <2>2, <2>4, <2>5, <2>6 DEF CTypeOK, WithinThePeriod
<1>2. IInv /\ CTypeOK /\ WithinThePeriod /\ [CNext]_cvars => (IInv /\ CTypeOK /\ WithinThePeriod)'
  <2> SUFFICES ASSUME IInv, CTypeOK, WithinThePeriod, [CNext]_cvars
               PROVE  (IInv /\ CTypeOK /\ WithinThePeriod)'
    OBVIOUS
  <2>1. IInv' /\ TypeOK'
    BY CNextIInv DEF IInv
  <2>2. CheckAwcc => passive' = ShouldBePassive
    BY CheckStep
  <2> QED BY <2>1, <2>2, ShellTypes
<1> QED BY <1>1, <1>2, PTL DEF CSpec

\* Beside the watcher too nothing is written or in flight in monitor mode
\* (Controller.cpp:151).
THEOREM WatchedMonitorIsIdle == CSpec => []MonitorOwnsNothing
<1>1. IInv => MonitorOwnsNothing
  BY DEF IInv
<1> QED BY <1>1, ComposedInvariance, PTL

\* However AWCC starts and stops and the settings change, the loop makes no more ticks
\* in the wrong mode than fit between two checks (MainWindow.cpp:129).
THEOREM SwitchedWithinAPeriod == CSpec => []WrongForOnePeriod
<1>1. WithinThePeriod => WrongForOnePeriod
  BY WatchAssumption DEF WithinThePeriod, WrongForOnePeriod
<1> QED BY <1>1, ComposedInvariance, PTL

\* Beside the watcher, too, only a tick adopts.  The other steps of the window clear
\* adopted, or leave the loop alone.
LEMMA WatchedAdoptingStep ==
  ASSUME CNext, adopted', vars' # vars
  PROVE  \E read \in Mode \cup {NoMode}, accepted \in BOOLEAN :
           Tick(read, accepted) /\ Adopts(read)
<1>1. CASE Start \/ Watch
  BY <1>1 DEF Start, Watch, CheckAwcc, SetPassive
<1>2. CASE TickOnce
  BY <1>2 DEF TickOnce, Tick, AdoptExternalProfile
<1>3. CASE ~(Start \/ Watch \/ TickOnce)
  BY <1>3 DEF CNext, SelectInTray, SelectOnPage, TakeControl, ResetDefaults, Scene, Exit,
              AwccStartsOrStops, External, SelectMode, ReloadFromConfig, SceneFlips, ExternalChange
<1> QED BY <1>1, <1>2, <1>3

\* What the loop promises about adopting external profiles it keeps when the watcher
\* of AWCC, the settings, the tray and the pages drive it (MainWindow::checkAwcc beside
\* Controller::adoptExternalProfile): never on fewer readbacks than the debounce asks for,
\* never over a selection not written yet, never by writing another mode at once.
THEOREM WatchedAdoption ==
  CSpec => AdoptionIsRepeated /\ PendingSelectionKept /\ AdoptionIsNotFought
<1>1. IInv /\ [CNext]_cvars => [adopted' => AdoptionRules]_vars
  <2> SUFFICES ASSUME IInv, CNext, adopted', vars' # vars
               PROVE  AdoptionRules
    BY DEF cvars
  <2> QED BY WatchedAdoptingStep, AdoptingRules
<1>2. [adopted' => AdoptionRules]_vars =>
        /\ [adopted' => /\ seen'.mode = baseline' /\ seen'.readings = AdoptStreak
                        /\ passive => seen'.ticks = AdoptStreak]_vars
        /\ [adopted' /\ ~passive => unsent.mode = NoMode \/ unsent.screened]_vars
        /\ [adopted' /\ ~inScene => "mode" \notin did']_vars
  BY DEF AdoptionRules
<1> QED BY <1>1, <1>2, ComposedInvariance, PTL
        DEF CSpec, AdoptionIsRepeated, PendingSelectionKept, AdoptionIsNotFought

\* The window drives the loop within the interface, too: whoever switches, selects or
\* resets cancels what is being verified, or leaves the firmware alone.
THEOREM WatchedHalUse == CSpec => UsesHalProperly
<1>1. IInv /\ CTypeOK /\ [CNext]_cvars => [Hal!Next]_(Hal!vars)
  <2> SUFFICES ASSUME IInv, CTypeOK, [CNext]_cvars PROVE [Hal!Next]_(Hal!vars) OBVIOUS
  <2>1. IInv'
    BY CNextIInv
  <2>2. UNCHANGED vars => [Hal!Next]_(Hal!vars)
    BY DEF vars, Target, Hal!vars
  <2>3. CASE Start \/ Watch
    <3>1. CASE MustSwitch(ShouldBePassive)
      <4>1. ShouldBePassive \in BOOLEAN /\ SetPassive(ShouldBePassive)
        BY <2>3, <3>1, ShouldType DEF Start, Watch, CheckAwcc, CTypeOK
      <4> QED BY <2>1, <4>1, EventUsesHal
    <3>2. CASE ~MustSwitch(ShouldBePassive)
      BY <2>2, <2>3, <3>2 DEF Start, Watch, CheckAwcc
    <3> QED BY <3>1, <3>2
  <2>4. CASE TickOnce
    BY <2>4, TickUsesHal DEF TickOnce
  <2>5. CASE \/ \E m \in TrayModes : SelectInTray(m)
             \/ (\E m \in Mode : SelectOnPage(m)) \/ ResetDefaults \/ Scene \/ External
    <3>1. \/ \E m \in Mode : SelectMode(m)
          \/ ReloadFromConfig \/ SceneFlips \/ (\E m \in Mode : ExternalChange(m))
      BY <2>5, TrayAssumption DEF SelectInTray, SelectOnPage, ResetDefaults, Scene, External
    <3> QED BY <2>1, <3>1, EventUsesHal
  <2>6. CASE TakeControl \/ Exit \/ AwccStartsOrStops
    BY <2>6 DEF TakeControl, Exit, AwccStartsOrStops, Target, Hal!vars
  <2>7. CASE UNCHANGED cvars
    BY <2>2, <2>7 DEF cvars
  <2> QED BY <2>3, <2>4, <2>5, <2>6, <2>7 DEF CNext
<1>2. CInit => Hal!Init
  BY InitUsesHal DEF CInit
<1> QED BY <1>1, <1>2, ComposedInvariance, PTL DEF CSpec, UsesHalProperly, Hal!Spec
=============================================================================
