--------------------------- MODULE ChargingProofs ---------------------------
(***************************************************************************)
(* Proofs about Charging and its channel, for every value of the constants:   *)
(* any sizes tried, any list of modes, any range of thresholds.                *)
(*                                                                          *)
(* The channel is settled once, so what holds of it after Initialize holds     *)
(* for ever (SettledIInv).  A button means the mode it shows because the list    *)
(* the page was built from depends only on what does not change while the       *)
(* program runs, and on whether it was heard (ListIInv): a click that hears the  *)
(* list, or misses it, as the page did reads the same one.                     *)
(***************************************************************************)
EXTENDS Charging, WellFoundedInduction, TLAPS

-----------------------------------------------------------------------------
\* The first of a list that passes a test.

\* Every set of naturals that is not empty has a least element, which Min is.
LEMMA MinIsLeast ==
  ASSUME NEW S \in SUBSET Nat, S # {}
  PROVE  Min(S) \in S /\ \A y \in S : Min(S) <= y
<1>1. \E x \in S : \A y \in S : ~ (<<y, x>> \in OpToRel(<, Nat))
  BY NatLessThanWellFounded, WFMin
<1>2. PICK x \in S : \A y \in S : ~ (<<y, x>> \in OpToRel(<, Nat))
  BY <1>1
<1>3. \A y \in S : ~(y < x)
  BY <1>2 DEF OpToRel
<1>4. \A y \in S : x <= y
  BY <1>3
<1> QED BY <1>4 DEF Min

\* Probing finds the first of the sizes tried that works, or none works.
LEMMA FirstWorks ==
  ASSUME NEW sizes \in Seq(Nat), \A i \in DOMAIN sizes : sizes[i] # 0,
         NEW working \in SUBSET Range(sizes)
  PROVE  /\ FirstWorking(sizes, working) # 0 =>
              \E i \in DOMAIN sizes :
                /\ FirstWorking(sizes, working) = sizes[i] /\ sizes[i] \in working
                /\ \A j \in DOMAIN sizes : sizes[j] \in working => i <= j
         /\ FirstWorking(sizes, working) = 0 => working = {}
<1> DEFINE I == {i \in 1 .. Len(sizes) : sizes[i] \in working}
<1>1. FirstWorking(sizes, working) =
        LET i == IF I # {} THEN Min(I) ELSE 0 IN IF i = 0 THEN 0 ELSE sizes[i]
  BY DEF FirstWorking, SelectInSeq
<1>2. DOMAIN sizes = 1 .. Len(sizes) /\ I \in SUBSET Nat /\ 0 \notin I
  OBVIOUS
<1>3. CASE I = {}
  BY <1>1, <1>2, <1>3 DEF Range
<1>4. CASE I # {}
  <2>1. Min(I) \in I /\ \A j \in I : Min(I) <= j
    BY <1>2, <1>4, MinIsLeast
  <2>2. Min(I) # 0 /\ FirstWorking(sizes, working) = sizes[Min(I)]
    BY <1>1, <1>2, <1>4, <2>1
  <2> QED BY <1>2, <2>1, <2>2
<1> QED BY <1>3, <1>4

\* What the probing over BFn and over the service has found.
BfnProbed     == FirstWorking(BfnSizes, {size \in Range(BfnSizes) : BfnProbes(size)})
ServiceProbed ==
  FirstWorking(ServiceSizes, {size \in Range(ServiceSizes) : ThermalGetOk(size)})

LEMMA BfnFound ==
  /\ BfnProbed # 0 => BfnProbes(BfnProbed)
  /\ BfnProbed = 0 => \A size \in Range(BfnSizes) : ~BfnProbes(size)
<1> DEFINE works == {size \in Range(BfnSizes) : BfnProbes(size)}
<1>1. BfnSizes \in Seq(Nat) /\ GetSize \in Nat /\ MinSize \in Nat \ {0} /\ MinSize <= GetSize
      /\ \A i \in DOMAIN BfnSizes : BfnSizes[i] \in Nat /\ BfnSizes[i] >= GetSize
  BY SizeAssumption
<1>2. \A i \in DOMAIN BfnSizes : BfnSizes[i] # 0
  BY <1>1
<1>3. /\ FirstWorking(BfnSizes, works) # 0 => FirstWorking(BfnSizes, works) \in works
      /\ FirstWorking(BfnSizes, works) = 0 => works = {}
  <2>1. works \in SUBSET Range(BfnSizes)
    OBVIOUS
  <2> HIDE DEF works
  <2> QED BY <1>1, <1>2, <2>1, FirstWorks
<1> QED BY <1>3 DEF BfnProbed

LEMMA ServiceFound ==
  /\ ServiceProbed # 0 =>
       \E i \in DOMAIN ServiceSizes :
         /\ ServiceProbed = ServiceSizes[i] /\ ThermalGetOk(ServiceSizes[i])
         /\ \A j \in DOMAIN ServiceSizes : ThermalGetOk(ServiceSizes[j]) => i <= j
  /\ ServiceProbed = 0 => \A size \in Range(ServiceSizes) : ~ThermalGetOk(size)
<1> DEFINE works == {size \in Range(ServiceSizes) : ThermalGetOk(size)}
<1>1. ServiceSizes \in Seq(Nat) /\ GetSize \in Nat /\ MinSize \in Nat \ {0} /\ MinSize <= GetSize
      /\ \A i \in DOMAIN ServiceSizes :
           ServiceSizes[i] \in Nat /\ (ServiceSizes[i] >= MinSize \/ ServiceSizes[i] >= GetSize)
  BY SizeAssumption
<1>2. \A i \in DOMAIN ServiceSizes : ServiceSizes[i] # 0
  BY <1>1
<1>3. /\ FirstWorking(ServiceSizes, works) # 0 =>
           \E i \in DOMAIN ServiceSizes :
             /\ FirstWorking(ServiceSizes, works) = ServiceSizes[i] /\ ServiceSizes[i] \in works
             /\ \A j \in DOMAIN ServiceSizes : ServiceSizes[j] \in works => i <= j
      /\ FirstWorking(ServiceSizes, works) = 0 => works = {}
  <2>1. works \in SUBSET Range(ServiceSizes)
    OBVIOUS
  <2> HIDE DEF works
  <2> QED BY <1>1, <1>2, <2>1, FirstWorks
<1>4. \A j \in DOMAIN ServiceSizes : ServiceSizes[j] \in works <=> ThermalGetOk(ServiceSizes[j])
  BY DEF Range
<1> HIDE DEF works
<1>5. ServiceProbed = FirstWorking(ServiceSizes, works)
  BY DEF ServiceProbed, works
<1>6. works = {} => \A size \in Range(ServiceSizes) : ~ThermalGetOk(size)
  BY DEF works
<1> QED BY <1>3, <1>4, <1>5, <1>6

-----------------------------------------------------------------------------
\* The channel.

\* What the machine is like before and after the program starts.
PlatformTyped ==
  /\ dpm \in {"absent", "rejecting", "answering"}
  /\ dpmSizes \in SUBSET Range(ServiceSizes) /\ (dpm # "answering" => dpmSizes = {})
  /\ bfn \in {"absent", "sibling", "present"} /\ bfnSize \in Nat
  /\ qdata \in {0, MinSize - 1, bfnSize}

SettledIInv == PlatformTyped /\ (up => ChannelWorks)

LEMMA InitSettled == Init => SettledIInv
<1> SUFFICES ASSUME Init PROVE SettledIInv OBVIOUS
<1>1. ServiceSizes \in Seq(Nat) /\ BfnSizes \in Seq(Nat)
  BY SizeAssumption
<1>2. Range(ServiceSizes \o BfnSizes) \subseteq Nat
  <2>1. ServiceSizes \o BfnSizes \in Seq(Nat)
    BY <1>1
  <2> QED BY <2>1 DEF Range
<1> QED BY <1>2 DEF Init, ChannelInit, SettledIInv, PlatformTyped

\* Over BFn the length found is one battery requests get through with, if there is one.
LEMMA BfnLengthWorks ==
  ASSUME PlatformTyped, Carries("bfn"), query
  PROVE  bfn = "present" /\ ChargeGetOk("bfn", BfnLength)
<1>1. /\ GetSize \in Nat /\ MinSize \in Nat /\ MinSize # 0 /\ MinSize <= GetSize
      /\ bfnSize \in Nat
  BY SizeAssumption DEF PlatformTyped
<1>2. /\ bfn = "present" /\ bfnSize \in {qdata} \cup Range(BfnSizes)
      /\ ChargeGetOk("bfn", bfnSize) /\ \A n : ChargeGetOk("bfn", n) => n = bfnSize
  BY DEF Carries, ChargeGetOk, Executes
<1>3. CASE qdata >= MinSize
  <2>1. qdata = bfnSize
    BY <1>1, <1>3 DEF PlatformTyped
  <2> QED BY <1>2, <1>3, <2>1 DEF BfnLength
<1>4. CASE ~(qdata >= MinSize)
  <2>1. bfnSize \in Range(BfnSizes)
    BY <1>1, <1>2, <1>4 DEF ChargeGetOk
  <2>2. BfnProbes(bfnSize)
    BY <1>2 DEF BfnProbes
  <2>3. BfnProbed # 0 /\ BfnProbes(BfnProbed)
    BY <2>1, <2>2, BfnFound
  <2>4. BfnLength = BfnProbed
    BY <1>4, <2>3 DEF BfnLength, BfnProbed
  <2> QED BY <1>2, <2>3, <2>4 DEF BfnProbes
<1> QED BY <1>3, <1>4

\* The length settled on over the service suits battery requests, or the service answers
\* only buffers they do not fit in: just the last size tried is that short.
LEMMA ServiceLengthWorks ==
  ASSUME ServiceLength # 0
  PROVE  ChargeGetOk("service", ServiceLength) \/ AnswersShort
<1>1. PICK i \in DOMAIN ServiceSizes :
        /\ ServiceLength = ServiceSizes[i] /\ ThermalGetOk(ServiceSizes[i])
        /\ \A j \in DOMAIN ServiceSizes : ThermalGetOk(ServiceSizes[j]) => i <= j
  BY ServiceFound DEF ServiceLength, ServiceProbed
<1>2. /\ ServiceSizes \in Seq(Nat) /\ DOMAIN ServiceSizes = 1 .. Len(ServiceSizes)
      /\ Len(ServiceSizes) \in Nat /\ ServiceLength \in Nat /\ GetSize \in Nat
      /\ (i # Len(ServiceSizes) => ServiceLength >= GetSize)
  BY <1>1, SizeAssumption
<1>3. CASE ServiceLength >= GetSize
  BY <1>1, <1>3 DEF ThermalGetOk, ChargeGetOk
<1>4. CASE ~(ServiceLength >= GetSize)
  <2>1. ASSUME NEW size \in Range(ServiceSizes), ChargeGetOk("service", size)
        PROVE  FALSE
    <3>1. PICK j \in DOMAIN ServiceSizes : size = ServiceSizes[j]
      BY DEF Range
    <3>2. ThermalGetOk(ServiceSizes[j])
      BY <1>1, <2>1, <3>1 DEF ThermalGetOk, ChargeGetOk
    <3>3. i = j
      BY <1>1, <1>2, <1>4, <3>2
    <3> QED BY <1>1, <1>4, <2>1, <3>1, <3>3 DEF ChargeGetOk
  <2>2. ~Carries("service")
    BY <2>1 DEF Carries
  <2>3. ServiceLength \in Range(ServiceSizes)
    BY <1>1 DEF Range
  <2>4. ServiceExecutes(ServiceLength) /\ ~gmode
    BY <1>1 DEF ThermalGetOk, Executes
  <2> QED BY <2>2, <2>3, <2>4 DEF AnswersShort
<1> QED BY <1>3, <1>4

\* A service that is passed over carries no battery request, or G-Mode hides it.
LEMMA NoServiceLength ==
  ASSUME PlatformTyped, ServiceLength = 0
  PROVE  ~(Carries("service") /\ ~gmode)
<1>1. \A size \in Range(ServiceSizes) : ~ThermalGetOk(size)
  <2>1. CASE dpm = "answering"
    BY <2>1, ServiceFound DEF ServiceLength, ServiceProbed
  <2>2. CASE dpm # "answering"
    BY <2>2 DEF PlatformTyped, ThermalGetOk, Executes, ServiceExecutes
  <2> QED BY <2>1, <2>2
<1> QED BY <1>1 DEF Carries, ChargeGetOk, ThermalGetOk

\* Initialising the channel leaves one that works, if one does.
LEMMA InitializeWorks ==
  ASSUME PlatformTyped, Initialize
  PROVE  ChannelWorks'
<1>1. UNCHANGED <<dpm, dpmSizes, bfn, bfnSize, query, qdata, gmode>>
  BY DEF Initialize, platform
<1>2. /\ \A n : ThermalGetOk(n)' <=> ThermalGetOk(n)
      /\ \A tr, n : ChargeGetOk(tr, n)' <=> ChargeGetOk(tr, n)
  BY <1>1 DEF ThermalGetOk, ChargeGetOk, Executes, ServiceExecutes
<1>3. /\ \A tr : Carries(tr)' <=> Carries(tr)
      /\ AnswersShort' <=> AnswersShort
  BY <1>1, <1>2 DEF AnswersShort, Carries, ServiceExecutes
<1>4. ASSUME (Carries("service") /\ ~gmode) \/ (Carries("bfn") /\ ~AnswersShort /\ query)
             => valid' /\ ChargeGetOk(transport', length')
      PROVE  ChannelWorks'
  BY <1>1, <1>2, <1>3, <1>4 DEF ChannelWorks
<1>5. CASE ServiceLength # 0 /\ Settle(TRUE, "service", ServiceLength)
  <2>1. valid' = TRUE /\ transport' = "service" /\ length' = ServiceLength
    BY <1>5 DEF Settle
  <2>2. AnswersShort => ~Carries("service")
    BY DEF AnswersShort
  <2> QED BY <1>5, <1>4, <2>1, <2>2, ServiceLengthWorks
<1>6. CASE ServiceLength = 0 /\ bfn # "absent" /\ Settle(TRUE, "bfn", BfnLength)
  <2>1. valid' = TRUE /\ transport' = "bfn" /\ length' = BfnLength
    BY <1>6 DEF Settle
  <2> QED BY <1>6, <1>4, <2>1, NoServiceLength, BfnLengthWorks
<1>7. CASE ServiceLength = 0 /\ bfn = "absent"
  BY <1>7, <1>4, NoServiceLength DEF Carries, ChargeGetOk, Executes
<1> QED BY <1>5, <1>6, <1>7 DEF Initialize, Settle

\* Initialising is the only step of the channel.
LEMMA OnlyStartSettles ==
  ASSUME Next
  PROVE  Starts \/ UNCHANGED <<platform, channel, up>>
BY DEF Next, Poll, Click, ApplyThresholds, Choose, MoveSlider, SetPassive, ExternalMode, hal

LEMMA NextSettled ==
  ASSUME SettledIInv, [Next]_vars
  PROVE  SettledIInv'
<1>1. CASE Starts
  <2>1. Initialize
    BY <1>1 DEF Starts, Start
  <2>2. PlatformTyped'
    BY <2>1 DEF Initialize, platform, PlatformTyped, SettledIInv
  <2> QED BY <2>1, <2>2, InitializeWorks DEF SettledIInv
<1>2. CASE UNCHANGED <<platform, channel, up>>
  BY <1>2 DEF platform, channel, SettledIInv, PlatformTyped, ChannelWorks, Carries,
              AnswersShort, ChargeGetOk, Executes, ServiceExecutes
<1> QED BY <1>1, <1>2, OnlyStartSettles DEF vars

\* Where the service carries charging requests and G-Mode does not hide it, or BFn carries
\* them, its length can be found out and no service with only short buffers hides it, the
\* channel is settled on a transport and a length that charging requests get through with,
\* however either is probed (DellAcpiChannel::initialize).
THEOREM ChannelFound == Spec => []ChannelIsFound
<1>1. SettledIInv => ChannelIsFound
  BY DEF SettledIInv, ChannelIsFound
<1> QED BY <1>1, InitSettled, NextSettled, PTL DEF Spec

-----------------------------------------------------------------------------
\* What a button means.

\* The list the page was built from is the one a click would read now that hears as much;
\* nothing is written before the page is there.
BuiltFrom ==
  IF source = "none" THEN <<>> ELSE Supported(source = "acpi" /\ Readable /\ listHeard)
ListIInv ==
  /\ ~up => wrote = Nothing /\ built = <<>>
  /\ up => built = BuiltFrom

\* What a step may write: the mode of the button, if it hears as much as the page did.
WritesChosen == wrote.heard = listHeard => wrote.key = wrote.chosen

LEMMA InitList == Init => ListIInv
BY DEF Init, ListIInv

LEMMA StartList ==
  ASSUME ListIInv, NEW heard \in [read : BOOLEAN, list : BOOLEAN], Start(heard)
  PROVE  ListIInv' /\ wrote' = Nothing
<1> DEFINE src == IF valid' THEN "acpi" ELSE IF cctk THEN "cctk" ELSE "none"
           readable == Reads(src, transport', length')
<1>1. /\ ~up /\ up' /\ source' = src /\ wrote' = wrote
      /\ built' = IF src = "none" THEN <<>>
                  ELSE ModesOnBuild(readable /\ heard.list /\ src = "acpi")
      /\ UNCHANGED <<dpm, dpmSizes, bfn, bfnSize, gmode, capability, password>>
      /\ listHeard' = heard.list
  BY DEF Start, Initialize, platform, machine
<1>2. wrote' = Nothing
  BY <1>1 DEF ListIInv
<1>3. built' = BuiltFrom'
  <2>1. \A b \in BOOLEAN : ModesOnBuild(b) = Supported(b)
    BY DEF ModesOnBuild
  <2>2. Readable' <=> Reads(src, transport', length')
    BY <1>1 DEF Readable, Reads, ChargeGetOk, Executes, ServiceExecutes
  <2>3. \A b \in BOOLEAN : Supported(b)' = Supported(b)
    BY <1>1 DEF Supported
  <2>4. (readable /\ heard.list /\ src = "acpi") <=> (source = "acpi" /\ Readable /\ listHeard)'
    BY <1>1, <2>2
  <2>5. ModesOnBuild(readable /\ heard.list /\ src = "acpi")
          = Supported(source = "acpi" /\ Readable /\ listHeard)'
    BY <2>1, <2>3, <2>4
  <2> QED BY <1>1, <2>5 DEF BuiltFrom
<1> QED BY <1>1, <1>2, <1>3 DEF ListIInv

\* The list does not change while its inputs do not.
LEMMA SameList ==
  ASSUME ListIInv, UNCHANGED <<platform, channel, up, source, built, machine, listHeard>>,
         up \/ wrote' = Nothing \/ wrote' = wrote
  PROVE  ListIInv'
<1>1. UNCHANGED <<up, source, built, capability, password, listHeard, dpm, dpmSizes, bfn,
                  bfnSize, transport, length>>
  BY DEF platform, channel, machine
<1>2. Readable' <=> Readable
  BY <1>1 DEF Readable, Reads, ChargeGetOk, Executes, ServiceExecutes
<1>3. (source = "acpi" /\ Readable /\ listHeard)' <=> (source = "acpi" /\ Readable /\ listHeard)
  BY <1>1, <1>2
<1>4. BuiltFrom' = BuiltFrom
  BY <1>1, <1>3 DEF BuiltFrom, Supported
<1> QED BY <1>1, <1>4 DEF ListIInv

\* A click that hears as much as the page did writes the mode of the button.
LEMMA ChooseList ==
  ASSUME ListIInv, NEW id \in DOMAIN built, Choose(id)
  PROVE  ListIInv' /\ WritesChosen'
<1>1. PICK heard \in [list : BOOLEAN, write : BOOLEAN, read : BOOLEAN] :
        /\ up /\ OnModeChosen(id, heard)
        /\ UNCHANGED <<platform, channel, up, source, built, machine, listHeard>>
  BY DEF Choose
<1>2. ListIInv'
  BY <1>1, SameList
<1>3. CASE wrote' = Nothing
  BY <1>2, <1>3 DEF WritesChosen, Nothing
<1>4. CASE wrote' = [chosen |-> built[id], key |-> ModesOnClick(heard.list)[id],
                     heard |-> heard.list]
  <2>1. ASSUME heard.list = listHeard
        PROVE  ModesOnClick(heard.list) = built
    <3>1. built = BuiltFrom /\ built # <<>>
      BY <1>1 DEF ListIInv
    <3>2. ModesOnClick(listHeard) = built
      BY <3>1 DEF BuiltFrom, ModesOnClick
    <3> QED BY <2>1, <3>2
  <2> QED BY <1>1, <1>2, <1>4, <2>1 DEF WritesChosen
<1> QED BY <1>1, <1>2, <1>3, <1>4 DEF OnModeChosen

\* Every other step writes nothing and leaves the list and its inputs alone.
LEMMA OtherList ==
  ASSUME ListIInv,
         (\E heard \in BOOLEAN : Poll(heard)) \/ MoveSlider \/ SetPassive \/ ExternalMode
  PROVE  ListIInv' /\ wrote' = Nothing
<1>1. wrote' = Nothing /\ UNCHANGED <<platform, channel, up, source, built, machine, listHeard>>
  BY DEF Poll, MoveSlider, SetPassive, ExternalMode, hal
<1> QED BY <1>1, SameList

LEMMA NextList ==
  ASSUME ListIInv, Next
  PROVE  ListIInv' /\ WritesChosen'
<1>1. CASE Starts
  BY <1>1, StartList DEF Starts, WritesChosen, Nothing
<1>2. CASE \E heard \in BOOLEAN : Poll(heard)
  BY <1>2, OtherList DEF WritesChosen, Nothing
<1>3. CASE Click
  BY <1>3, ChooseList DEF Click
<1>4. CASE ApplyThresholds
  BY <1>4, ChooseList DEF ApplyThresholds
<1>5. CASE MoveSlider \/ SetPassive \/ ExternalMode
  BY <1>5, OtherList DEF WritesChosen, Nothing
<1> QED BY <1>1, <1>2, <1>3, <1>4, <1>5 DEF Next

LEMMA StutterList == ListIInv /\ UNCHANGED vars => ListIInv'
<1> SUFFICES ASSUME ListIInv, UNCHANGED vars PROVE ListIInv'
  OBVIOUS
<1>1. UNCHANGED <<platform, channel, up, source, built, machine, listHeard, wrote>>
  BY DEF vars
<1> QED BY <1>1, SameList

\* The mode written is that of the button clicked, unless just one of the two readings of
\* the list was lost, however long the list is and whatever the firmware reports of it
\* (BatteryPage::onModeChosen, WinChargeHAL::modes).
THEOREM ChosenWritten == Spec => ChosenIsWritten
<1>1. ListIInv /\ [Next]_vars => ListIInv'
  BY NextList, StutterList
<1>2. ListIInv /\ [Next]_vars => [wrote'.heard = listHeard' => wrote'.key = wrote'.chosen]_vars
  BY NextList DEF WritesChosen
<1> QED BY <1>1, <1>2, InitList, PTL DEF Spec, ChosenIsWritten

-----------------------------------------------------------------------------
\* The sliders.

\* The sliders, and what Custom last set the firmware to, always form a pair that
\* setMode accepts.
SlidersValid == ValidThresholds(start, stop)
SlidersIInv ==
  /\ start \in StartMin .. StartMax /\ stop \in StopMin .. StopMax /\ SlidersValid
  /\ \E s, e \in Nat : thresholds = <<s, e>> /\ ValidThresholds(s, e)

\* The slider that is not moved gives way and stays in its range.
LEMMA GapKept ==
  ASSUME SlidersIInv,
         \/ \E s \in StartMin .. StartMax : KeepGap(s, stop, "start")
         \/ \E e \in StopMin .. StopMax : KeepGap(start, e, "stop")
  PROVE  /\ start' \in StartMin .. StartMax /\ stop' \in StopMin .. StopMax
         /\ stop' >= start' + Gap
<1>1. StartMin \in Nat /\ StartMax \in Nat /\ Gap \in Nat
  BY RangeAssumption
<1>2. CASE \E s \in StartMin .. StartMax : KeepGap(s, stop, "start")
  BY <1>1, <1>2 DEF SlidersIInv, SlidersValid, ValidThresholds, KeepGap, StopMin, StopMax
<1>3. CASE \E e \in StopMin .. StopMax : KeepGap(start, e, "stop")
  <2>1. PICK e \in StopMin .. StopMax : KeepGap(start, e, "stop")
    BY <1>3
  <2>2. start' = start /\ stop' = IF e < start + Gap THEN start + Gap ELSE e
    BY <2>1 DEF KeepGap
  <2>3. /\ e \in Nat /\ StartMin + Gap <= e /\ e <= StartMax + Gap
        /\ start \in Nat /\ StartMin <= start /\ start <= StartMax
    BY <1>1, <2>1 DEF SlidersIInv, StopMin, StopMax
  <2>4. stop' \in Nat /\ StartMin + Gap <= stop' /\ stop' <= StartMax + Gap /\ stop' >= start' + Gap
    BY <1>1, <2>2, <2>3
  <2> QED BY <1>1, <2>2, <2>3, <2>4 DEF SlidersIInv, StopMin, StopMax
<1> QED BY <1>2, <1>3

\* Whatever sliders are moved in whatever order, they never rest in a position setMode
\* would refuse, and the firmware is never set to thresholds closer than the gap or out
\* of range (BatteryPage::onCustomRangeChanged, WinChargeHAL::setMode).
THEOREM ThresholdsStayValid == Spec => []SlidersIInv
<1>1. Init => SlidersIInv
  BY RangeAssumption DEF Init, SlidersIInv, SlidersValid, ValidThresholds, StopMin, StopMax
<1>2. ASSUME SlidersIInv, [Next]_vars
      PROVE  SlidersIInv'
  <2>1. \/ MoveSlider
        \/ /\ UNCHANGED sliders
           /\ thresholds' = thresholds \/ thresholds' = sliders
    BY <1>2 DEF Next, Starts, Start, Poll, Click, ApplyThresholds, Choose, OnModeChosen, SetMode,
                SetPassive, ExternalMode, vars
  <2>2. CASE MoveSlider
    <3>1. /\ start' \in StartMin .. StartMax /\ stop' \in StopMin .. StopMax
          /\ stop' >= start' + Gap
      BY <1>2, <2>2, GapKept DEF MoveSlider
    <3>2. thresholds' = thresholds
      BY <2>2 DEF MoveSlider
    <3>3. StartMin \in Nat /\ StartMax \in Nat /\ Gap \in Nat
      BY RangeAssumption
    <3>4. /\ \A n \in StartMin .. StartMax : n >= StartMin /\ n <= StartMax
          /\ \A n \in StopMin .. StopMax : n <= StopMax
      BY <3>3 DEF StopMin, StopMax
    <3>5. SlidersValid'
      BY <3>1, <3>4 DEF SlidersValid, ValidThresholds
    <3> QED BY <1>2, <3>1, <3>2, <3>5 DEF SlidersIInv, ValidThresholds
  <2>3. CASE UNCHANGED sliders /\ (thresholds' = thresholds \/ thresholds' = sliders)
    <3>1. start \in Nat /\ stop \in Nat
      BY <1>2, RangeAssumption DEF SlidersIInv, StopMin, StopMax
    <3> QED BY <1>2, <2>3, <3>1 DEF SlidersIInv, SlidersValid, ValidThresholds, sliders
  <2> QED BY <2>1, <2>2, <2>3
<1> QED BY <1>1, <1>2, PTL DEF Spec
=============================================================================
