------------------------------- MODULE Charging -------------------------------
(***************************************************************************)
(* Charging modes: hal/win/WinChargeHAL.cpp on top of the DA channel or of     *)
(* cctk, the radio buttons and threshold sliders of ui/pages/BatteryPage.cpp,  *)
(* and the poll of core/Controller.cpp that is to notice what other programs   *)
(* change.  Radio buttons are numbered when the page is built; a click looks   *)
(* the number up in a list that is read again.                               *)
(***************************************************************************)
EXTENDS DaChannel, FiniteSets

CONSTANTS
  AllModes,    \* the modes of WinChargeHAL::modes, in order, with "custom"
  Unlisted,    \* modes only other programs set (long life, advanced, ...)
  Unmapped,    \* those of them whose byte acpiModeToKey does not know
  StartMin, StartMax, Gap,   \* thresholds: 50 to 95, and 5 apart
  MaxEvents    \* bound on disturbances

ASSUME ModeAssumption ==
  /\ AllModes \in Seq(Range(AllModes)) /\ "custom" \in Range(AllModes)
  /\ Unmapped \subseteq Unlisted /\ Unlisted \cap Range(AllModes) = {}
  /\ "none" \notin Unlisted \cup Range(AllModes)
ASSUME RangeAssumption ==
  /\ StartMin \in Nat \ {0} /\ StartMax \in Nat /\ StartMin <= StartMax /\ Gap \in Nat \ {0}
  /\ MaxEvents \in Nat

VARIABLES
  up,          \* the program has started
  source,      \* m_source
  cctkUsable,  \* m_cctkUsable
  passive,     \* m_passive of the controller
  charging,    \* m_chargingMode
  built,       \* the keys of the radio buttons, in order; <<>> without the card
  checked,     \* the checked one
  start, stop, \* the sliders
  \* the machine
  cctk, password,     \* Command Configure is installed; its calls a BIOS password blocks
  capability,         \* the modes the firmware reports as supported
  mode, thresholds,   \* what the firmware is set to
  \* history
  listHeard,   \* the list of modes was heard when the page was built
  wrote,       \* the last step wrote: the button chosen and the key written, and whether
               \* the list of modes was heard then
  events

machine == <<cctk, password, capability>>
sliders == <<start, stop>>
hal     == <<channel, source, cctkUsable>>
vars == <<platform, channel, up, source, cctkUsable, passive, charging, built, checked, sliders,
          machine, mode, thresholds, listHeard, wrote, events>>

NoKey == "none"
Nothing == [chosen |-> NoKey, key |-> NoKey, heard |-> TRUE]
Listed == Range(AllModes)
Keys == Listed \cup Unlisted
StopMin == StartMin + Gap
StopMax == StartMax + Gap

Init ==
  /\ ChannelInit
  /\ up = FALSE /\ source = "none" /\ cctkUsable = TRUE /\ passive \in BOOLEAN
  /\ charging = NoKey /\ built = <<>> /\ checked = NoKey
  /\ start = StartMin /\ stop = StopMin
  /\ cctk \in BOOLEAN /\ password \in SUBSET {"read", "write"}
  /\ capability \in SUBSET Listed
  /\ mode \in capability \cup Unlisted \cup {AllModes[1]} /\ thresholds = <<StartMin, StopMin>>
  /\ listHeard = TRUE /\ wrote = Nothing /\ events = 0

Disturb == events < MaxEvents /\ events' = events + 1

-----------------------------------------------------------------------------
\* WinChargeHAL.  heard: the call is not lost.

Reads(src, tr, size) ==
  (src = "cctk" /\ "read" \notin password) \/ (src = "acpi" /\ ChargeGetOk(tr, size))
Readable == Reads(source, transport, length)

\* The mode as it is named here; over the channel only known bytes have a name.
Named(src, m) == src = "cctk" \/ m \notin Unmapped
CurrentMode(heard) == IF Readable /\ heard /\ Named(source, mode) THEN mode ELSE NoKey

KeepOnly(modes, kept) == SelectSeq(modes, LAMBDA k : k \in kept)

\* modes: those the firmware reports, or all when it cannot be asked or reports none.
Supported(readable) ==
  LET filtered == KeepOnly(AllModes, capability)
  IN IF readable /\ filtered # <<>> THEN filtered ELSE AllModes

UnfilteredOnBuild(readable) == AllModes                            \* mutant
ModesOnBuild(readable) == Supported(readable)
ModesOnClick(heard) == Supported(source = "acpi" /\ Readable /\ heard)

ValidThresholds(s, e) == s >= StartMin /\ s <= StartMax /\ e <= StopMax /\ e >= s + Gap

\* setMode: the write is valid and the backend would carry it out.
Accepts(key) ==
  /\ key = "custom" => ValidThresholds(start, stop)
  /\ \/ source = "acpi" /\ Executes(transport, length) /\ key \in capability
     \/ source = "cctk" /\ "write" \notin password

\* A write whose answer is not heard may have been carried out all the same.
SetMode(key, heard) ==
  /\ \/ /\ Accepts(key)
        /\ mode' = key /\ thresholds' = IF key = "custom" THEN sliders ELSE thresholds
     \/ ~(Accepts(key) /\ heard) /\ UNCHANGED <<mode, thresholds>>
  /\ cctkUsable' = (cctkUsable /\ ~(source = "cctk" /\ "write" \in password /\ heard))

-----------------------------------------------------------------------------
\* BatteryPage.

\* The checked button of an exclusive group cannot be unchecked, only replaced.
Check(key, before) == IF key \in Range(built) THEN key ELSE before

\* The program starts: the channel, the backend, and the page with its card if the
\* backend is available.  The mode and the list are two reads, either of which may be lost.
Start(heard) ==
  LET src == IF valid' THEN "acpi" ELSE IF cctk THEN "cctk" ELSE "none"
      readable == Reads(src, transport', length')
  IN /\ ~up /\ up' = TRUE
     /\ Initialize
     /\ source' = src
     /\ built' = IF src = "none" THEN <<>>
                 ELSE ModesOnBuild(readable /\ heard.list /\ src = "acpi")
     /\ checked' = IF readable /\ heard.read /\ mode \in Range(built') THEN mode ELSE NoKey
     /\ listHeard' = heard.list
     /\ IF heard.read /\ heard.list THEN UNCHANGED events ELSE Disturb
     /\ UNCHANGED <<cctkUsable, passive, charging, sliders, machine, mode, thresholds, wrote>>

Starts == \E heard \in [read : BOOLEAN, list : BOOLEAN] : Start(heard)

\* onModeChosen, with the button of this number now checked: its mode in the list as
\* read now.  heard: whether the list, the write and the readback are.
OnModeChosen(id, heard) ==
  LET list == ModesOnClick(heard.list)
      refused == passive \/ ~Accepts(list[id]) \/ ~heard.write
  IN IF id > Len(list)
     THEN /\ checked' = built[id] /\ wrote' = Nothing
          /\ UNCHANGED <<mode, thresholds, cctkUsable>>
     ELSE /\ IF passive THEN wrote' = Nothing /\ UNCHANGED <<mode, thresholds, cctkUsable>>
             ELSE /\ SetMode(list[id], heard.write)
                  /\ wrote' = [chosen |-> built[id], key |-> list[id], heard |-> heard.list]
          /\ checked' = IF ~refused THEN built[id]
                        ELSE Check(IF Readable /\ heard.read THEN mode' ELSE NoKey, built[id])

Choose(id) ==
  \E heard \in [list : BOOLEAN, write : BOOLEAN, read : BOOLEAN] :
    /\ up /\ Disturb
    /\ OnModeChosen(id, heard)
    /\ UNCHANGED <<platform, channel, up, source, passive, charging, built, sliders, machine,
                   listHeard>>

Click == \E id \in DOMAIN built : Choose(id)
\* "Apply thresholds", shown while Custom is checked.
ApplyThresholds == \E id \in DOMAIN built : built[id] = "custom" /\ checked = "custom" /\ Choose(id)

\* onCustomRangeChanged: the slider that is moved gives way.
KeepGap(s, e, moved) ==
  /\ start' = IF moved = "start" /\ e < s + Gap THEN e - Gap ELSE s
  /\ stop' = IF moved = "stop" /\ e < s + Gap THEN s + Gap ELSE e

MoveSlider ==
  /\ "custom" \in Range(built) /\ Disturb
  /\ \/ \E s \in StartMin .. StartMax : KeepGap(s, stop, "start")
     \/ \E e \in StopMin .. StopMax : KeepGap(start, e, "stop")
  /\ wrote' = Nothing
  /\ UNCHANGED <<platform, hal, up, passive, charging, built, checked, machine, mode, thresholds,
                 listHeard>>

-----------------------------------------------------------------------------
\* Controller.

SeedOnly(key) == charging = NoKey                                  \* mutant
Differs(key) == key # charging

\* Every third tick: the first mode read only seeds, later ones are signalled to the
\* page and the tray.
Poll(heard) ==
  LET key == CurrentMode(heard)
  IN /\ up
     /\ IF heard THEN UNCHANGED events ELSE Disturb
     /\ IF key # NoKey /\ Differs(key)
        THEN /\ charging' = key
             /\ checked' = IF charging = NoKey THEN checked ELSE Check(key, checked)
        ELSE UNCHANGED <<charging, checked>>
     /\ wrote' = Nothing
     /\ UNCHANGED <<platform, hal, up, passive, built, sliders, machine, mode, thresholds,
                    listHeard>>

SetPassive ==
  /\ up /\ Disturb /\ passive' = ~passive /\ wrote' = Nothing
  /\ UNCHANGED <<platform, hal, up, charging, built, checked, sliders, machine, mode, thresholds,
                 listHeard>>

\* Dell Power Manager, or the BIOS, sets another mode.
ExternalMode ==
  /\ Disturb /\ mode' \in (capability \cup Unlisted) \ {mode} /\ wrote' = Nothing
  /\ UNCHANGED <<platform, hal, up, passive, charging, built, checked, sliders, machine,
                 thresholds, listHeard>>

Next ==
  \/ Starts \/ \E heard \in BOOLEAN : Poll(heard)
  \/ Click \/ ApplyThresholds \/ MoveSlider
  \/ SetPassive \/ ExternalMode

Spec == Init /\ [][Next]_vars

\* The program starts and its timer fires; calls are not lost for ever (MaxEvents).
FairSpec == Spec /\ WF_vars(Starts) /\ WF_vars(Poll(TRUE))

-----------------------------------------------------------------------------
\* Properties.

TypeOK ==
  /\ up \in BOOLEAN /\ source \in {"acpi", "cctk", "none"} /\ cctkUsable \in BOOLEAN
  /\ valid \in BOOLEAN /\ transport \in {"none", "service", "bfn"} /\ length \in Nat
  /\ passive \in BOOLEAN /\ charging \in Keys \cup {NoKey}
  /\ Range(built) \subseteq Listed /\ checked \in Range(built) \cup {NoKey}
  /\ start \in StartMin .. StartMax /\ stop \in StopMin .. StopMax
  /\ capability \subseteq Listed /\ mode \in Keys
  /\ listHeard \in BOOLEAN
  /\ wrote \in [chosen : Keys \cup {NoKey}, key : Keys \cup {NoKey}, heard : BOOLEAN]

ChannelIsFound == up => ChannelWorks

\* The firmware is set to the mode of the button that was clicked, whatever else is lost,
\* refused or changed: the number of a button means the same mode in the list read when
\* the page was built and in the one read at the click, unless just one of these two
\* readings was lost.
ChosenIsWritten == [][wrote'.heard = listHeard' => wrote'.key = wrote'.chosen]_vars

\* What the Dashboard shows as charging mode becomes what the firmware is set to,
\* whoever set it, provided the firmware can be asked and its answer has a name.
ChargingConverges == <>[](Readable /\ Named(source, mode) => charging = mode)
=============================================================================
