---------------------------- MODULE PowerProfiles ----------------------------
(***************************************************************************)
(* "Custom power profiles" of ui/pages/PerformancePage.cpp: named drafts of     *)
(* power limits, their list, the slider that shows and edits the selected one, *)
(* and their persistence.  The buttons act on the selected row; while the list  *)
(* is refilled its signals are blocked, so nothing but refreshProfiles itself   *)
(* moves the slider.                                                          *)
(***************************************************************************)
EXTENDS Naturals, Sequences, SequencesExt

CONSTANTS
  NewNames,   \* names a user types, besides "Profile n"
  Watts,      \* positions of the slider (PL1 and PL2 are treated alike)
  MaxProfiles \* bound on the list

ASSUME ProfileAssumption == Watts \subseteq Nat \ {0} /\ MaxProfiles \in Nat

VARIABLES
  profiles,   \* m_profilesData
  stored,     \* the profiles of the configuration
  row,        \* the selected row, 0 for none
  slider,
  moved       \* history: the user moved the slider since it was last set

profileVars == <<profiles, stored, row, slider, moved>>

Store(list) == profiles' = list /\ stored' = list

\* refreshProfiles: the last profile of that name, else the first.
RowOf(list, name) ==
  LET named == {i \in DOMAIN list : list[i].name = name}
  IN IF named # {} THEN CHOOSE i \in named : \A j \in named : j <= i
     ELSE IF list = <<>> THEN 0 ELSE 1

Loaded(list, r) == IF r = 0 THEN slider ELSE list[r].watts

Refresh(list, name) ==
  /\ row' = RowOf(list, name) /\ slider' = Loaded(list, row')
  /\ moved' = IF row' = 0 THEN moved ELSE FALSE

NoName == 0

ProfilesInit == profiles = <<>> /\ stored = <<>> /\ row = 0 /\ slider \in Watts /\ moved = FALSE

\* The page is built, or configReloaded: the list is read again.
LoadProfiles(saved) == profiles' = saved /\ stored' = saved /\ Refresh(saved, NoName)

-----------------------------------------------------------------------------
\* "Profile n" is the n-th at the time; after a deletion the name may be in use.
NewProfile ==
  /\ Len(profiles) < MaxProfiles
  /\ LET name == Len(profiles) + 1
         list == Append(profiles, [name |-> name, watts |-> slider])
     IN Store(list) /\ Refresh(list, name)

Rename(name) ==
  /\ row # 0
  /\ LET list == [profiles EXCEPT ![row].name = name] IN Store(list) /\ Refresh(list, name)

Delete ==
  /\ row # 0
  /\ LET list == RemoveAt(profiles, row) IN Store(list) /\ Refresh(list, NoName)

\* currentRowChanged.
SelectRow(i) ==
  /\ i # row /\ row' = i /\ slider' = profiles[i].watts /\ moved' = FALSE
  /\ UNCHANGED <<profiles, stored>>

MoveSlider(w) == slider # w /\ slider' = w /\ moved' = TRUE /\ UNCHANGED <<profiles, stored, row>>

SaveProfile ==
  /\ row # 0
  /\ LET list == [profiles EXCEPT ![row].watts = slider]
     IN Store(list) /\ Refresh(list, list[row].name)

ProfilesStep ==
  \/ NewProfile \/ Delete \/ SaveProfile
  \/ \E name \in NewNames : Rename(name)
  \/ \E i \in DOMAIN profiles : SelectRow(i)
  \/ \E w \in Watts : MoveSlider(w)

-----------------------------------------------------------------------------
\* The list is the saved one, a row is selected whenever there is one, and what the
\* slider shows, unless the user has moved it, is the selected profile: saving it
\* without moving changes nothing.
ProfilesShown ==
  /\ profiles = stored /\ (row = 0 <=> profiles = <<>>) /\ row <= Len(profiles)
  /\ row # 0 /\ ~moved => slider = profiles[row].watts
=============================================================================
