------------------------------- MODULE PlanList -------------------------------
(***************************************************************************)
(* The combo box of Windows power plans on the Performance page                *)
(* (ui/pages/PerformancePage.cpp): a `powercfg /list` every 5 s and after each *)
(* selection, one at a time, whose answer is dropped while the popup is open.  *)
(* The answer says what was active when the process read it.                  *)
(***************************************************************************)
EXTENDS Naturals

CONSTANTS Plans, NoPlan

ASSUME PlanAssumption == NoPlan \notin Plans

VARIABLES
  activePlan,  \* Windows
  combo,       \* the plan the combo box shows, NoPlan for none
  popup,       \* its list is open
  refreshing,  \* m_planRefreshBusy
  listing,     \* the list process: "none", "running" before it reads, "failed", or the
               \* plan it read
  selecting    \* the plans setActivePlan is working on

planVars == <<activePlan, combo, popup, refreshing, listing, selecting>>

PlanListInit ==
  /\ activePlan \in Plans /\ combo = NoPlan /\ popup = FALSE
  /\ refreshing = TRUE /\ listing = "running" /\ selecting = {}

\* refreshPowerPlans.
RefreshPowerPlans ==
  IF refreshing \/ popup THEN UNCHANGED <<refreshing, listing>>
  ELSE refreshing' = TRUE /\ listing' = "running"

RefreshTimer == ~refreshing /\ ~popup /\ RefreshPowerPlans
                /\ UNCHANGED <<activePlan, combo, popup, selecting>>

\* powercfg reads the active plan; or it fails, is killed after 10 s, or never starts.
ListReads ==
  /\ listing = "running" /\ listing' \in {activePlan, "failed"}
  /\ UNCHANGED <<activePlan, combo, popup, refreshing, selecting>>
ListSucceeds == ListReads /\ listing' = activePlan

KeepsGate == IF listing = "failed" THEN refreshing ELSE FALSE      \* mutant
GateAfterList == FALSE

\* "Retain the last successful read on errors"; "never replace the popup model while
\* the user navigates it".
ListEnds ==
  /\ listing \in Plans \cup {"failed"}
  /\ combo' = IF listing = "failed" \/ popup THEN combo ELSE listing
  /\ listing' = "none" /\ refreshing' = GateAfterList
  /\ UNCHANGED <<activePlan, popup, selecting>>

OpenPopup == ~popup /\ combo # NoPlan /\ popup' = TRUE
             /\ UNCHANGED <<activePlan, combo, refreshing, listing, selecting>>
ClosePopup == popup /\ popup' = FALSE
              /\ UNCHANGED <<activePlan, combo, refreshing, listing, selecting>>

\* activated, in control: the popup closes and setActivePlan starts.
ChoosePlan(p) ==
  /\ popup /\ popup' = FALSE /\ combo' = p /\ selecting' = selecting \cup {p}
  /\ UNCHANGED <<activePlan, refreshing, listing>>

\* setActivePlan is done, well or not: the list is read again, if it is not being read.
PlanChosen ==
  /\ \E p \in selecting :
       selecting' = selecting \ {p} /\ activePlan' \in {p, activePlan}
  /\ RefreshPowerPlans
  /\ UNCHANGED <<combo, popup>>

SwitchOutside == \E p \in Plans \ {activePlan} : activePlan' = p
                 /\ UNCHANGED <<combo, popup, refreshing, listing, selecting>>

PlanUserStep == OpenPopup \/ SwitchOutside \/ \E p \in Plans : ChoosePlan(p)
PlanProgramStep == RefreshTimer \/ ListReads \/ ListEnds \/ ClosePopup \/ PlanChosen

-----------------------------------------------------------------------------
\* The combo box becomes true, although a list that was read before a selection may
\* be shown after it.
PlanComboTellsTruth == <>[](combo = activePlan)
=============================================================================
