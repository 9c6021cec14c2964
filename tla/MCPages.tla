------------------------------- MODULE MCPages -------------------------------
(***************************************************************************)
(* Pages with one factory mode, four temperatures and two percentages, minutes *)
(* of two seconds, two slider positions and two plans.                         *)
(***************************************************************************)
EXTENDS Pages

CONSTANTS plan1, plan2

MCDefaultCurve == <<<<0, 0>>, <<1, 0>>, <<3, 1>>>>
MCReference    == <<<<0, 1>>, <<3, 1>>>>

\* A session begins with the default configuration or one that is common.
MCInit ==
  Init /\ sceneSaved = [enabled |-> TRUE, seconds |-> 1] /\ slider = 1 /\ autostart
  /\ activePlan = plan1
MCSpec ==
  /\ MCInit /\ [][Next]_vars
  /\ WF_vars(Program(RefreshTimer)) /\ WF_vars(Program(ListReads))
  /\ SF_vars(Program(ListSucceeds))
  /\ WF_vars(Program(ListEnds)) /\ WF_vars(Program(ClosePopup)) /\ WF_vars(Program(PlanChosen))
=============================================================================
