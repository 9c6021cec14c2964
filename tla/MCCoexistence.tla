--------------------------- MODULE MCCoexistence ---------------------------
(***************************************************************************)
(* Coexistence with Balanced, G-Mode and Custom in the tray, Performance only  *)
(* on the page, two ticks between checks, an adoption after two readings and   *)
(* no grace for readings beyond one tick.  A session begins with Balanced saved *)
(* and G-Mode in the firmware, and without "Take control".                     *)
(***************************************************************************)
EXTENDS Coexistence

CONSTANT balanced

MCOtherModes == {balanced}
MCTrayModes  == {balanced, Custom, GMode}

MCInit ==
  /\ CInit
  /\ baseline = balanced /\ firmware = GMode /\ ~force /\ coexist /\ ~awcc
MCFairSpec ==
  MCInit /\ [][CNext]_cvars /\ WF_cvars(Start) /\ WF_cvars(Watch) /\ WF_cvars(TickOnce)
=============================================================================
