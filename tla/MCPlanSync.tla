----------------------------- MODULE MCPlanSync -----------------------------
(***************************************************************************)
(* PlanSync on a small machine: one thermal mode of each kind, Balanced      *)
(* always installed, High performance sometimes, an OEM plan to switch to    *)
(* from outside.  A created scheme is not recognised by name, as under a      *)
(* display language other than English or Chinese, so only m_mintedHighGuid  *)
(* leads back to it.                                                         *)
(***************************************************************************)
EXTENDS PlanSync

CONSTANTS gmode, balanced, high, bal, oem, copy1, copy2

MCHighModes     == {gmode}
MCBalancedModes == {balanced}
MCHighPlans     == {high}
MCBalancedPlans == {bal}
MCOtherPlans    == {oem}
MCCopies        == {copy1, copy2}
MCInitialPlans  == {{bal, oem}, {bal, high}}
=============================================================================
