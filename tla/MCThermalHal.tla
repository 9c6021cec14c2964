---------------------------- MODULE MCThermalHal ----------------------------
(***************************************************************************)
(* ThermalHal with two WMI instances, one of them dead, the three modes that  *)
(* are written differently, and a machine that falls back to Quiet.           *)
(***************************************************************************)
EXTENDS ThermalHal

CONSTANTS dead, alive

MCRequests == {"performance", "balanced", "quiet"}
=============================================================================
