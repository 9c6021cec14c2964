-------------------------- MODULE MCThermalControl --------------------------
(***************************************************************************)
(* ThermalControl with one mode of each kind the loop treats differently, and *)
(* the counters of the code shortened: the grace window to 2 ticks and the     *)
(* retries to 2.                                                              *)
(***************************************************************************)
EXTENDS ThermalControl

CONSTANT balanced

MCOtherModes == {balanced}
=============================================================================
