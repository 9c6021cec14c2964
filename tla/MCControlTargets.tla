-------------------------- MODULE MCControlTargets --------------------------
(***************************************************************************)
(* ControlTargets with the thresholds of the code and debounces of 2 and 3   *)
(* ticks, settings with the thresholds in the wrong order (the page does not  *)
(* prevent them), the default curve and one that falls and is steep.          *)
(***************************************************************************)
EXTENDS ControlTargets

MCSettings == {[enter |-> 60, exit |-> 55, enterTicks |-> 2, exitTicks |-> 3],
               [enter |-> 40, exit |-> 60, enterTicks |-> 3, exitTicks |-> 2]}

MCCurves == {[t \in {40, 60, 75, 85, 95} |->
                CASE t = 40 -> 30 [] t = 60 -> 45 [] t = 75 -> 65 [] t = 85 -> 85 [] t = 95 -> 100],
             [t \in {40, 47, 61} |-> CASE t = 40 -> 50 [] t = 47 -> 20 [] t = 61 -> 100]}
=============================================================================
