--------------------------- MODULE LatestRequest ---------------------------
(***************************************************************************)
(* What the thermal-profile -> power-plan chain of the controller promises, *)
(* without powercfg, plans or modes: a mailbox of one request in which the  *)
(* newest request wins.                                                     *)
(*                                                                          *)
(* Every request and every cancellation gets a new generation.  At most one *)
(* request waits and at most one is served.  Serving goes through reads     *)
(* only ("reading") until a command that changes Windows is issued          *)
(* ("duplicate" creates a power scheme, "setactive" switches to one), and   *)
(* such a command is only ever issued for the newest generation: a request  *)
(* that was superseded or cancelled may still be read for, never acted on.  *)
(***************************************************************************)
EXTENDS Naturals

VARIABLES gen,       \* generation of the newest request or cancellation
          waiting,   \* a request waits to be served
          serving,   \* generation of the request being served, 0 if none
          stage      \* how far the served request got

vars == <<gen, waiting, serving, stage>>

Reading  == "reading"
Mutating == {"duplicate", "setactive"}
Stage    == {"idle", Reading} \cup Mutating

Init == gen = 0 /\ waiting = FALSE /\ serving = 0 /\ stage = "idle"

\* A new request; the server may pick it up on the spot when it is idle.
Request ==
  /\ gen' = gen + 1
  /\ \/ waiting' = TRUE /\ UNCHANGED <<serving, stage>>
     \/ /\ serving = 0
        /\ waiting' = FALSE /\ serving' = gen + 1 /\ stage' = Reading

\* Everything requested so far is void; a command already issued is not recalled.
Cancel == gen' = gen + 1 /\ waiting' = FALSE /\ UNCHANGED <<serving, stage>>

Start ==
  /\ waiting /\ serving = 0
  /\ waiting' = FALSE /\ serving' = gen /\ stage' = Reading
  /\ UNCHANGED gen

\* The only step that issues a command that changes Windows.
Mutate ==
  /\ serving # 0 /\ serving = gen
  /\ \E s \in Mutating : s # stage /\ stage' = s
  /\ UNCHANGED <<gen, waiting, serving>>

\* The served request ends, and the waiting one may take over at once.
End ==
  /\ serving # 0
  /\ \/ serving' = 0 /\ stage' = "idle" /\ UNCHANGED waiting
     \/ waiting /\ waiting' = FALSE /\ serving' = gen /\ stage' = Reading
  /\ UNCHANGED gen

Next == Request \/ Cancel \/ Start \/ Mutate \/ End

Spec == Init /\ [][Next]_vars

\* Served or superseded: with this fairness no request waits for ever.
FairSpec == Spec /\ WF_vars(Start \/ End)
=============================================================================
