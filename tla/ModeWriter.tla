------------------------------ MODULE ModeWriter ------------------------------
(***************************************************************************)
(* What the mode half of IThermalHAL (hal/HalInterfaces.h) is to a controller,  *)
(* without codes, tables and WMI: a mode is written at once or refused, and     *)
(* Performance is verified afterwards by polls.  "Only the active controller    *)
(* may poll; ... issuing a new request must cancel it."                        *)
(*                                                                          *)
(* A verification has so many polls left and is over when none is.  A poll uses *)
(* up at least one and may write Performance again, but only while Performance  *)
(* is what is asked for; only a new write of it gives polls back.  What others  *)
(* do to the profile, and the firmware by itself, disturbs none of this.        *)
(***************************************************************************)
EXTENDS Naturals

CONSTANTS Modes,         \* ThermalMode
          Performance,   \* the one that is verified
          MaxPolls       \* polls a verification takes at most

VARIABLES asked,     \* the mode the controller wants
          profile,   \* the mode the firmware runs
          left       \* polls the verification may still take, 0 if there is none

vars == <<asked, profile, left>>

Init == asked \in Modes /\ profile \in Modes /\ left = 0

\* setMode succeeded.  A Performance write is accepted before it is retained.
Accepted(m) ==
  /\ profile' \in IF m = Performance THEN {m, profile} ELSE {m}
  /\ left' \in IF m = Performance THEN 1 .. MaxPolls ELSE {0}

\* setMode failed, which ends what was verified before.  The firmware may have done
\* what it did not confirm.
Refused(m) == left' = 0 /\ profile' \in {profile, m}

Cancelled == left' = 0 /\ UNCHANGED profile

PollGoesOn == left > 1 /\ left' \in 1 .. left - 1 /\ profile' \in {profile, Performance}
PollEnds   == left > 0 /\ Refused(Performance)

Write  == (Accepted(asked) \/ Refused(asked)) /\ UNCHANGED asked
Poll   == asked = Performance /\ (PollGoesOn \/ PollEnds) /\ UNCHANGED asked
Retarget == asked' \in Modes /\ UNCHANGED <<profile, left>>
Cancel   == asked' \in Modes /\ Cancelled
Outside  == profile' \in Modes /\ UNCHANGED <<asked, left>>

Next == Write \/ Poll \/ Retarget \/ Cancel \/ Outside

Spec == Init /\ [][Next]_vars
=============================================================================
