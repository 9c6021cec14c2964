------------------------------ MODULE MCCharging ------------------------------
(***************************************************************************)
(* Charging with three modes, two more that other programs alone can set, and  *)
(* the sizes shortened to one that suits every request, one larger and the     *)
(* last resort of the service, which no battery request fits in.              *)
(***************************************************************************)
EXTENDS Charging

MCServiceSizes == <<128, 256, 64>>
MCBfnSizes == <<256, 128>>
MCAllModes == <<"adaptive", "express", "custom">>

\* Every platform with one machine, and every machine with two platforms: what the
\* page does depends on the platform only through what the channel can do.
OverService == dpm = "answering" /\ dpmSizes = {128} /\ bfn = "absent" /\ ~gmode
NoChannel   == dpm = "absent" /\ bfn = "absent" /\ cctk
Plain == ~cctk /\ password = {} /\ ~passive /\ capability = Listed /\ mode = "express"
MCInit ==
  /\ Init
  /\ Plain \/ (bfnSize = 128 /\ qdata = 0 /\ query /\ (OverService \/ NoChannel))
MCFairSpec ==
  /\ MCInit /\ [][Next]_vars
  /\ WF_vars(Starts) /\ WF_vars(Poll(TRUE))
=============================================================================
