------------------------------- MODULE DaChannel -------------------------------
(***************************************************************************)
(* The Dell "DA" channel to the firmware (hal/win/DellAcpiChannel.cpp): which *)
(* transport it settles on when it is initialised, and which requests get      *)
(* through afterwards.  The service of Dell Power Manager (DpmServiceClient)   *)
(* is probed first, with a thermal request of every usual buffer size; then    *)
(* the BFn class of WMI, whose buffer length comes from a descriptor or from   *)
(* probing with a battery request.  The choice is made once and never revised. *)
(***************************************************************************)
EXTENDS Naturals, Sequences, SequencesExt

CONSTANTS
  ServiceSizes,   \* buffer sizes tried over the service, in order
  BfnSizes,       \* buffer sizes tried over BFn, in order
  DefaultSize,    \* the buffer length of a fresh channel (128)
  MinSize,        \* the shortest DA buffer (44)
  GetSize         \* what a battery request with its template needs (80)

ASSUME SizeAssumption ==
  /\ ServiceSizes \in Seq(Nat) \ {<<>>} /\ BfnSizes \in Seq(Nat) \ {<<>>}
  /\ MinSize \in Nat \ {0} /\ GetSize \in Nat /\ MinSize <= GetSize /\ DefaultSize \in Nat
  \* All sizes suit a battery request but the last resort of the service.
  /\ \A i \in DOMAIN ServiceSizes :
       ServiceSizes[i] >= IF i = Len(ServiceSizes) THEN MinSize ELSE GetSize
  /\ \A i \in DOMAIN BfnSizes : BfnSizes[i] >= GetSize

VARIABLES
  \* the machine
  dpm,        \* the service is "absent", "rejecting" every call ("size-independent"), or
              \* "answering"
  dpmSizes,   \* the buffer sizes it accepts
  bfn,        \* WMI exposes no BFn instance ("absent"), only those of other firmware
              \* tables ("sibling"), or the one that is wanted ("present")
  bfnSize,    \* the buffer length the firmware registered
  query,      \* the WMI_Query class can be enumerated
  qdata,      \* the length the WMI_Query descriptor states, 0 if there is none
  gmode,      \* G-Mode is active while the channel is initialised
  \* the channel
  valid, transport, length   \* m_valid, m_transport, m_bufferLength

platform == <<dpm, dpmSizes, bfn, bfnSize, query, qdata, gmode>>
channel  == <<valid, transport, length>>

ChannelInit ==
  /\ dpm \in {"absent", "rejecting", "answering"}
  /\ dpmSizes \in SUBSET Range(ServiceSizes) /\ (dpm # "answering" => dpmSizes = {})
  /\ bfn \in {"absent", "sibling", "present"} /\ bfnSize \in Range(ServiceSizes \o BfnSizes)
  /\ qdata \in {0, MinSize - 1, bfnSize}
  /\ query \in BOOLEAN /\ gmode \in BOOLEAN
  /\ valid = FALSE /\ transport = "none" /\ length = DefaultSize

-----------------------------------------------------------------------------
\* DpmServiceClient: the service and its method are there; a call comes back with a
\* buffer of the length sent.
ServicePresent == dpm # "absent"
ServiceExecutes(size) == size \in dpmSizes

\* execute: over the service the length must be one it accepts; over BFn a wrong
\* length yields an error code of the firmware, and only the instance of that exact name
\* is asked.
Executes(tr, size) ==
  IF tr = "service" THEN ServiceExecutes(size) ELSE bfn = "present" /\ size = bfnSize

\* getUsttModes without error: the firmware refuses it in G-Mode.
ThermalGetOk(size) == Executes("service", size) /\ ~gmode

\* getChargeState without error, over a given transport; a buffer too short for the
\* template is refused.
ChargeGetOk(tr, size) == size >= GetSize /\ Executes(tr, size)

\* The first of the sizes that works, 0 if none does.
FirstWorking(sizes, working) ==
  LET i == SelectInSeq(sizes, LAMBDA size : size \in working)
  IN IF i = 0 THEN 0 ELSE sizes[i]

\* A rejected call ends the probing at once; an absent service is not probed.
ServiceLength ==
  IF dpm = "answering"
  THEN FirstWorking(ServiceSizes, {size \in Range(ServiceSizes) : ThermalGetOk(size)}) ELSE 0

BfnProbesThermal(size) == Executes("bfn", size) /\ ~gmode          \* mutant
\* "Battery, not thermal: the thermal GET reports an error while G-Mode is active."
BfnProbes(size) == ChargeGetOk("bfn", size)

\* The descriptor is authoritative if it is usable; the last size tried remains.  Where
\* descriptors cannot be enumerated nothing is probed.
BfnLength ==
  LET probed == FirstWorking(BfnSizes, {size \in Range(BfnSizes) : BfnProbes(size)})
  IN IF ~query THEN DefaultSize
     ELSE IF qdata >= MinSize THEN qdata
     ELSE IF probed # 0 THEN probed ELSE Last(BfnSizes)

Settle(ok, tr, size) == valid' = ok /\ transport' = tr /\ length' = size

Initialize ==
  /\ \/ ServiceLength # 0 /\ Settle(TRUE, "service", ServiceLength)
     \/ ServiceLength = 0 /\ bfn # "absent" /\ Settle(TRUE, "bfn", BfnLength)
     \/ /\ ServiceLength = 0 /\ bfn = "absent"
        /\ Settle(FALSE, IF ServicePresent THEN "service" ELSE "none",
                  IF dpm = "answering" THEN Last(ServiceSizes)
                  ELSE IF dpm = "rejecting" THEN Head(ServiceSizes) ELSE length)
  /\ UNCHANGED platform

-----------------------------------------------------------------------------
\* A transport carries charging requests if they get through in some buffer that is
\* described or tried, however the probing of it goes.
Carries(tr) ==
  \E size \in IF tr = "service" THEN Range(ServiceSizes) ELSE {qdata} \cup Range(BfnSizes) :
    ChargeGetOk(tr, size)

\* The service answers a thermal request, though in no buffer a battery request fits in.
AnswersShort ==
  ~gmode /\ ~Carries("service") /\ \E size \in Range(ServiceSizes) : ServiceExecutes(size)

\* If either transport carries charging requests, the channel does, with the length it
\* settled on.  What the code falls short of is named here: G-Mode hides a service that
\* would do, a service that answers only short buffers hides BFn, and without a list of
\* WMI_Query the length of BFn is neither read nor probed.
ChannelWorks ==
  (Carries("service") /\ ~gmode) \/ (Carries("bfn") /\ ~AnswersShort /\ query)
    => valid /\ ChargeGetOk(transport, length)
=============================================================================
