------------------------------ MODULE ThermalHal ------------------------------
(***************************************************************************)
(* Writing a thermal mode through hal/win: the WMI call that looks for the    *)
(* instance that answers (WmiConnection.cpp), the profile codes a mode may    *)
(* have on a machine and the latch that remembers which Balanced code works,  *)
(* and the verification of Performance over later ticks (WinThermalHAL.cpp,   *)
(* hal/ModeWriteProbe.h), driven by the mode half of Controller::apply.       *)
(*                                                                          *)
(* ThermalControl sees this layer as the ModeWriter it implements; here       *)
(* are the bytes.  A machine is the set of codes it accepts and the set it    *)
(* retains: an accepted code that is not retained is replaced by the          *)
(* machine's own at most MaxHold half seconds after it was written.           *)
(***************************************************************************)
EXTENDS Naturals, Sequences, FiniteSets, FiniteSetsExt, SequencesExt

CONSTANTS
  Instances,   \* the WMI instances of AWCCWmiMethodFunction
  Live,        \* the one that executes calls
  Requests,    \* the modes asked for
  Home,        \* the code the machine falls back to
  MaxHold,     \* half seconds for which an unretained code may be shown
  MaxEvents    \* bound on lost calls, requests and writes of other programs

\* modeFromProfileCode, for the codes the program writes.
ModeOf == [custom |-> "custom", quiet |-> "quiet", cool |-> "cool", gmode |-> "gmode",
           balanced_ustt |-> "balanced", balanced_legacy |-> "balanced",
           performance_ustt |-> "performance", performance_legacy |-> "performance",
           performance_alt |-> "performance"]
Codes == DOMAIN ModeOf
Modes == {ModeOf[c] : c \in Codes}
PerfCodes == <<"performance_ustt", "performance_legacy", "performance_alt">>
NoMode == "none"

ASSUME MachineAssumption ==
  /\ IsFiniteSet(Instances) /\ Live \in Instances
  /\ Requests \subseteq Modes /\ Home \in Codes /\ ModeOf[Home] \in Requests
ASSUME BoundAssumption == MaxHold \in Nat /\ MaxEvents \in Nat

VARIABLES
  \* WinThermalHAL
  balancedUstt,  \* m_balancedUstt
  candidate,     \* m_perfCandidate + 1, 0 when nothing is being verified
  reads, matches,\* m_perfProbe
  rested,        \* m_perfProbeTimer shows 500 ms
  \* the controller
  target,        \* the mode the policy chain asks for
  lastWritten,   \* m_lastModeWritten
  \* the machine
  accepts, retains, running,
  held,          \* half seconds since running was written
  \* history
  sent,          \* the codes sent in the last step, in order
  verdict,       \* of the last Performance request: "verified", "abandoned" or "none"
  clean,         \* no call was lost and nobody else wrote a profile since that request
  echoed,        \* somebody else wrote the very table that is being verified
  events

probe   == <<candidate, reads, matches, rested, echoed>>
machine == <<accepts, retains>>
vars == <<balancedUstt, probe, target, lastWritten, machine, running, held, sent, verdict,
          clean, events>>

CodesOf(m) == {c \in Codes : ModeOf[c] = m}
Performance == Range(PerfCodes)

TypeOK ==
  /\ balancedUstt \in {"unknown", "yes", "no"}
  /\ candidate \in 0 .. Len(PerfCodes) /\ reads \in 0 .. 2 /\ matches \in 0 .. 1
  /\ rested \in BOOLEAN
  /\ target \in Requests /\ lastWritten \in Requests \cup {NoMode}
  /\ accepts \subseteq Codes /\ retains \subseteq accepts /\ running \in accepts
  /\ held \in 0 .. MaxHold
  /\ sent \in Seq(Codes) /\ verdict \in {"none", "verified", "abandoned"}
  /\ clean \in BOOLEAN /\ echoed \in BOOLEAN /\ events \in 0 .. MaxEvents

\* Only Performance tables are known to be accepted without being retained.
Init ==
  /\ balancedUstt = "unknown" /\ candidate = 0 /\ reads = 0 /\ matches = 0 /\ rested = FALSE
  /\ target \in Requests /\ lastWritten = NoMode
  /\ accepts \in {a \cup {Home} : a \in SUBSET UNION {CodesOf(m) : m \in Requests}}
  /\ retains \in {accepts \ r : r \in SUBSET (Performance \ {Home})}
  /\ running = Home /\ held = 0
  /\ sent = <<>> /\ verdict = "none" /\ clean = TRUE /\ echoed = FALSE /\ events = 0

-----------------------------------------------------------------------------
\* WmiConnection::callInstanceMethod.

Silence == "silence"   \* an instance that fails the call, or answers -1

\* The instances are asked in the order they are enumerated until one answers.
CallInstanceMethod(order, replies) ==
  LET answering == {k \in DOMAIN order : replies[order[k]] # Silence}
  IN IF answering = {} THEN Silence ELSE replies[order[Min(answering)]]

\* The circumstances of one handler: the order of the instances, the code whose call is
\* lost ("read" for a readback), and whether it is only its answer that is lost.
Losses == {{}} \cup {{c} : c \in {"read"} \cup UNION {CodesOf(m) : m \in Requests}}
Circumstances ==
  {c \in [order : SetToSeqs(Instances), lost : Losses, took : BOOLEAN] :
     c.took => c.lost \cap Codes # {}}

Answer(c, code, reply) ==
  CallInstanceMethod(c.order,
    [i \in Instances |-> IF i = Live /\ code \notin c.lost THEN reply ELSE Silence])

\* applyModeByte.
Ok(c, code) == Answer(c, code, IF code \in accepts THEN "0" ELSE "1") = "0"

\* What the machine did, whatever was heard of it.
Took(c, code) == code \in accepts /\ (code \notin c.lost \/ c.took)

-----------------------------------------------------------------------------
\* setMode: the codes it sends, until one is accepted.

WalkFromNext(c, first) ==                                          \* mutant
  LET hits == {i \in first + 1 .. Len(PerfCodes) : Ok(c, PerfCodes[i])}
  IN SubSeq(PerfCodes, first + 1, IF hits = {} THEN Len(PerfCodes) ELSE Min(hits))
\* startPerformanceCandidate: the tables from first on.
Walk(c, first) ==
  LET hits == {i \in first .. Len(PerfCodes) : Ok(c, PerfCodes[i])}
  IN SubSeq(PerfCodes, first, IF hits = {} THEN Len(PerfCodes) ELSE Min(hits))

\* Balanced: the USTT code is tried once and remembered.
BalancedWrites(c) ==
  CASE balancedUstt = "yes" -> <<"balanced_ustt">>
    [] balancedUstt = "no" -> <<"balanced_legacy">>
    [] Ok(c, "balanced_ustt") -> <<"balanced_ustt">>
    [] OTHER -> <<"balanced_ustt", "balanced_legacy">>

Writes(c, mode) ==
  CASE mode = "performance" -> Walk(c, 1)
    [] mode = "balanced" -> BalancedWrites(c)
    [] OTHER -> SetToSeq(CodesOf(mode))

LatchBalanced(c, mode) ==
  balancedUstt' = IF mode = "balanced" /\ balancedUstt = "unknown"
                  THEN IF Ok(c, "balanced_ustt") THEN "yes" ELSE "no"
                  ELSE balancedUstt

\* The last code that took effect is the one in force.
Send(c, codes) ==
  LET effective == {i \in DOMAIN codes : Took(c, codes[i])}
  IN /\ sent' = codes
     /\ \/ effective = {} /\ UNCHANGED <<running, held>>
        \/ \E i \in effective : /\ \A j \in effective : j <= i
                                /\ running' = codes[i] /\ held' = 0

Restart(first) ==
  reads' = 0 /\ matches' = 0 /\ rested' = FALSE /\ echoed' = FALSE /\ candidate' = first
CancelPendingModeWrite == Restart(0)
TableOf(code) == CHOOSE i \in DOMAIN PerfCodes : PerfCodes[i] = code

SetMode(c, mode) ==
  \E codes \in {Writes(c, mode)} : \E ok \in {Ok(c, Last(codes))} :
     /\ Send(c, codes)
     /\ LatchBalanced(c, mode)
     /\ Restart(IF mode = "performance" /\ ok THEN TableOf(Last(codes)) ELSE 0)
     /\ lastWritten' = IF ok THEN mode ELSE lastWritten
     /\ IF mode = "performance"
        THEN verdict' = (IF ok THEN "none" ELSE "abandoned") /\ clean' = (c.lost = {})
        ELSE UNCHANGED <<verdict, clean>>

-----------------------------------------------------------------------------
\* pollPendingModeWrite and ModeWriteProbe::observe.

NextCandidateAgain(c) == Walk(c, candidate)                        \* mutant
NextCandidate(c) == Walk(c, candidate + 1)

OneReadRetains(n) == n >= 1                                        \* mutant
Retained(n) == n >= 2

PollPendingModeWrite(c) ==
  LET match == running = PerfCodes[candidate] /\ Answer(c, "read", "code") # Silence
      n == IF match THEN matches + 1 ELSE 0
  IN \/ /\ Retained(n)
        /\ CancelPendingModeWrite
        /\ verdict' = "verified" /\ sent' = <<>> /\ UNCHANGED <<running, held>>
     \/ /\ ~Retained(n) /\ reads + 1 >= 3
        /\ \E codes \in {NextCandidate(c)} :
           \E ok \in {codes # <<>> /\ Ok(c, Last(codes))} :
              /\ Send(c, codes)
              /\ Restart(IF ok THEN TableOf(Last(codes)) ELSE 0)
              /\ verdict' = IF ok THEN "none" ELSE "abandoned"
     \/ /\ ~Retained(n) /\ reads + 1 < 3
        /\ reads' = reads + 1 /\ matches' = n /\ rested' = FALSE
        /\ sent' = <<>> /\ UNCHANGED <<candidate, echoed, running, held, verdict>>

-----------------------------------------------------------------------------
\* Controller::apply, its mode half.

Disturb == events < MaxEvents /\ events' = events + 1
\* One of the calls the handler can make may be lost.
Losing(c, calls) == c.lost \subseteq calls /\ IF c.lost = {} THEN UNCHANGED events ELSE Disturb

PollWhateverTheTarget == candidate # 0 /\ rested                   \* mutant
\* "A superseded Performance request must not write another candidate."
PollDue == target = "performance" /\ lastWritten = target /\ candidate # 0 /\ rested

PollTick(c) ==
  /\ PollDue /\ Losing(c, {"read"} \cup Performance)
  /\ PollPendingModeWrite(c)
  /\ clean' = (clean /\ c.lost = {})
  /\ UNCHANGED <<balancedUstt, target, lastWritten, machine>>

WriteTick(c) ==
  /\ target # lastWritten /\ Losing(c, CodesOf(target))
  /\ SetMode(c, target)
  /\ UNCHANGED <<target, machine>>

\* Nothing is due.
IdleTick ==
  /\ ~PollDue /\ target = lastWritten /\ sent' = <<>>
  /\ UNCHANGED <<balancedUstt, probe, target, lastWritten, machine, running, held, verdict,
                 clean, events>>

Tick == IdleTick \/ \E c \in Circumstances : PollTick(c) \/ WriteTick(c)

\* The policy chain asks for another mode: a scene begins or ends.
Retarget(m) ==
  /\ Disturb /\ target # m /\ target' = m /\ sent' = <<>>
  /\ UNCHANGED <<balancedUstt, probe, lastWritten, machine, running, held, verdict, clean>>

\* The user selects a mode: forceNextModeWrite cancels and forgets the last write.
Select(m) ==
  /\ Disturb /\ target' = m /\ lastWritten' = NoMode /\ sent' = <<>>
  /\ CancelPendingModeWrite
  /\ UNCHANGED <<balancedUstt, machine, running, held, verdict, clean>>

\* adoptExternalProfile, when no write is being verified (ThermalControl).
Adopt ==
  /\ candidate = 0 /\ ModeOf[running] \in Requests
  /\ lastWritten # NoMode /\ ModeOf[running] # target
  /\ target' = ModeOf[running] /\ lastWritten' = target' /\ sent' = <<>>
  /\ UNCHANGED <<balancedUstt, probe, machine, running, held, verdict, clean, events>>

\* Another program, or a key of the keyboard, writes a profile.
Foreign(code) ==
  /\ Disturb /\ code \in accepts
  /\ running' = code /\ held' = 0 /\ clean' = FALSE
  /\ echoed' = (echoed \/ (candidate # 0 /\ code = PerfCodes[candidate]))
  /\ sent' = <<>>
  /\ UNCHANGED <<balancedUstt, candidate, reads, matches, rested, target, lastWritten,
                 machine, verdict>>

\* Half a second passes: the probe's timer expires, and the machine may replace a
\* code it does not retain, at the latest after MaxHold.
HalfSecond ==
  /\ (candidate # 0 /\ ~rested) \/ running \notin retains
  /\ rested' = (candidate # 0)
  /\ \/ running \in retains /\ UNCHANGED <<running, held>>
     \/ running \notin retains /\ running' = Home /\ held' = 0
     \/ running \notin retains /\ held < MaxHold /\ held' = held + 1 /\ UNCHANGED running
  /\ sent' = <<>>
  /\ UNCHANGED <<balancedUstt, candidate, reads, matches, echoed, target, lastWritten,
                 machine, verdict, clean, events>>

Next ==
  \/ Tick
  \/ \E m \in Requests : Retarget(m) \/ Select(m)
  \/ Adopt
  \/ \E code \in Codes : Foreign(code)
  \/ HalfSecond

Spec == Init /\ [][Next]_vars

\* The 1 Hz timer fires for ever, and time passes.
FairSpec == Spec /\ WF_vars(Tick) /\ WF_vars(HalfSecond)

-----------------------------------------------------------------------------
\* Properties.

\* "Accepted is not retained": the verification ends in favour of a table only if
\* the machine keeps it, however long it takes to drop the others, whichever readbacks
\* are lost and whatever other programs write meanwhile, unless it is that very table:
\* nothing in the readback tells their write from the controller's.
VerifiedIsRetained ==
  [][verdict # "verified" /\ verdict' = "verified" => running \in retains \/ echoed]_vars

\* A request that gives up has tried every table: if no call was lost, and no other
\* program wrote a profile, the machine retains none of them.
NoTableIsSkipped == verdict = "abandoned" /\ clean => retains \cap Performance = {}

\* A byte is only ever sent for the mode that is asked for now: a verification that a
\* scene or the user has superseded writes no further table, and no retry of one
\* mode writes another's code.
SupersededStaysSilent == [][\A i \in DOMAIN sent' : ModeOf[sent'[i]] = target]_vars

\* The polls a verification may still take: three of each table that is left.
PollsLeft ==
  IF candidate = 0 THEN 0 ELSE 3 * (Len(PerfCodes) - candidate) + (3 - reads)

\* The interface that the controller sees: at most nine polls of a verification, each
\* bringing its end nearer, and none that writes for a mode no longer asked for.
Writer == INSTANCE ModeWriter WITH
            Performance <- "performance", MaxPolls <- 3 * Len(PerfCodes),
            asked <- target, profile <- ModeOf[running], left <- PollsLeft
KeepsWriterPromise == Writer!Spec

\* A verification ends, retained or given up, although polls may fail: while it
\* lasts no external profile is adopted (hasPendingModeWrite).
VerificationEnds == candidate # 0 ~> candidate = 0
=============================================================================
