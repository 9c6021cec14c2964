--------------------------- MODULE ThermalHalProofs ---------------------------
(***************************************************************************)
(* Proofs about ThermalHal, for every set of WMI instances, every machine and  *)
(* any number of requests and lost calls.                                     *)
(*                                                                          *)
(* A call reaches the instance that executes it wherever it is enumerated      *)
(* (AnswerHeard), so a write that is not lost is refused by the machine only.   *)
(* The two properties of the verification rest on what a read has shown so      *)
(* far: a table the machine does not retain has been held for as long as the    *)
(* verification lasts, unless somebody else wrote it again (HeldAsLong), and one that it retains has matched every   *)
(* read (KeptIsSeen).                                                         *)
(***************************************************************************)
EXTENDS ThermalHal, FiniteSetTheorems, SequenceTheorems, WellFoundedInduction, TLAPS

\* Half seconds since the table that is being verified was written.
Waited == reads + (IF rested THEN 1 ELSE 0)

HeldAsLong ==
  /\ candidate # 0 /\ running = PerfCodes[candidate]
  /\ running \notin retains /\ ~echoed
  => held >= Waited

KeptIsSeen ==
  clean /\ candidate # 0 /\ PerfCodes[candidate] \in retains =>
    running = PerfCodes[candidate] /\ matches = reads

TriedBefore ==
  clean /\ candidate # 0 => \A i \in 1 .. candidate - 1 : PerfCodes[i] \notin retains

IInv ==
  /\ TypeOK /\ Home \in retains /\ matches <= reads
  /\ HeldAsLong /\ KeptIsSeen /\ TriedBefore /\ NoTableIsSkipped

-----------------------------------------------------------------------------
\* Codes.

LEMMA CodesAre ==
  /\ Codes = {"custom", "quiet", "cool", "gmode", "balanced_ustt", "balanced_legacy",
              "performance_ustt", "performance_legacy", "performance_alt"}
  /\ PerfCodes \in Seq(Codes) /\ Len(PerfCodes) = 3 /\ DOMAIN PerfCodes = 1 .. 3
  /\ \A i \in 1 .. 3 : PerfCodes[i] \in Codes /\ ModeOf[PerfCodes[i]] = "performance"
  /\ Performance = {PerfCodes[i] : i \in 1 .. 3}
BY DEF Codes, ModeOf, PerfCodes, Performance, Range

LEMMA TableOfIs ==
  ASSUME NEW i \in 1 .. 3
  PROVE  TableOf(PerfCodes[i]) = i
<1>1. \A j \in 1 .. 3 : PerfCodes[j] = PerfCodes[i] => j = i
  BY DEF PerfCodes
<1>2. DOMAIN PerfCodes = 1 .. 3
  BY CodesAre
<1> QED BY <1>1, <1>2 DEF TableOf

LEMMA Smallest ==
  ASSUME NEW S \in SUBSET Nat, S # {}
  PROVE  Min(S) \in S /\ \A y \in S : Min(S) <= y
<1>1. \E x \in S : \A y \in S : ~ (<<y, x>> \in OpToRel(<, Nat))
  BY NatLessThanWellFounded, WFMin
<1>2. PICK x \in S : \A y \in S : ~ (<<y, x>> \in OpToRel(<, Nat))
  BY <1>1
<1>3. \A y \in S : ~(y < x)
  BY <1>2 DEF OpToRel
<1>4. \A y \in S : x <= y
  BY <1>3
<1> QED BY <1>4 DEF Min

-----------------------------------------------------------------------------
\* WmiConnection::callInstanceMethod.

\* An order of the instances names each of them.
LEMMA OrderNamesAll ==
  ASSUME NEW order \in SetToSeqs(Instances)
  PROVE  /\ DOMAIN order \subseteq Nat /\ order \in [DOMAIN order -> Instances]
         /\ \E k \in DOMAIN order : order[k] = Live
<1> DEFINE n == Cardinality(Instances)
<1>1. IsFiniteSet(Instances) /\ n \in Nat
  BY MachineAssumption, FS_CardinalityType
<1>2. order \in [1 .. n -> Instances] /\ \A i, j \in 1 .. n : i # j => order[i] # order[j]
  BY DEF SetToSeqs
<1>3. order \in Injection(1 .. n, Instances)
  BY <1>2 DEF Injection, IsInjective
<1>4. Cardinality(1 .. n) = n
  BY <1>1, FS_Interval
<1>5. order \in Surjection(1 .. n, Instances)
  BY <1>1, <1>3, <1>4, FS_Injection
<1>6. \E k \in 1 .. n : order[k] = Live
  BY <1>5, MachineAssumption DEF Surjection
<1> QED BY <1>1, <1>2, <1>6

\* What a handler hears is the answer of the live instance, or nothing; and nothing only
\* if the call is lost.
LEMMA AnswerHeard ==
  ASSUME NEW c \in Circumstances, NEW code, NEW reply, reply # Silence
  PROVE  /\ Answer(c, code, reply) \in {reply, Silence}
         /\ c.lost = {} => Answer(c, code, reply) = reply
         /\ code \in c.lost => Answer(c, code, reply) = Silence
<1> DEFINE replies == [i \in Instances |-> IF i = Live /\ code \notin c.lost THEN reply ELSE Silence]
           answering == {k \in DOMAIN c.order : replies[c.order[k]] # Silence}
<1>1. c.order \in SetToSeqs(Instances)
  BY DEF Circumstances
<1>2. /\ DOMAIN c.order \subseteq Nat /\ c.order \in [DOMAIN c.order -> Instances]
      /\ \E k \in DOMAIN c.order : c.order[k] = Live
  BY <1>1, OrderNamesAll
<1>3. Answer(c, code, reply) = IF answering = {} THEN Silence ELSE replies[c.order[Min(answering)]]
  BY DEF Answer, CallInstanceMethod
<1>4. answering # {} => Min(answering) \in answering
  <2>1. answering \in SUBSET Nat
    BY <1>2
  <2> QED BY <2>1, Smallest
<1>5. ASSUME answering # {} PROVE replies[c.order[Min(answering)]] = reply
  <2>1. c.order[Min(answering)] \in Instances /\ replies[c.order[Min(answering)]] # Silence
    BY <1>2, <1>4, <1>5
  <2> QED BY <2>1
<1>6. c.lost = {} => answering # {}
  <2> SUFFICES ASSUME c.lost = {} PROVE answering # {}
    OBVIOUS
  <2>1. PICK k \in DOMAIN c.order : c.order[k] = Live
    BY <1>2
  <2>2. replies[Live] = reply
    BY MachineAssumption
  <2>3. k \in answering
    BY <2>1, <2>2
  <2> QED BY <2>3
<1>7. code \in c.lost => answering = {}
  <2> SUFFICES ASSUME code \in c.lost, NEW k \in DOMAIN c.order PROVE replies[c.order[k]] = Silence
    OBVIOUS
  <2>1. c.order[k] \in Instances
    BY <1>2
  <2> QED BY <2>1
<1> HIDE DEF replies, answering
<1> QED BY <1>3, <1>5, <1>6, <1>7

\* A code is accepted only by the machine, and always if the call is not lost; what is
\* accepted took effect.
LEMMA OkIsAccepted ==
  ASSUME NEW c \in Circumstances, NEW code
  PROVE  /\ Ok(c, code) \in BOOLEAN
         /\ Ok(c, code) => code \in accepts
         /\ c.lost = {} /\ code \in accepts => Ok(c, code)
         /\ Ok(c, code) => Took(c, code)
<1> DEFINE reply == IF code \in accepts THEN "0" ELSE "1"
<1>1. reply # Silence
  BY DEF Silence
<1>2. /\ Answer(c, code, reply) \in {reply, Silence}
      /\ c.lost = {} => Answer(c, code, reply) = reply
      /\ code \in c.lost => Answer(c, code, reply) = Silence
  BY <1>1, AnswerHeard
<1> QED BY <1>2 DEF Ok, Took, Silence

-----------------------------------------------------------------------------
\* What setMode sends.

Good(codes, m) == codes \in Seq(Codes) /\ \A i \in DOMAIN codes : ModeOf[codes[i]] = m

\* The tables from first on, up to the first one that is accepted.
LEMMA WalkSends ==
  ASSUME NEW c \in Circumstances, NEW first \in 1 .. 4
  PROVE  /\ Good(Walk(c, first), "performance")
         /\ first # 4 => Walk(c, first) # <<>>
         /\ \/ \E n \in first .. 3 :
                /\ Walk(c, first) # <<>> /\ Last(Walk(c, first)) = PerfCodes[n]
                /\ Ok(c, PerfCodes[n]) /\ \A i \in first .. n - 1 : ~Ok(c, PerfCodes[i])
            \/ /\ ~(Walk(c, first) # <<>> /\ Ok(c, Last(Walk(c, first))))
               /\ \A i \in first .. 3 : ~Ok(c, PerfCodes[i])
<1> DEFINE hits == {i \in first .. Len(PerfCodes) : Ok(c, PerfCodes[i])}
           n == IF hits = {} THEN Len(PerfCodes) ELSE Min(hits)
<1>1. Walk(c, first) = SubSeq(PerfCodes, first, n)
  BY DEF Walk
<1>2. hits \in SUBSET Nat /\ hits \subseteq first .. 3 /\ first \in Nat /\ Len(PerfCodes) = 3
  BY CodesAre
<1>3. hits # {} => n \in hits /\ \A i \in hits : n <= i
  BY <1>2, Smallest
<1>4. n \in 1 .. 3 /\ (first # 4 => first <= n)
  BY <1>2, <1>3
<1>5. /\ SubSeq(PerfCodes, first, n) \in Seq(Codes)
      /\ Len(SubSeq(PerfCodes, first, n)) = IF first <= n THEN n - first + 1 ELSE 0
      /\ \A i \in 1 .. n - first + 1 : SubSeq(PerfCodes, first, n)[i] = PerfCodes[first + i - 1]
  <2>1. \A i \in first .. n : PerfCodes[i] \in Codes
    BY <1>4, CodesAre
  <2>2. first \in Int /\ n \in Int
    BY <1>4
  <2> HIDE DEF n
  <2> QED BY <2>1, <2>2, SubSeqProperties
<1> DEFINE w == SubSeq(PerfCodes, first, n)
<1> HIDE DEF n, w
<1>6. w \in Seq(Codes) /\ DOMAIN w = 1 .. Len(w)
  BY <1>5 DEF w
<1>7. Good(w, "performance")
  <2>1. ASSUME NEW i \in DOMAIN w PROVE ModeOf[w[i]] = "performance"
    <3>1. i \in 1 .. n - first + 1 /\ w[i] = PerfCodes[first + i - 1]
      BY <1>4, <1>5, <1>6 DEF w
    <3>2. first + i - 1 \in 1 .. 3
      BY <1>4, <3>1
    <3> QED BY <3>1, <3>2, CodesAre
  <2> QED BY <1>6, <2>1 DEF Good
<1>8. CASE first = 4
  <2>1. w = <<>>
    BY <1>4, <1>8, SubSeqEmpty DEF w
  <2>2. \A i \in first .. 3 : ~Ok(c, PerfCodes[i])
    BY <1>8
  <2> QED BY <1>1, <1>7, <1>8, <2>1, <2>2 DEF w
<1>9. CASE first # 4
  <2>1. Len(w) = n - first + 1 /\ Len(w) \in Nat /\ Len(w) > 0
    BY <1>4, <1>5, <1>9 DEF w
  <2>2. w[Len(w)] = PerfCodes[n]
    BY <1>4, <1>5, <2>1 DEF w
  <2>3. w # <<>> /\ Last(w) = PerfCodes[n]
    BY <1>6, <2>1, <2>2 DEF Last
  <2>4. CASE hits = {}
    <3>1. n = 3
      BY <1>2, <2>4 DEF n
    <3>2. \A i \in first .. 3 : ~Ok(c, PerfCodes[i])
      BY <1>2, <2>4
    <3> QED BY <1>1, <1>7, <1>9, <2>3, <3>1, <3>2 DEF w
  <2>5. CASE hits # {}
    <3>1. n \in first .. 3 /\ Ok(c, PerfCodes[n]) /\ \A i \in first .. n - 1 : ~Ok(c, PerfCodes[i])
      BY <1>2, <1>3, <1>4, <2>5
    <3> QED BY <1>1, <1>7, <2>3, <3>1 DEF w
  <2> QED BY <2>4, <2>5
<1> QED BY <1>8, <1>9

\* A mode with one code is written with that code.
LEMMA OneCode ==
  ASSUME NEW m \in Modes \ {"performance", "balanced"}
  PROVE  Good(SetToSeq(CodesOf(m)), m) /\ SetToSeq(CodesOf(m)) # <<>>
<1>1. m \in {"custom", "quiet", "cool", "gmode"}
  BY CodesAre DEF Modes, ModeOf
<1>2. CodesOf(m) = {m} /\ m \in Codes /\ ModeOf[m] = m
  BY <1>1, CodesAre DEF CodesOf, ModeOf
<1>3. Cardinality({m}) = 1
  BY FS_Singleton
<1>4. [i \in 1 .. 1 |-> m] \in [1 .. 1 -> {m}] /\ IsInjective([i \in 1 .. 1 |-> m])
  BY DEF IsInjective
<1>5. SetToSeq(CodesOf(m)) \in [1 .. 1 -> {m}]
  BY <1>2, <1>3, <1>4 DEF SetToSeq
<1> DEFINE s == SetToSeq(CodesOf(m))
<1> HIDE DEF s
<1>6. DOMAIN s = 1 .. 1 /\ s[1] = m /\ s \in [1 .. 1 -> Codes]
  BY <1>2, <1>5 DEF s
<1>7. s \in Seq(Codes)
  BY <1>6, SeqDef
<1>8. s # <<>>
  <2>1. DOMAIN <<>> = {}
    OBVIOUS
  <2> QED BY <1>6, <2>1
<1>9. \A i \in DOMAIN s : ModeOf[s[i]] = m
  BY <1>2, <1>6
<1> QED BY <1>7, <1>8, <1>9 DEF Good, s

LEMMA WritesAreOfTheMode ==
  ASSUME NEW c \in Circumstances, NEW m \in Modes
  PROVE  Good(Writes(c, m), m) /\ Writes(c, m) # <<>>
<1>1. CASE m = "performance"
  BY <1>1, WalkSends DEF Writes
<1>2. CASE m = "balanced"
  <2>1. BalancedWrites(c) \in {<<"balanced_ustt">>, <<"balanced_legacy">>,
                               <<"balanced_ustt", "balanced_legacy">>}
    BY DEF BalancedWrites
  <2>2. Writes(c, m) = BalancedWrites(c)
    BY <1>2 DEF Writes
  <2>3. /\ "balanced_ustt" \in Codes /\ ModeOf["balanced_ustt"] = "balanced"
        /\ "balanced_legacy" \in Codes /\ ModeOf["balanced_legacy"] = "balanced"
    BY DEF Codes, ModeOf
  <2> SUFFICES ASSUME NEW w \in {<<"balanced_ustt">>, <<"balanced_legacy">>,
                                 <<"balanced_ustt", "balanced_legacy">>}
               PROVE  Good(w, "balanced") /\ w # <<>>
    BY <1>2, <2>1, <2>2
  <2>4. w \in Seq(Codes) /\ w # <<>> /\ \A i \in DOMAIN w : w[i] \in {"balanced_ustt", "balanced_legacy"}
    <3>1. CASE w = <<"balanced_ustt">>
      BY <2>3, <3>1
    <3>2. CASE w = <<"balanced_legacy">>
      BY <2>3, <3>2
    <3>3. CASE w = <<"balanced_ustt", "balanced_legacy">>
      BY <2>3, <3>3
    <3> QED BY <3>1, <3>2, <3>3
  <2> QED BY <2>3, <2>4 DEF Good
<1>3. CASE m \notin {"performance", "balanced"}
  BY <1>3, OneCode DEF Writes
<1> QED BY <1>1, <1>2, <1>3

LEMMA LastIsGood ==
  ASSUME NEW codes, NEW m, Good(codes, m), codes # <<>>
  PROVE  Last(codes) \in Codes /\ ModeOf[Last(codes)] = m
<1>1. codes \in Seq(Codes) /\ Len(codes) \in 1 .. Len(codes) /\ DOMAIN codes = 1 .. Len(codes)
  BY EmptySeq, LenProperties DEF Good
<1> QED BY <1>1 DEF Good, Last

-----------------------------------------------------------------------------
\* The steps.

LEMMA InitIInv == Init => IInv
<1> SUFFICES ASSUME Init PROVE IInv
  OBVIOUS
<1>1. PICK a \in SUBSET UNION {CodesOf(m) : m \in Requests} : accepts = a \cup {Home}
  BY DEF Init
<1>2. PICK r \in SUBSET (Performance \ {Home}) : retains = accepts \ r
  BY DEF Init
<1>3. accepts \subseteq Codes /\ retains \subseteq accepts /\ Home \in retains
  BY <1>1, <1>2, MachineAssumption DEF CodesOf
<1>4. <<>> \in Seq(Codes)
  BY EmptySeq
<1>5. TypeOK
  <2>1. 0 \in 0 .. Len(PerfCodes) /\ 0 \in 0 .. MaxHold /\ 0 \in 0 .. MaxEvents
    BY CodesAre, BoundAssumption
  <2>2. running \in accepts
    BY <1>1 DEF Init
  <2>3. candidate \in 0 .. Len(PerfCodes) /\ held \in 0 .. MaxHold /\ events \in 0 .. MaxEvents
    BY <2>1 DEF Init
  <2>4. /\ balancedUstt = "unknown" /\ reads = 0 /\ matches = 0 /\ rested = FALSE
        /\ target \in Requests /\ lastWritten = NoMode /\ sent = <<>> /\ verdict = "none"
        /\ clean = TRUE
    BY DEF Init
  <2>5. reads \in 0 .. 2 /\ matches \in 0 .. 1
    BY <2>4
  <2>7. echoed \in BOOLEAN
    BY DEF Init
  <2>6. rested \in BOOLEAN /\ clean \in BOOLEAN /\ sent \in Seq(Codes)
    BY <1>4, <2>4
  <2> QED BY <1>3, <2>2, <2>3, <2>4, <2>5, <2>6, <2>7 DEF TypeOK
<1> QED BY <1>3, <1>5 DEF Init, IInv, HeldAsLong, KeptIsSeen, TriedBefore, NoTableIsSkipped

LEMMA DisturbType ==
  ASSUME TypeOK, Disturb
  PROVE  events' \in 0 .. MaxEvents
<1>1. events \in 0 .. MaxEvents
  BY DEF TypeOK
<1> QED BY <1>1, BoundAssumption DEF Disturb

LEMMA LosingType ==
  ASSUME TypeOK, NEW c, NEW calls, Losing(c, calls)
  PROVE  events' \in 0 .. MaxEvents
BY DisturbType DEF TypeOK, Losing

\* What is known of the verification when nothing is being verified.
LEMMA AtRest ==
  ASSUME IInv, TypeOK', UNCHANGED retains, candidate' = 0, matches' = 0, reads' = 0,
         verdict' = "abandoned" /\ clean' => retains \cap Performance = {}
  PROVE  IInv'
<1>1. Home \in retains' /\ matches' <= reads'
  BY DEF IInv
<1>2. HeldAsLong' /\ KeptIsSeen' /\ TriedBefore'
  BY DEF HeldAsLong, KeptIsSeen, TriedBefore
<1>3. NoTableIsSkipped'
  BY <1>1 DEF NoTableIsSkipped, Performance
<1> QED BY <1>1, <1>2, <1>3 DEF IInv

\* A table that has just been written is about to be verified.
LEMMA JustWritten ==
  ASSUME IInv, TypeOK', UNCHANGED retains, candidate' \in 1 .. 3,
         running' = PerfCodes[candidate'], matches' = 0, reads' = 0, rested' = FALSE,
         verdict' # "abandoned",
         clean' => \A i \in 1 .. candidate' - 1 : PerfCodes[i] \notin retains
  PROVE  IInv'
<1>1. Home \in retains' /\ matches' <= reads'
  BY DEF IInv
<1>2. HeldAsLong'
  <2>1. held' \in 0 .. MaxHold
    BY DEF TypeOK
  <2>2. held' >= 0
    BY <2>1, BoundAssumption
  <2>3. Waited' = 0
    BY DEF Waited
  <2> QED BY <2>2, <2>3 DEF HeldAsLong
<1>3. KeptIsSeen' /\ TriedBefore' /\ NoTableIsSkipped'
  BY <1>1 DEF KeptIsSeen, TriedBefore, NoTableIsSkipped
<1> QED BY <1>1, <1>2, <1>3 DEF IInv

\* What is in force after codes were sent: the last one if it is confirmed, else one of
\* them or what was in force before.
LEMMA SendDoes ==
  ASSUME NEW c \in Circumstances, NEW codes \in Seq(Codes), Send(c, codes)
  PROVE  /\ sent' = codes
         /\ \/ UNCHANGED <<running, held>>
            \/ /\ running' \in accepts /\ held' = 0
               /\ \E i \in DOMAIN codes : running' = codes[i]
         /\ codes # <<>> /\ Ok(c, Last(codes)) => running' = Last(codes) /\ held' = 0
<1> DEFINE effective == {i \in DOMAIN codes : Took(c, codes[i])}
<1>1. \/ effective = {} /\ UNCHANGED <<running, held>>
      \/ \E i \in effective : /\ \A j \in effective : j <= i
                              /\ running' = codes[i] /\ held' = 0
  BY DEF Send
<1>2. \A i \in effective : i \in DOMAIN codes /\ codes[i] \in accepts
  BY DEF Took
<1>3. ASSUME codes # <<>>, Ok(c, Last(codes)) PROVE running' = Last(codes) /\ held' = 0
  <2>1. Len(codes) \in DOMAIN codes /\ DOMAIN codes = 1 .. Len(codes) /\ Len(codes) \in Nat
    BY <1>3, EmptySeq, LenProperties
  <2>2. Len(codes) \in effective
    BY <1>3, <2>1, OkIsAccepted DEF Last
  <2>3. \A i \in effective : Len(codes) <= i => i = Len(codes)
    BY <2>1
  <2> HIDE DEF effective
  <2> QED BY <1>1, <2>2, <2>3 DEF Last
<1>4. sent' = codes
  BY DEF Send
<1> HIDE DEF effective
<1> QED BY <1>1, <1>2, <1>3, <1>4

LEMMA SendType ==
  ASSUME TypeOK, NEW c \in Circumstances, NEW codes \in Seq(Codes), Send(c, codes)
  PROVE  sent' \in Seq(Codes) /\ running' \in accepts /\ held' \in 0 .. MaxHold
BY SendDoes, BoundAssumption DEF TypeOK

\* What setMode and a poll do, in terms of what they send.
LEMMA SetModeDoes ==
  ASSUME NEW c, NEW m, SetMode(c, m)
  PROVE  LET codes == Writes(c, m)
             ok    == Ok(c, Last(codes))
         IN /\ Send(c, codes) /\ LatchBalanced(c, m)
            /\ Restart(IF m = "performance" /\ ok THEN TableOf(Last(codes)) ELSE 0)
            /\ lastWritten' = IF ok THEN m ELSE lastWritten
            /\ IF m = "performance"
               THEN verdict' = (IF ok THEN "none" ELSE "abandoned") /\ clean' = (c.lost = {})
               ELSE UNCHANGED <<verdict, clean>>
BY DEF SetMode

LEMMA PollDoes ==
  ASSUME NEW c, PollPendingModeWrite(c)
  PROVE  LET n == IF running = PerfCodes[candidate] /\ Answer(c, "read", "code") # Silence
                  THEN matches + 1 ELSE 0
             codes == NextCandidate(c)
             ok    == codes # <<>> /\ Ok(c, Last(codes))
         IN \/ /\ n >= 2 /\ Restart(0) /\ verdict' = "verified" /\ sent' = <<>>
               /\ UNCHANGED <<running, held>>
            \/ /\ ~(n >= 2) /\ reads + 1 >= 3
               /\ Send(c, codes) /\ Restart(IF ok THEN TableOf(Last(codes)) ELSE 0)
               /\ verdict' = IF ok THEN "none" ELSE "abandoned"
            \/ /\ ~(n >= 2) /\ reads + 1 < 3
               /\ reads' = reads + 1 /\ matches' = n /\ rested' = FALSE
               /\ sent' = <<>> /\ UNCHANGED <<candidate, echoed, running, held, verdict>>
BY DEF PollPendingModeWrite, Retained, CancelPendingModeWrite

LEMMA RequestsAreModes == Requests \subseteq Modes
BY MachineAssumption

LEMMA WriteTickStep ==
  ASSUME IInv, NEW c \in Circumstances, WriteTick(c)
  PROVE  IInv'
<1> USE DEF IInv
<1> DEFINE codes == Writes(c, target)
           ok == Ok(c, Last(codes))
<1>1. target \in Modes /\ Good(codes, target) /\ codes # <<>>
  BY WritesAreOfTheMode, RequestsAreModes DEF TypeOK
<1>2. Last(codes) \in Codes /\ codes \in Seq(Codes) /\ ok \in BOOLEAN
  BY <1>1, LastIsGood, OkIsAccepted DEF Good
<1>3. /\ Send(c, codes) /\ LatchBalanced(c, target)
      /\ Restart(IF target = "performance" /\ ok THEN TableOf(Last(codes)) ELSE 0)
      /\ lastWritten' = IF ok THEN target ELSE lastWritten
      /\ IF target = "performance"
         THEN verdict' = (IF ok THEN "none" ELSE "abandoned") /\ clean' = (c.lost = {})
         ELSE UNCHANGED <<verdict, clean>>
      /\ Losing(c, CodesOf(target)) /\ UNCHANGED <<target, machine>>
  BY SetModeDoes DEF WriteTick
<1>4. sent' \in Seq(Codes) /\ running' \in accepts /\ held' \in 0 .. MaxHold
  BY <1>2, <1>3, SendType
<1>5. events' \in 0 .. MaxEvents
  BY <1>3, LosingType
<1>6. /\ balancedUstt' \in {"unknown", "yes", "no"} /\ lastWritten' \in Requests \cup {NoMode}
      /\ verdict' \in {"none", "verified", "abandoned"} /\ clean' \in BOOLEAN
      /\ reads' = 0 /\ matches' = 0 /\ rested' = FALSE /\ echoed' = FALSE
  BY <1>3 DEF LatchBalanced, Restart, TypeOK
<1> HIDE DEF codes, ok
<1>7. ASSUME candidate' \in 0 .. 3 PROVE TypeOK'
  <2>1. candidate' \in 0 .. Len(PerfCodes) /\ reads' \in 0 .. 2 /\ matches' \in 0 .. 1
    BY <1>6, <1>7, CodesAre
  <2>3. rested' \in BOOLEAN /\ echoed' \in BOOLEAN
    BY <1>6
  <2>2. UNCHANGED <<target, accepts, retains>>
    BY <1>3 DEF machine
  <2> QED BY <1>4, <1>5, <1>6, <2>1, <2>2, <2>3 DEF TypeOK
<1>8. CASE target = "performance" /\ ok
  <2>1. codes = Walk(c, 1)
    BY <1>8 DEF codes, Writes
  <2>2. PICK n \in 1 .. 3 : /\ Last(codes) = PerfCodes[n]
                           /\ \A i \in 1 .. n - 1 : ~Ok(c, PerfCodes[i])
    BY <1>1, <1>8, <2>1, WalkSends DEF ok
  <2>3. candidate' = n /\ running' = PerfCodes[n]
    BY <1>1, <1>2, <1>3, <1>8, <2>2, TableOfIs, SendDoes DEF Restart, ok
  <2>4. clean' => \A i \in 1 .. n - 1 : PerfCodes[i] \notin retains
    BY <1>3, <1>8, <2>2, OkIsAccepted DEF TypeOK
  <2>5. verdict' # "abandoned" /\ UNCHANGED retains
    BY <1>3, <1>8 DEF machine
  <2>6. TypeOK'
    BY <1>7, <2>3
  <2> QED BY <1>6, <2>3, <2>4, <2>5, <2>6, JustWritten
<1>9. CASE ~(target = "performance" /\ ok)
  <2>1. candidate' = 0
    BY <1>3, <1>9 DEF Restart
  <2>2. verdict' = "abandoned" /\ clean' => retains \cap Performance = {}
    <3>1. CASE target = "performance"
      <4>1. codes = Walk(c, 1) /\ ~ok
        BY <1>9, <3>1 DEF codes, Writes
      <4>2. \A i \in 1 .. 3 : ~Ok(c, PerfCodes[i])
        BY <4>1, WalkSends DEF ok
      <4>3. c.lost = {} => retains \cap Performance = {}
        <5>1. retains \subseteq accepts
          BY DEF TypeOK
        <5>2. c.lost = {} => \A i \in 1 .. 3 : PerfCodes[i] \notin retains
          BY <4>2, <5>1, OkIsAccepted
        <5> QED BY <5>2, CodesAre
      <4> QED BY <1>3, <3>1, <4>3
    <3>2. CASE target # "performance"
      BY <1>3, <3>2 DEF NoTableIsSkipped
    <3> QED BY <3>1, <3>2
  <2>3. TypeOK' /\ UNCHANGED retains
    BY <1>3, <1>7, <2>1 DEF machine
  <2> QED BY <1>6, <2>1, <2>2, <2>3, AtRest
<1> QED BY <1>8, <1>9

\* A read that is not lost matches whenever the table is in force.
LEMMA ReadHeard ==
  ASSUME NEW c \in Circumstances
  PROVE  c.lost = {} => Answer(c, "read", "code") # Silence
BY AnswerHeard DEF Silence

\* A verification goes on, with what the read has shown.
LEMMA ReadStep ==
  ASSUME IInv, NEW c \in Circumstances, NEW n \in Nat, candidate \in 1 .. 3, rested,
         n = (IF running = PerfCodes[candidate] /\ Answer(c, "read", "code") # Silence
              THEN matches + 1 ELSE 0),
         n < 2, reads + 1 < 3, reads' = reads + 1, matches' = n, rested' = FALSE,
         clean' = (clean /\ c.lost = {}), TypeOK',
         UNCHANGED <<candidate, echoed, running, held, verdict, retains>>
  PROVE  IInv'
<1> USE DEF IInv
<1>1. reads \in 0 .. 2 /\ matches \in 0 .. 1 /\ held \in 0 .. MaxHold
  BY DEF TypeOK
<1>2. held \in Nat
  BY <1>1, BoundAssumption
<1>3. matches' <= reads'
  BY <1>1
<1>4. HeldAsLong'
  <2>1. Waited = reads + 1 /\ Waited' = reads + 1
    BY DEF Waited
  <2> QED BY <1>2, <2>1 DEF HeldAsLong
<1>5. KeptIsSeen'
  BY <1>1, ReadHeard DEF KeptIsSeen
<1>6. TriedBefore' /\ NoTableIsSkipped'
  BY DEF TriedBefore, NoTableIsSkipped
<1> QED BY <1>3, <1>4, <1>5, <1>6

LEMMA PollTickStep ==
  ASSUME IInv, NEW c \in Circumstances, PollTick(c)
  PROVE  IInv'
<1> USE DEF IInv
<1> DEFINE n == IF running = PerfCodes[candidate] /\ Answer(c, "read", "code") # Silence
                THEN matches + 1 ELSE 0
           codes == NextCandidate(c)
           ok == codes # <<>> /\ Ok(c, Last(codes))
<1>1. /\ target = "performance" /\ rested /\ Losing(c, {"read"} \cup Performance)
      /\ clean' = (clean /\ c.lost = {})
      /\ UNCHANGED <<balancedUstt, target, lastWritten, accepts, retains>>
  BY DEF PollTick, PollDue, machine
<1>2. candidate \in 1 .. 3 /\ reads \in 0 .. 2 /\ matches \in 0 .. 1
  BY CodesAre DEF PollTick, PollDue, TypeOK
<1>3. n \in Nat
  BY <1>2
<1>4. \/ /\ n >= 2 /\ Restart(0) /\ verdict' = "verified" /\ sent' = <<>>
         /\ UNCHANGED <<running, held>>
      \/ /\ ~(n >= 2) /\ reads + 1 >= 3
         /\ Send(c, codes) /\ Restart(IF ok THEN TableOf(Last(codes)) ELSE 0)
         /\ verdict' = IF ok THEN "none" ELSE "abandoned"
      \/ /\ ~(n >= 2) /\ reads + 1 < 3
         /\ reads' = reads + 1 /\ matches' = n /\ rested' = FALSE
         /\ sent' = <<>> /\ UNCHANGED <<candidate, echoed, running, held, verdict>>
  BY PollDoes DEF PollTick
<1>5. events' \in 0 .. MaxEvents
  BY <1>1, LosingType
<1>6. <<>> \in Seq(Codes)
  BY EmptySeq
<1>7. clean' \in BOOLEAN /\ (clean' => clean /\ c.lost = {})
  <2>1. clean \in BOOLEAN
    BY DEF TypeOK
  <2> QED BY <1>1, <2>1
<1> HIDE DEF n, codes, ok
<1>8. ASSUME candidate' \in 0 .. 3, reads' \in 0 .. 2, matches' \in 0 .. 1, rested' = FALSE,
             echoed' \in BOOLEAN,
             sent' \in Seq(Codes), running' \in accepts, held' \in 0 .. MaxHold,
             verdict' \in {"none", "verified", "abandoned"}
      PROVE  TypeOK'
  <2>1. candidate' \in 0 .. Len(PerfCodes)
    BY <1>8, CodesAre
  <2>2. rested' \in BOOLEAN
    BY <1>8
  <2> QED BY <1>1, <1>5, <1>7, <1>8, <2>1, <2>2 DEF TypeOK
<1>9. CASE /\ n >= 2 /\ Restart(0) /\ verdict' = "verified" /\ sent' = <<>>
           /\ UNCHANGED <<running, held>>
  <2>1. candidate' = 0 /\ reads' = 0 /\ matches' = 0 /\ rested' = FALSE /\ echoed' \in BOOLEAN
    BY <1>9 DEF Restart
  <2>2. running' \in accepts /\ held' \in 0 .. MaxHold
    BY <1>9 DEF TypeOK
  <2>3. candidate' \in 0 .. 3 /\ reads' \in 0 .. 2 /\ matches' \in 0 .. 1
    BY <2>1
  <2>4. sent' \in Seq(Codes) /\ verdict' \in {"none", "verified", "abandoned"}
    BY <1>6, <1>9
  <2>5. TypeOK'
    BY <1>8, <2>1, <2>2, <2>3, <2>4
  <2> QED BY <1>1, <1>9, <2>1, <2>5, AtRest
<1>10. CASE /\ ~(n >= 2) /\ reads + 1 >= 3
            /\ Send(c, codes) /\ Restart(IF ok THEN TableOf(Last(codes)) ELSE 0)
            /\ verdict' = IF ok THEN "none" ELSE "abandoned"
  <2>1. codes = Walk(c, candidate + 1) /\ candidate + 1 \in 1 .. 4
    BY <1>2 DEF codes, NextCandidate
  <2>2. Good(codes, "performance") /\ (codes # <<>> => Last(codes) \in Codes)
    BY <2>1, WalkSends, LastIsGood
  <2>3. sent' \in Seq(Codes) /\ running' \in accepts /\ held' \in 0 .. MaxHold
    BY <1>10, <2>2, SendType DEF Good
  <2>10. reads' = 0 /\ matches' = 0 /\ rested' = FALSE /\ echoed' = FALSE
    BY <1>10 DEF Restart
  <2>4. /\ reads' = 0 /\ matches' = 0 /\ rested' = FALSE /\ echoed' \in BOOLEAN
        /\ reads' \in 0 .. 2 /\ matches' \in 0 .. 1
    <3>1. reads' \in 0 .. 2 /\ matches' \in 0 .. 1
      BY <2>10
    <3>2. echoed' \in BOOLEAN
      BY <2>10
    <3> QED BY <2>10, <3>1, <3>2
  <2>5. clean' => PerfCodes[candidate] \notin retains
    BY <1>2, <1>7, <1>10, ReadHeard DEF KeptIsSeen, n
  <2>6. clean' => \A i \in 1 .. candidate : PerfCodes[i] \notin retains
    <3>1. clean' => \A i \in 1 .. candidate - 1 : PerfCodes[i] \notin retains
      BY <1>2, <1>7 DEF TriedBefore
    <3> QED BY <1>2, <2>5, <3>1
  <2>7. \A code : c.lost = {} /\ ~Ok(c, code) => code \notin retains
    BY OkIsAccepted DEF TypeOK
  <2>8. CASE ok
    <3>1. PICK m \in candidate + 1 .. 3 :
            Last(codes) = PerfCodes[m] /\ \A i \in candidate + 1 .. m - 1 : ~Ok(c, PerfCodes[i])
      BY <2>1, <2>8, WalkSends DEF ok
    <3>2. m \in 1 .. 3
      BY <1>2, <3>1
    <3>3. candidate' = m /\ running' = PerfCodes[m]
      BY <1>10, <2>2, <2>8, <3>1, <3>2, TableOfIs, SendDoes DEF Restart, Good, ok
    <3>4. clean' => \A i \in 1 .. m - 1 : PerfCodes[i] \notin retains
      <4>1. clean' => \A i \in candidate + 1 .. m - 1 : PerfCodes[i] \notin retains
        BY <1>7, <2>7, <3>1
      <4> QED BY <1>2, <2>6, <3>2, <4>1
    <3>5. verdict' = "none" /\ candidate' \in 0 .. 3
      BY <1>10, <2>8, <3>2, <3>3
    <3>6. TypeOK'
      BY <1>8, <2>3, <2>4, <3>5
    <3>7. verdict' # "abandoned" /\ UNCHANGED retains
      BY <1>1, <3>5
    <3> QED BY <2>4, <3>2, <3>3, <3>4, <3>6, <3>7, JustWritten
  <2>9. CASE ~ok
    <3>1. \A i \in candidate + 1 .. 3 : ~Ok(c, PerfCodes[i])
      BY <2>1, <2>9, WalkSends DEF ok
    <3>2. clean' => \A i \in candidate + 1 .. 3 : PerfCodes[i] \notin retains
      BY <1>7, <2>7, <3>1
    <3>3. clean' => \A i \in 1 .. 3 : PerfCodes[i] \notin retains
      BY <1>2, <2>6, <3>2
    <3>4. clean' => retains \cap Performance = {}
      BY <3>3, CodesAre
    <3>5. candidate' = 0
      BY <1>10, <2>9 DEF Restart
    <3>6. verdict' = "abandoned" /\ candidate' \in 0 .. 3
      BY <1>10, <2>9, <3>5
    <3>7. TypeOK'
      BY <1>8, <2>3, <2>4, <3>6
    <3> QED BY <1>1, <2>4, <3>4, <3>5, <3>7, AtRest
  <2> QED BY <2>8, <2>9
<1>11. CASE /\ ~(n >= 2) /\ reads + 1 < 3
            /\ reads' = reads + 1 /\ matches' = n /\ rested' = FALSE
            /\ sent' = <<>> /\ UNCHANGED <<candidate, echoed, running, held, verdict>>
  <2>1. n < 2 /\ n \in 0 .. 1 /\ reads' \in 0 .. 2
    BY <1>2, <1>3, <1>11
  <2>2. running' \in accepts /\ held' \in 0 .. MaxHold /\ echoed' \in BOOLEAN
        /\ verdict' \in {"none", "verified", "abandoned"}
    BY <1>11 DEF TypeOK
  <2>3. candidate' \in 0 .. 3 /\ matches' \in 0 .. 1 /\ rested' = FALSE /\ sent' \in Seq(Codes)
    BY <1>2, <1>6, <1>11, <2>1
  <2>4. TypeOK'
    BY <1>8, <2>1, <2>2, <2>3
  <2>5. n = IF running = PerfCodes[candidate] /\ Answer(c, "read", "code") # Silence
            THEN matches + 1 ELSE 0
    BY DEF n
  <2> QED BY <1>1, <1>2, <1>3, <1>11, <2>1, <2>4, <2>5, ReadStep
<1> QED BY <1>4, <1>9, <1>10, <1>11

LEMMA HalfSecondStep ==
  ASSUME IInv, HalfSecond
  PROVE  IInv'
<1> USE DEF IInv
<1>1. /\ UNCHANGED <<balancedUstt, candidate, reads, matches, echoed, target, lastWritten,
                     accepts, retains, verdict, clean, events>>
      /\ rested' = (candidate # 0) /\ sent' = <<>>
  BY DEF HalfSecond, machine
<1>2. reads \in 0 .. 2 /\ rested \in BOOLEAN /\ held \in Nat /\ held \in 0 .. MaxHold
      /\ running \in accepts /\ Home \in accepts /\ MaxHold \in Nat
  BY BoundAssumption DEF TypeOK
<1>3. \/ running \in retains /\ UNCHANGED <<running, held>>
      \/ running \notin retains /\ running' = Home /\ held' = 0
      \/ running \notin retains /\ held < MaxHold /\ held' = held + 1 /\ UNCHANGED running
  BY DEF HalfSecond
<1>4. running' \in accepts /\ held' \in 0 .. MaxHold /\ rested' \in BOOLEAN
  <2>1. rested' \in BOOLEAN
    BY <1>1
  <2> QED BY <1>2, <1>3, <2>1
<1>5. TypeOK'
  <2>1. sent' \in Seq(Codes)
    BY <1>1, EmptySeq
  <2> QED BY <1>1, <1>4, <2>1 DEF TypeOK
<1>6. HeldAsLong'
  <2>1. Waited \in Nat /\ Waited' <= Waited + 1
    BY <1>1, <1>2 DEF Waited
  <2>2. Waited' \in Nat
    BY <1>1, <1>2 DEF Waited
  <2> QED BY <1>1, <1>2, <1>3, <2>1, <2>2 DEF HeldAsLong
<1>7. KeptIsSeen' /\ TriedBefore' /\ NoTableIsSkipped'
  BY <1>1, <1>3 DEF KeptIsSeen, TriedBefore, NoTableIsSkipped
<1> QED BY <1>1, <1>5, <1>6, <1>7

\* The operations that neither write nor read the machine.
LEMMA QuietStep ==
  ASSUME IInv, UNCHANGED <<balancedUstt, machine, running, held, verdict, clean>>,
         UNCHANGED probe \/ CancelPendingModeWrite,
         target' \in Requests, lastWritten' \in Requests \cup {NoMode},
         sent' = <<>> \/ UNCHANGED sent, events' \in 0 .. MaxEvents
  PROVE  IInv'
<1> USE DEF IInv
<1>1. UNCHANGED <<accepts, retains>>
  BY DEF machine
<1>2. sent' \in Seq(Codes)
  <2>1. <<>> \in Seq(Codes)
    BY EmptySeq
  <2> QED BY <2>1 DEF TypeOK
<1>3. CASE UNCHANGED probe
  <2>1. UNCHANGED <<candidate, reads, matches, rested, echoed>>
    BY <1>3 DEF probe
  <2>2. TypeOK'
    BY <1>1, <1>2, <2>1 DEF TypeOK
  <2>3. Waited' = Waited
    BY <2>1 DEF Waited
  <2>4. HeldAsLong' /\ KeptIsSeen' /\ TriedBefore' /\ NoTableIsSkipped'
    BY <1>1, <2>1, <2>3 DEF HeldAsLong, KeptIsSeen, TriedBefore, NoTableIsSkipped
  <2> QED BY <1>1, <2>1, <2>2, <2>4
<1>4. CASE CancelPendingModeWrite
  <2>1. candidate' = 0 /\ reads' = 0 /\ matches' = 0 /\ rested' = FALSE /\ echoed' = FALSE
    BY <1>4 DEF CancelPendingModeWrite, Restart
  <2>2. candidate' \in 0 .. Len(PerfCodes) /\ reads' \in 0 .. 2 /\ matches' \in 0 .. 1
    BY <2>1, CodesAre
  <2>3. rested' \in BOOLEAN /\ echoed' \in BOOLEAN
    BY <2>1
  <2>4. TypeOK'
    BY <1>1, <1>2, <2>2, <2>3 DEF TypeOK
  <2>5. verdict' = "abandoned" /\ clean' => retains \cap Performance = {}
    BY DEF NoTableIsSkipped
  <2> QED BY <1>1, <2>1, <2>4, <2>5, AtRest
<1> QED BY <1>3, <1>4

\* Another program writes a profile.
LEMMA ForeignStep ==
  ASSUME IInv, NEW code \in Codes, Foreign(code)
  PROVE  IInv'
<1> USE DEF IInv
<1>1. /\ UNCHANGED <<balancedUstt, candidate, reads, matches, rested, target, lastWritten,
                     accepts, retains, verdict>>
      /\ running' = code /\ code \in accepts /\ held' = 0 /\ clean' = FALSE /\ sent' = <<>>
      /\ echoed' = (echoed \/ (candidate # 0 /\ code = PerfCodes[candidate]))
  BY DEF Foreign, machine
<1>2. events' \in 0 .. MaxEvents
  BY DisturbType DEF Foreign
<1>3. sent' \in Seq(Codes) /\ held' \in 0 .. MaxHold /\ echoed' \in BOOLEAN /\ clean' \in BOOLEAN
  <2>1. sent' \in Seq(Codes) /\ held' \in 0 .. MaxHold
    BY <1>1, EmptySeq, BoundAssumption
  <2>2. echoed' \in BOOLEAN
    BY <1>1 DEF TypeOK
  <2>3. clean' \in BOOLEAN
    BY <1>1
  <2> QED BY <2>1, <2>2, <2>3
<1>4. TypeOK'
  BY <1>1, <1>2, <1>3 DEF TypeOK
<1>5. HeldAsLong' /\ KeptIsSeen' /\ TriedBefore' /\ NoTableIsSkipped'
  BY <1>1 DEF HeldAsLong, KeptIsSeen, TriedBefore, NoTableIsSkipped
<1> QED BY <1>1, <1>4, <1>5

LEMMA NextIInv == IInv /\ [Next]_vars => IInv'
<1> SUFFICES ASSUME IInv, [Next]_vars PROVE IInv'
  OBVIOUS
<1>1. target \in Requests /\ lastWritten \in Requests \cup {NoMode} /\ events \in 0 .. MaxEvents
  BY DEF IInv, TypeOK
<1>2. CASE IdleTick
  BY <1>1, <1>2, QuietStep DEF IdleTick
<1>3. ASSUME NEW c \in Circumstances, PollTick(c) PROVE IInv'
  BY <1>3, PollTickStep
<1>4. ASSUME NEW c \in Circumstances, WriteTick(c) PROVE IInv'
  BY <1>4, WriteTickStep
<1>5. ASSUME NEW m \in Requests, Retarget(m) PROVE IInv'
  <2>1. events' \in 0 .. MaxEvents
    BY <1>5, DisturbType DEF IInv, Retarget
  <2> QED BY <1>1, <1>5, <2>1, QuietStep DEF Retarget
<1>6. ASSUME NEW m \in Requests, Select(m) PROVE IInv'
  <2>1. events' \in 0 .. MaxEvents
    BY <1>6, DisturbType DEF IInv, Select
  <2> QED BY <1>1, <1>6, <2>1, QuietStep DEF Select
<1>7. CASE Adopt
  BY <1>1, <1>7, QuietStep DEF Adopt
<1>8. CASE HalfSecond
  BY <1>8, HalfSecondStep
<1>9. CASE UNCHANGED vars
  BY <1>1, <1>9, QuietStep DEF vars
<1>10. ASSUME NEW code \in Codes, Foreign(code) PROVE IInv'
  BY <1>10, ForeignStep
<1> QED BY <1>2, <1>3, <1>4, <1>5, <1>6, <1>7, <1>8, <1>9, <1>10 DEF Next, Tick

-----------------------------------------------------------------------------
\* The theorems.

\* What the reads have shown so far is right in every reachable state.
THEOREM Invariance == Spec => []IInv
<1>1. Init => IInv
  BY InitIInv
<1>2. IInv /\ [Next]_vars => IInv'
  BY NextIInv
<1> QED BY <1>1, <1>2, PTL DEF Spec

\* Every variable of the HAL keeps its type.
THEOREM TypeCorrect == Spec => []TypeOK
<1>1. IInv => TypeOK
  BY DEF IInv
<1> QED BY <1>1, Invariance, PTL

\* startPerformanceCandidate: a request that gives up without a lost call and without
\* another program's write was made of a machine that retains none of the tables.
THEOREM EveryTableIsTried == Spec => []NoTableIsSkipped
<1>1. IInv => NoTableIsSkipped
  BY DEF IInv
<1> QED BY <1>1, Invariance, PTL

\* ModeWriteProbe::observe: two matching reads, each half a second after the last, prove
\* that a table is retained on a machine that drops the others within half a second,
\* provided nobody else wrote that table meanwhile.
THEOREM VerifiedTablesAreKept ==
  ASSUME MaxHold <= 1
  PROVE  Spec => VerifiedIsRetained
<1>1. ASSUME IInv, [Next]_vars
      PROVE  [verdict # "verified" /\ verdict' = "verified"
                => running \in retains \/ echoed]_vars
  <2> SUFFICES ASSUME verdict # "verified", verdict' = "verified", Next, ~echoed
               PROVE  running \in retains
    BY <1>1
  <2>1. ASSUME NEW c \in Circumstances, WriteTick(c) PROVE FALSE
    <3>1. SetMode(c, target)
      BY <2>1 DEF WriteTick
    <3> QED BY <3>1, SetModeDoes
  <2>2. PICK c \in Circumstances : PollTick(c)
    BY <2>1 DEF Next, Tick, IdleTick, Retarget, Select, Adopt, Foreign, HalfSecond
  <2> DEFINE n == IF running = PerfCodes[candidate] /\ Answer(c, "read", "code") # Silence
                  THEN matches + 1 ELSE 0
  <2>3. candidate # 0 /\ rested /\ n >= 2
    <3>1. PollPendingModeWrite(c) /\ candidate # 0 /\ rested
      BY <2>2 DEF PollTick, PollDue
    <3> QED BY <3>1, PollDoes
  <2>4. reads \in 0 .. 2 /\ matches \in 0 .. 1 /\ matches <= reads /\ held \in 0 .. MaxHold
    BY <1>1 DEF IInv, TypeOK
  <2>5. running = PerfCodes[candidate] /\ matches = 1 /\ reads >= 1
    BY <2>3, <2>4
  <2>6. Waited >= 2 /\ ~(held >= Waited)
    BY <2>3, <2>4, <2>5, BoundAssumption DEF Waited
  <2> QED BY <1>1, <2>3, <2>5, <2>6 DEF IInv, HeldAsLong
<1> QED BY <1>1, Invariance, PTL DEF Spec, VerifiedIsRetained

\* "A superseded Performance request must not write another candidate": no byte is sent
\* but for the mode that is asked for.
THEOREM SupersededWritesNothing == Spec => SupersededStaysSilent
<1>1. ASSUME IInv, [Next]_vars
      PROVE  [\A i \in DOMAIN sent' : ModeOf[sent'[i]] = target]_vars
  <2> SUFFICES ASSUME Next PROVE \A i \in DOMAIN sent' : ModeOf[sent'[i]] = target
    BY <1>1
  <2>1. DOMAIN <<>> = {}
    OBVIOUS
  <2>2. ASSUME NEW c \in Circumstances, WriteTick(c)
        PROVE  \A i \in DOMAIN sent' : ModeOf[sent'[i]] = target
    <3>1. target \in Modes
      BY <1>1, RequestsAreModes DEF IInv, TypeOK
    <3>2. SetMode(c, target)
      BY <2>2 DEF WriteTick
    <3>3. sent' = Writes(c, target)
      BY <3>2, SetModeDoes DEF Send
    <3> QED BY <3>1, <3>3, WritesAreOfTheMode DEF Good
  <2>3. ASSUME NEW c \in Circumstances, PollTick(c)
        PROVE  \A i \in DOMAIN sent' : ModeOf[sent'[i]] = target
    <3>1. target = "performance" /\ candidate + 1 \in 1 .. 4
      BY <1>1, <2>3, CodesAre DEF PollTick, PollDue, IInv, TypeOK
    <3>2. sent' = <<>> \/ sent' = Walk(c, candidate + 1)
      <4>1. PollPendingModeWrite(c)
        BY <2>3 DEF PollTick
      <4> QED BY <4>1, PollDoes DEF NextCandidate, Send
    <3> QED BY <2>1, <3>1, <3>2, WalkSends DEF Good
  <2>4. CASE \/ IdleTick \/ Adopt \/ HalfSecond
             \/ \E m \in Requests : Retarget(m) \/ Select(m)
             \/ \E code \in Codes : Foreign(code)
    BY <2>1, <2>4 DEF IdleTick, Adopt, HalfSecond, Retarget, Select, Foreign
  <2> QED BY <2>2, <2>3, <2>4 DEF Next, Tick
<1> QED BY <1>1, Invariance, PTL DEF Spec, SupersededStaysSilent

-----------------------------------------------------------------------------
\* The end of a verification.

\* No verification takes more than nine polls, and one that goes on has a poll left.
PollsBounded == PollsLeft \in 0 .. 9 /\ (candidate # 0 => PollsLeft > 0)

\* Each poll brings the end nearer, and nothing sets it back but that Performance is
\* written anew: neither a lost readback, nor a scene, nor the passing of time.
PollsOnlyFall ==
  [][/\ (\E c \in Circumstances : PollTick(c)) => PollsLeft' < PollsLeft
     /\ PollsLeft' > PollsLeft => target = "performance" /\ lastWritten # target]_vars

LEMMA PollsCounted ==
  ASSUME TypeOK
  PROVE  /\ candidate \in 0 .. 3 /\ reads \in 0 .. 2
         /\ PollsLeft = (IF candidate = 0 THEN 0 ELSE 3 * (3 - candidate) + (3 - reads))
         /\ PollsBounded
<1>1. candidate \in 0 .. 3 /\ reads \in 0 .. 2 /\ Len(PerfCodes) = 3
  BY CodesAre DEF TypeOK
<1>2. PollsLeft = IF candidate = 0 THEN 0 ELSE 3 * (3 - candidate) + (3 - reads)
  BY <1>1 DEF PollsLeft
<1>3. CASE candidate = 0
  BY <1>1, <1>2, <1>3 DEF PollsBounded
<1>4. CASE candidate # 0
  <2>1. 3 * (3 - candidate) + (3 - reads) \in 1 .. 9
    BY <1>1, <1>4
  <2> QED BY <1>1, <1>2, <1>4, <2>1 DEF PollsBounded
<1> QED BY <1>3, <1>4

LEMMA PollsCountedNext == TypeOK' => PollsBounded'
<1>1. TypeOK => PollsBounded
  BY PollsCounted
<1> QED BY <1>1, PTL

LEMMA PollsFall ==
  ASSUME IInv, NEW c \in Circumstances, PollTick(c)
  PROVE  PollsLeft' < PollsLeft
<1> DEFINE codes == NextCandidate(c)
           ok == codes # <<>> /\ Ok(c, Last(codes))
<1>1. TypeOK /\ TypeOK'
  BY PollTickStep DEF IInv
<1>2. /\ candidate \in 1 .. 3 /\ reads \in 0 .. 2
      /\ candidate' \in 0 .. 3 /\ reads' \in 0 .. 2
  BY <1>1, PollsCounted, CodesAre DEF PollTick, PollDue, TypeOK
<1>3. \/ candidate' = 0 /\ reads' = 0
      \/ reads' = 0 /\ ok /\ candidate' = TableOf(Last(codes))
      \/ reads' = reads + 1 /\ candidate' = candidate
  <2>1. PollPendingModeWrite(c)
    BY DEF PollTick
  <2> QED BY <2>1, PollDoes DEF Restart
<1>4. ok => \E m \in candidate + 1 .. 3 : TableOf(Last(codes)) = m
  <2> SUFFICES ASSUME ok PROVE \E m \in candidate + 1 .. 3 : TableOf(Last(codes)) = m
    OBVIOUS
  <2>1. codes = Walk(c, candidate + 1) /\ candidate + 1 \in 1 .. 4
    BY <1>2 DEF NextCandidate
  <2>2. PICK m \in candidate + 1 .. 3 : Last(codes) = PerfCodes[m]
    BY <2>1, WalkSends
  <2>3. m \in 1 .. 3
    BY <1>2
  <2> QED BY <2>2, <2>3, TableOfIs
<1> HIDE DEF ok, codes
<1>5. PollsLeft = 3 * (3 - candidate) + (3 - reads)
  BY <1>1, <1>2, PollsCounted
<1>6. PollsLeft' = IF candidate' = 0 THEN 0 ELSE 3 * (3 - candidate') + (3 - reads')
  <2>1. Len(PerfCodes) = 3
    BY CodesAre
  <2> QED BY <2>1 DEF PollsLeft
<1>7. CASE candidate' = 0
  BY <1>2, <1>5, <1>6, <1>7
<1>8. CASE reads' = 0 /\ ok /\ candidate' = TableOf(Last(codes))
  <2>1. candidate' > candidate /\ candidate' # 0
    BY <1>2, <1>4, <1>8
  <2> QED BY <1>2, <1>5, <1>6, <1>8, <2>1
<1>9. CASE reads' = reads + 1 /\ candidate' = candidate
  BY <1>2, <1>5, <1>6, <1>9
<1> QED BY <1>3, <1>7, <1>8, <1>9

\* A step that does not start a verification does not lengthen one.
LEMMA PollsKept ==
  ASSUME TypeOK, candidate' = 0 \/ UNCHANGED <<candidate, reads>>
  PROVE  PollsLeft' <= PollsLeft
<1>1. PollsLeft \in 0 .. 9
  BY PollsCounted DEF PollsBounded
<1>2. CASE candidate' = 0
  BY <1>1, <1>2 DEF PollsLeft
<1>3. CASE UNCHANGED <<candidate, reads>>
  <2>1. PollsLeft' = PollsLeft
    BY <1>3 DEF PollsLeft
  <2> QED BY <1>1, <2>1
<1> QED BY <1>2, <1>3

\* A verification takes at most nine polls however they go: the half of
\* VerificationEnds that needs no fairness (WinThermalHAL::pollPendingModeWrite).
THEOREM VerificationIsBounded == Spec => []PollsBounded /\ PollsOnlyFall
<1> DEFINE Falls == /\ (\E c \in Circumstances : PollTick(c)) => PollsLeft' < PollsLeft
                    /\ PollsLeft' > PollsLeft => target = "performance" /\ lastWritten # target
<1>1. IInv => PollsBounded
  BY PollsCounted DEF IInv
<1>2. IInv' => PollsBounded'
  BY <1>1, PTL
<1>3. IInv /\ [Next]_vars => [Falls]_vars
  <2> SUFFICES ASSUME IInv, IInv', Next PROVE Falls
    BY NextIInv
  <2>1. PollsLeft \in 0 .. 9 /\ PollsLeft' \in 0 .. 9
    BY <1>1, <1>2 DEF PollsBounded
  <2>2. (\E c \in Circumstances : PollTick(c)) => PollsLeft' < PollsLeft
    BY PollsFall
  <2>3. ASSUME NEW c \in Circumstances, WriteTick(c)
        PROVE  PollsLeft' <= PollsLeft \/ (target = "performance" /\ lastWritten # target)
    <3>1. target # lastWritten
      BY <2>3 DEF WriteTick
    <3>2. target # "performance" => candidate' = 0
      <4>1. Restart(IF target = "performance" /\ Ok(c, Last(Writes(c, target)))
                    THEN TableOf(Last(Writes(c, target))) ELSE 0)
        BY <2>3, SetModeDoes DEF WriteTick
      <4> QED BY <4>1 DEF Restart
    <3> QED BY <3>1, <3>2, PollsKept DEF IInv
  <2>4. ASSUME \/ IdleTick \/ Adopt \/ HalfSecond
               \/ \E code \in Codes : Foreign(code)
               \/ \E m \in Requests : Retarget(m) \/ Select(m)
        PROVE  PollsLeft' <= PollsLeft
    <3>1. CASE \E m \in Requests : Select(m)
      <4>1. candidate' = 0
        BY <3>1 DEF Select, CancelPendingModeWrite, Restart
      <4> QED BY <4>1, PollsKept DEF IInv
    <3>2. CASE \/ IdleTick \/ Adopt \/ HalfSecond \/ \E m \in Requests : Retarget(m)
               \/ \E code \in Codes : Foreign(code)
      <4>1. UNCHANGED <<candidate, reads>>
        BY <3>2 DEF IdleTick, Adopt, HalfSecond, Retarget, Foreign, probe
      <4> QED BY <4>1, PollsKept DEF IInv
    <3> QED BY <2>4, <3>1, <3>2
  <2>5. PollsLeft' <= PollsLeft \/ (target = "performance" /\ lastWritten # target)
    <3>1. CASE \E c \in Circumstances : PollTick(c)
      BY <2>1, <2>2, <3>1
    <3>2. CASE \E c \in Circumstances : WriteTick(c)
      BY <2>3, <3>2
    <3> QED BY <2>4, <3>1, <3>2 DEF Next, Tick
  <2>6. PollsLeft' <= PollsLeft => ~(PollsLeft' > PollsLeft)
    BY <2>1
  <2> QED BY <2>2, <2>5, <2>6
<1> QED BY <1>1, <1>3, Invariance, PTL DEF Spec, PollsOnlyFall

-----------------------------------------------------------------------------
\* The interface that the controller sees.

LEMMA RunningHasMode == ASSUME TypeOK PROVE ModeOf[running] \in Modes
BY DEF TypeOK, Modes

\* setMode writes what it was asked for and starts a verification of Performance, or
\* is refused and leaves no verification, and the profile or what it was asked for.
LEMMA WriteIsWrite ==
  ASSUME IInv, NEW c \in Circumstances, WriteTick(c)
  PROVE  Writer!Write
<1> DEFINE codes == Writes(c, target)
           ok    == Ok(c, Last(codes))
<1>1. TypeOK /\ TypeOK' /\ target \in Modes /\ UNCHANGED target
  BY WriteTickStep, RequestsAreModes DEF IInv, TypeOK, WriteTick
<1>2. codes \in Seq(Codes) /\ codes # <<>> /\ \A i \in DOMAIN codes : ModeOf[codes[i]] = target
  BY <1>1, WritesAreOfTheMode DEF Good
<1>3. ModeOf[Last(codes)] = target
  BY <1>2 DEF Last
<1>4. /\ Send(c, codes)
      /\ Restart(IF target = "performance" /\ ok THEN TableOf(Last(codes)) ELSE 0)
  <2>1. SetMode(c, target)
    BY DEF WriteTick
  <2> QED BY <2>1, SetModeDoes
<1>5. /\ ModeOf[running'] \in {ModeOf[running], target}
      /\ ok => running' = Last(codes)
  BY <1>2, <1>4, SendDoes
<1> HIDE DEF codes
<1>6. CASE ~ok
  <2>1. candidate' = 0
    BY <1>4, <1>6 DEF Restart
  <2>2. PollsLeft' = 0
    BY <2>1 DEF PollsLeft
  <2> QED BY <1>1, <1>5, <1>6, <2>2 DEF Writer!Write, Writer!Refused
<1>7. CASE ok /\ target # "performance"
  <2>1. candidate' = 0
    BY <1>4, <1>7 DEF Restart
  <2>2. PollsLeft' = 0
    BY <2>1 DEF PollsLeft
  <2> QED BY <1>1, <1>3, <1>5, <1>7, <2>2 DEF Writer!Write, Writer!Accepted
<1>8. CASE ok /\ target = "performance"
  <2>1. PICK m \in 1 .. 3 : Last(codes) = PerfCodes[m]
    BY <1>8, WalkSends DEF codes, Writes
  <2>2. candidate' = m /\ reads' = 0
    BY <1>4, <1>8, <2>1, TableOfIs DEF Restart
  <2>3. Len(PerfCodes) = 3
    BY CodesAre
  <2>4. PollsLeft' \in 1 .. 3 * Len(PerfCodes)
    BY <2>2, <2>3 DEF PollsLeft
  <2> QED BY <1>1, <1>3, <1>5, <1>8, <2>4 DEF Writer!Write, Writer!Accepted
<1> QED BY <1>6, <1>7, <1>8

\* A poll brings the end nearer and writes nothing but Performance.
LEMMA PollIsPoll ==
  ASSUME IInv, NEW c \in Circumstances, PollTick(c)
  PROVE  Writer!Poll
<1> DEFINE codes == NextCandidate(c)
<1>1. TypeOK /\ TypeOK' /\ target = "performance" /\ UNCHANGED target /\ candidate \in 1 .. 3
  BY PollTickStep, CodesAre DEF IInv, TypeOK, PollTick, PollDue
<1>2. PollsLeft \in 1 .. 9 /\ PollsLeft' \in 0 .. 9 /\ PollsLeft' < PollsLeft
  <2>1. PollsBounded /\ PollsLeft' < PollsLeft
    BY <1>1, PollsCounted, PollsFall
  <2>2. PollsLeft' \in 0 .. 9
    BY <1>1, PollsCountedNext DEF PollsBounded
  <2> QED BY <1>1, <2>1, <2>2 DEF PollsBounded
<1>3. \/ running' = running
      \/ Send(c, codes)
  <2>1. PollPendingModeWrite(c)
    BY DEF PollTick
  <2> QED BY <2>1, PollDoes
<1>4. Good(codes, "performance")
  <2>1. codes = Walk(c, candidate + 1) /\ candidate + 1 \in 1 .. 4
    BY <1>1 DEF NextCandidate
  <2> QED BY <2>1, WalkSends
<1> HIDE DEF codes
<1>6. ModeOf[running'] \in {ModeOf[running], "performance"}
  BY <1>3, <1>4, SendDoes DEF Good
<1>7. CASE PollsLeft' > 0
  BY <1>1, <1>2, <1>6, <1>7 DEF Writer!Poll, Writer!PollGoesOn
<1>8. CASE PollsLeft' = 0
  BY <1>1, <1>2, <1>6, <1>8 DEF Writer!Poll, Writer!PollEnds, Writer!Refused
<1> QED BY <1>2, <1>7, <1>8

\* WinThermalHAL with its tables, codes and lost calls does for the controller what the
\* interface says: Performance is accepted before it is retained, every poll brings the
\* end of the verification nearer, only a new write of Performance begins another, and
\* nothing is written for a mode no longer asked for.
THEOREM WriterPromiseKept == Spec => KeepsWriterPromise
<1>1. Init => Writer!Init
  <2> SUFFICES ASSUME Init PROVE Writer!Init
    OBVIOUS
  <2>1. TypeOK
    BY InitIInv DEF IInv
  <2>2. target \in Modes /\ PollsLeft = 0
    BY <2>1, RequestsAreModes DEF Init, TypeOK, PollsLeft
  <2> QED BY <2>1, <2>2, RunningHasMode DEF Writer!Init
<1>2. IInv /\ [Next]_vars => [Writer!Next]_(Writer!vars)
  <2> SUFFICES ASSUME IInv, [Next]_vars PROVE [Writer!Next]_(Writer!vars)
    OBVIOUS
  <2>1. TypeOK' /\ target' \in Modes /\ ModeOf[running'] \in Modes
    <3>1. TypeOK'
      BY NextIInv DEF IInv
    <3> QED BY <3>1, RequestsAreModes DEF TypeOK, Modes
  <2>2. UNCHANGED probe => UNCHANGED PollsLeft
    BY DEF probe, PollsLeft
  <2>3. ASSUME NEW c \in Circumstances, WriteTick(c) \/ PollTick(c) PROVE Writer!Next
    BY <2>3, WriteIsWrite, PollIsPoll DEF Writer!Next
  <2>4. CASE IdleTick \/ UNCHANGED vars
    BY <2>2, <2>4 DEF IdleTick, vars, Writer!vars
  <2>5. CASE Adopt \/ \E m \in Requests : Retarget(m)
    <3>1. UNCHANGED <<probe, running>>
      BY <2>5 DEF Adopt, Retarget
    <3> QED BY <2>1, <2>2, <3>1 DEF Writer!Next, Writer!Retarget
  <2>6. CASE \E m \in Requests : Select(m)
    <3>1. candidate' = 0 /\ UNCHANGED running
      BY <2>6 DEF Select, CancelPendingModeWrite, Restart
    <3>2. PollsLeft' = 0
      BY <3>1 DEF PollsLeft
    <3> QED BY <2>1, <3>1, <3>2 DEF Writer!Next, Writer!Cancel, Writer!Cancelled
  <2>7. CASE HalfSecond
    <3>1. UNCHANGED <<target, candidate, reads>>
      BY <2>7 DEF HalfSecond
    <3>2. UNCHANGED PollsLeft
      BY <3>1 DEF PollsLeft
    <3> QED BY <2>1, <3>1, <3>2 DEF Writer!Next, Writer!Outside
  <2>8. CASE \E code \in Codes : Foreign(code)
    <3>1. UNCHANGED <<target, candidate, reads>>
      BY <2>8 DEF Foreign
    <3>2. UNCHANGED PollsLeft
      BY <3>1 DEF PollsLeft
    <3> QED BY <2>1, <3>1, <3>2 DEF Writer!Next, Writer!Outside
  <2> QED BY <2>3, <2>4, <2>5, <2>6, <2>7, <2>8 DEF Next, Tick
<1> QED BY <1>1, <1>2, Invariance, PTL DEF Spec, KeepsWriterPromise, Writer!Spec
=============================================================================
