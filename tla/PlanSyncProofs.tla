--------------------------- MODULE PlanSyncProofs ---------------------------
(***************************************************************************)
(* Proofs about PlanSync, for every value of its constants.                 *)
(*                                                                          *)
(* The inductive invariant IInv adds to the checked invariants what their    *)
(* induction needs: no process carries a generation from the future, only    *)
(* /setactive is ever started for the user, the plan chip is empty in         *)
(* monitor mode, and -duplicatescheme is in flight only before the session    *)
(* knows a scheme it created.  Course adds where the newest intention stands:  *)
(* which plan is on its way for it, and that nothing in flight can undo it.    *)
(***************************************************************************)
EXTENDS PlanSync, TLAPS

GenerationsKnown == \A p \in procs : p.gen \leq generation
UserOnlySets     == \A p \in procs : p.owner = "user" => p.cmd = "setactive"
ChipEmpty        == passive => chip = NoPlan
MintsUnknown     == \A p \in procs : p.cmd = "duplicate" => minted = NoPlan
TargetsReal      == \A p \in procs : p.cmd = "setactive" => p.target # NoPlan

IInv == /\ TypeOK /\ GenerationsKnown /\ UserOnlySets
        /\ GateHeld /\ FreshIsWanted /\ WaitingIsLive
        /\ ChipEmpty /\ MintsUnknown /\ TargetsReal

-----------------------------------------------------------------------------
\* Processes as they are started are well typed.
LEMMA NewProcType ==
  ASSUME NEW o \in Owner, NEW c \in Cmd, NEW g \in Nat, NEW goal \in Goal,
         NEW t \in Plan \cup {NoPlan}, NEW ps \in SUBSET Plan
  PROVE  /\ NewProc(o, c, g, goal, t) \in Proc
         /\ [NewProc(o, c, g, goal, t) EXCEPT !.plans = ps] \in Proc
BY DEF NewProc, Proc

\* What NewProc fills in, and what a continuation overrides.
LEMMA NewProcFields ==
  ASSUME NEW o, NEW c, NEW g, NEW goal, NEW t, NEW ps
  PROVE  LET n == NewProc(o, c, g, goal, t)
             e == [n EXCEPT !.plans = ps]
         IN /\ n.owner = o /\ n.cmd = c /\ n.gen = g /\ n.goal = goal /\ n.target = t
            /\ n.state = "running"
            /\ n.out = {}
            /\ e.owner = o /\ e.cmd = c /\ e.gen = g /\ e.goal = goal /\ e.target = t
            /\ e.state = "running" /\ e.out = {}
BY DEF NewProc

\* The goal of a mode is a goal.
LEMMA GoalOfType == ASSUME NEW m PROVE GoalOf(m) \in {"high", "balanced", "report"}
BY DEF GoalOf

\* Exiting changes the state and the result of a process only.
LEMMA ExitedFields ==
  ASSUME NEW p \in Proc, NEW ok \in BOOLEAN, NEW out \in SUBSET Plan
  PROVE  LET e == Exited(p, ok, out)
         IN /\ e \in Proc
            /\ e.owner = p.owner /\ e.cmd = p.cmd /\ e.gen = p.gen /\ e.goal = p.goal
            /\ e.target = p.target /\ e.state = "exited"
BY DEF Exited, Proc

-----------------------------------------------------------------------------
\* How the delivery of a process ends.

\* The chain of p is over and the gate opens: no request waits that may run.
Ends(p) ==
  /\ p \in Chain /\ ~(queued /\ enabled /\ ~passive)
  /\ busy' = FALSE /\ queued' = queued /\ procs' = procs \ {p}

\* The chain of p is over and the waiting request takes the gate.
HandsOver(p) ==
  /\ p \in Chain /\ queued /\ enabled /\ ~passive
  /\ busy' = TRUE /\ queued' = FALSE
  /\ procs' = (procs \ {p}) \cup {SyncList(generation, wanted)}

\* The chain of p goes on with process n, for the newest generation only.
Continues(p, n) ==
  /\ p \in Chain /\ Fresh(p)
  /\ n.cmd # "list" /\ n.cmd # p.cmd
  /\ n.cmd = "getactive" => p.cmd = "list"
  /\ n.owner = p.owner /\ n.gen = p.gen /\ n.goal = p.goal
  /\ n.state = "running" /\ n.out = {}
  /\ n.cmd = "duplicate" => (minted = NoPlan /\ minted' = minted)
  /\ n.cmd = "setactive" => n.target # NoPlan
  /\ busy' = busy /\ queued' = queued
  /\ procs' = (procs \ {p}) \cup {n}

\* The process of a user's selection is over; nothing follows.
UserEnds(p) ==
  /\ p.owner = "user" /\ p.cmd = "setactive"
  /\ busy' = busy /\ queued' = queued /\ procs' = procs \ {p}
  /\ chip' = chip /\ minted' = minted

Outcome(p) == \/ Ends(p) \/ HandsOver(p) \/ UserEnds(p)
              \/ \E n \in Proc : Continues(p, n)

\* finishPlanChain has two outcomes.
LEMMA FinishOutcome ==
  ASSUME NEW p \in Chain, FinishPlanChain(p), TypeOK
  PROVE  Ends(p) \/ HandsOver(p)
<1>1. CASE queued /\ enabled /\ ~passive
  BY <1>1 DEF FinishPlanChain, HandsOver, TypeOK
<1>2. CASE ~(queued /\ enabled /\ ~passive)
  BY <1>2 DEF FinishPlanChain, Ends, TypeOK
<1> QED BY <1>1, <1>2

\* A continuation of a fresh process is a process of the same chain.
LEMMA ContinueOutcome ==
  ASSUME NEW p \in Chain, TypeOK, Fresh(p), NEW cmd \in Cmd,
         NEW t \in Plan \cup {NoPlan}, NEW ps \in SUBSET Plan,
         Continue(p, cmd, t, ps),
         cmd = "duplicate" => (minted = NoPlan /\ minted' = minted),
         cmd = "setactive" => t # NoPlan,
         cmd # "list", cmd # p.cmd, cmd = "getactive" => p.cmd = "list"
  PROVE  \E n \in Proc : Continues(p, n)
<1> DEFINE n == [NewProc(p.owner, cmd, p.gen, p.goal, t) EXCEPT !.plans = ps]
<1>1. p.owner \in Owner /\ p.gen \in Nat /\ p.goal \in Goal
  BY DEF TypeOK, Chain, Proc
<1>2. n \in Proc
  BY <1>1, NewProcType
<1>3. n.owner = p.owner /\ n.cmd = cmd /\ n.gen = p.gen /\ n.goal = p.goal
      /\ n.target = t /\ n.state = "running" /\ n.out = {}
  BY NewProcFields
<1>4. procs' = (procs \ {p}) \cup {n} /\ busy' = busy /\ queued' = queued
  BY DEF Continue
<1> HIDE DEF n
<1> QED BY <1>2, <1>3, <1>4 DEF Continues

\* activate: issue /setactive, or end the chain.
LEMMA ActivateOutcome ==
  ASSUME NEW p \in Chain, TypeOK, NEW plan \in Plan \cup {NoPlan}, Activate(p, plan),
         p.cmd # "setactive"
  PROVE  Outcome(p)
<1>1. CASE Fresh(p) /\ Applicable(plan)
  <2>1. Continue(p, "setactive", plan, {}) /\ plan # NoPlan
    BY <1>1 DEF Activate, Applicable
  <2> QED BY <1>1, <2>1, ContinueOutcome DEF Outcome, Cmd
<1>2. CASE ~(Fresh(p) /\ Applicable(plan))
  BY <1>2, FinishOutcome DEF Activate, Outcome
<1> QED BY <1>1, <1>2

\* What a delivery does: one of the outcomes, with the chip and the created
\* scheme well typed; only a fresh chain shows a plan on the chip, and only a
\* delivered -duplicatescheme changes the created scheme.
LEMMA DeliverOutcome ==
  ASSUME IInv, NEW p \in procs, Deliver(p)
  PROVE  /\ Outcome(p)
         /\ chip' \in Plan \cup {NoPlan} /\ minted' \in Plan \cup {NoPlan}
         /\ chip' = chip \/ (p \in Chain /\ Fresh(p))
         /\ minted' = minted \/ p.cmd = "duplicate"
<1> USE DEF IInv
<1>1. p \in Proc /\ chip \in Plan \cup {NoPlan} /\ minted \in Plan \cup {NoPlan}
  BY DEF TypeOK
<1>2. p.cmd \in Cmd /\ p.out \subseteq Plan /\ p.plans \subseteq Plan
      /\ p.target \in Plan \cup {NoPlan}
  BY <1>1 DEF Proc
<1>3. CASE DeliverList(p)
  <2>1. p \in Chain /\ p.cmd = "list" /\ chip' = chip /\ minted' = minted
    BY <1>3 DEF DeliverList, UserOnlySets, Chain
  <2>2. CASE DeliverListEnds(p)
    BY <1>1, <2>1, <2>2, FinishOutcome DEF DeliverListEnds, Outcome
  <2>3. CASE DeliverListReport(p)
    BY <1>1, <1>2, <2>1, <2>3, ContinueOutcome DEF DeliverListReport, Outcome, Cmd
  <2>4. CASE DeliverListFound(p)
    <3>1. PICK t \in Plan : Continue(p, "getactive", t, {})
      BY <1>2, <2>4 DEF DeliverListFound
    <3>2. Fresh(p)
      BY <2>4 DEF DeliverListFound
    <3> QED BY <1>1, <2>1, <3>1, <3>2, ContinueOutcome DEF Outcome, Cmd
  <2>5. CASE DeliverListMissing(p)
    <3>1. Fresh(p) BY <2>5 DEF DeliverListMissing
    <3>2. CASE p.goal = "balanced"
      BY <1>1, <2>1, <2>5, <3>2, FinishOutcome DEF DeliverListMissing, Outcome
    <3>3. CASE p.goal # "balanced" /\ MustMint(p)
      <4>1. Continue(p, "duplicate", NoPlan, {}) /\ minted = NoPlan
        BY <2>5, <3>3 DEF DeliverListMissing, MustMint
      <4> QED BY <1>1, <2>1, <3>1, <4>1, ContinueOutcome DEF Outcome, Cmd
    <3>4. CASE p.goal # "balanced" /\ ~MustMint(p)
      BY <1>1, <2>1, <2>5, <3>4, ActivateOutcome DEF DeliverListMissing
    <3> QED BY <3>2, <3>3, <3>4
  <2> QED BY <1>1, <1>3, <2>1, <2>2, <2>3, <2>4, <2>5 DEF DeliverList
<1>4. CASE DeliverGetActive(p)
  <2>1. p \in Chain /\ p.cmd = "getactive" /\ minted' = minted
    BY <1>4 DEF DeliverGetActive, UserOnlySets, Chain
  <2>2. chip' \in Plan \cup {NoPlan} /\ (chip' = chip \/ Fresh(p))
    BY <1>1, <1>2, <1>4 DEF DeliverGetActive
  <2>3. FinishPlanChain(p) \/ Activate(p, p.target)
    BY <1>4 DEF DeliverGetActive
  <2>4. Outcome(p)
    BY <1>2, <2>1, <2>3, FinishOutcome, ActivateOutcome DEF Outcome
  <2> QED BY <1>1, <2>1, <2>2, <2>4
<1>5. CASE DeliverDuplicate(p)
  <2>1. p \in Chain /\ chip' = chip /\ p.cmd = "duplicate"
    BY <1>5 DEF DeliverDuplicate, UserOnlySets, Chain
  <2>2. CASE p.ok /\ p.out # {}
    <3>1. PICK c \in Plan : minted' = c /\ Activate(p, c)
      BY <1>2, <1>5, <2>2 DEF DeliverDuplicate
    <3> QED BY <1>1, <2>1, <3>1, ActivateOutcome
  <2>3. CASE ~(p.ok /\ p.out # {})
    <3>1. minted' = minted /\ FinishPlanChain(p)
      BY <1>5, <2>3 DEF DeliverDuplicate
    <3> QED BY <1>1, <2>1, <3>1, FinishOutcome DEF Outcome
  <2> QED BY <2>2, <2>3
<1>6. CASE DeliverSetActive(p)
  <2>1. p.cmd = "setactive" /\ minted' = minted
    BY <1>6 DEF DeliverSetActive
  <2>2. CASE p.owner = "user"
    <3>1. UserEnds(p)
      BY <1>6, <2>1, <2>2 DEF DeliverSetActive, UserEnds
    <3> QED BY <1>1, <2>1, <3>1 DEF Outcome, UserEnds
  <2>3. CASE p.owner # "user"
    <3>1. p \in Chain /\ FinishPlanChain(p)
          /\ chip' = IF p.ok /\ Fresh(p) THEN p.target ELSE chip
      BY <1>6, <2>3 DEF DeliverSetActive, Chain
    <3> QED BY <1>1, <1>2, <2>1, <3>1, FinishOutcome DEF Outcome
  <2> QED BY <2>2, <2>3
<1> QED BY <1>3, <1>4, <1>5, <1>6 DEF Deliver

-----------------------------------------------------------------------------
\* The invariant, action by action.

\* Nothing runs initially.
LEMMA InitIInv == Init => IInv
<1> SUFFICES ASSUME Init PROVE IInv OBVIOUS
<1>1. TypeOK
  BY ModeAssumption, PlanAssumption DEF Init, TypeOK
<1>2. GenerationsKnown /\ UserOnlySets /\ FreshIsWanted /\ MintsUnknown
      /\ TargetsReal
  BY DEF Init, GenerationsKnown, UserOnlySets, FreshIsWanted, MintsUnknown, TargetsReal, Chain
<1>3. GateHeld /\ WaitingIsLive /\ ChipEmpty
  BY DEF Init, GateHeld, WaitingIsLive, ChipEmpty, Chain
<1> QED BY <1>1, <1>2, <1>3 DEF IInv

\* The gate b is consistent with the processes ps of a handler in progress:
\* every process is typed and of the present or an older generation, and the gate
\* is taken exactly while one chain process is in flight.
Consistent(b, ps) ==
  /\ b \in BOOLEAN /\ ps \subseteq Proc
  /\ \A p \in ps : /\ p.gen \leq generation
                   /\ p.owner = "user" => p.cmd = "setactive"
                   /\ p.cmd = "duplicate" => minted = NoPlan
                   /\ p.cmd = "setactive" => p.target # NoPlan
  /\ b <=> \E p \in ps : p.owner # "user"
  /\ \A p, q \in ps : p.owner # "user" /\ q.owner # "user" => p = q

LEMMA ConsistentNow == IInv => Consistent(busy, procs)
BY DEF IInv, TypeOK, GenerationsKnown, UserOnlySets, GateHeld, Chain, MintsUnknown, TargetsReal, Consistent

\* A name refresh keeps the gate consistent.
LEMMA RefreshConsistent ==
  ASSUME IInv, ~busy
  PROVE  Consistent(TRUE, procs \cup {NameList(generation)})
<1> DEFINE n == NameList(generation)
<1>1. n \in Proc
  BY NewProcType DEF NameList, IInv, TypeOK, Owner, Cmd, Goal
<1>2. n.owner = "name" /\ n.cmd = "list" /\ n.gen = generation
  BY NewProcFields DEF NameList
<1> HIDE DEF n
<1>3. \A p \in procs : p.owner = "user"
  BY DEF IInv, GateHeld, Chain
<1> DEFINE ps == procs \cup {n}
<1>4. ps \subseteq Proc /\ \A p \in ps : p.gen \leq generation
  BY <1>1, <1>2 DEF IInv, TypeOK, GenerationsKnown
<1>5. \A p \in ps : p.owner # "user" <=> p = n
  BY <1>2, <1>3
<1>6. \A p \in ps : /\ p.owner = "user" => p.cmd = "setactive"
                    /\ p.cmd = "duplicate" => minted = NoPlan
                    /\ p.cmd = "setactive" => p.target # NoPlan
  BY <1>2 DEF IInv, UserOnlySets, MintsUnknown, TargetsReal
<1>7. \E p \in ps : p.owner # "user"
  BY <1>5
<1>8. \A p, q \in ps : p.owner # "user" /\ q.owner # "user" => p = q
  BY <1>5
<1> HIDE DEF ps
<1>9. Consistent(TRUE, ps)
  BY <1>4, <1>6, <1>7, <1>8 DEF Consistent
<1> QED BY <1>9 DEF ps, n

\* The part of the invariant that looks at processes follows from a consistent
\* gate when no chain process is fresh, nothing waits, and no scheme is forgotten.
LEMMA VoidStep ==
  ASSUME IInv, TypeOK', Consistent(busy, procs), generation' = generation + 1,
         queued' = FALSE, minted' = minted, busy' = busy, procs' = procs, ChipEmpty'
  PROVE  IInv'
<1>1. generation \in Nat /\ \A p \in procs : p.gen \in Nat
  BY DEF IInv, TypeOK, Proc
<1>2. GenerationsKnown' /\ UserOnlySets' /\ GateHeld' /\ MintsUnknown' /\ TargetsReal'
  BY <1>1 DEF Consistent, GenerationsKnown, UserOnlySets, GateHeld, MintsUnknown, TargetsReal, Chain
<1>3. FreshIsWanted' /\ WaitingIsLive'
  BY <1>1 DEF Consistent, FreshIsWanted, WaitingIsLive, Fresh, Chain
<1> QED BY <1>2, <1>3 DEF IInv

\* A request, made where the gate is b and the processes are ps.
LEMMA RequestStep ==
  ASSUME IInv, NEW m \in Mode, NEW b, NEW ps, Consistent(b, ps), HandlePlanSync(m, b, ps),
         enabled' \in BOOLEAN, passive' = passive, minted' = minted, chip' = chip,
         nameTick' \in Nat, installed' = installed, active' = active, faults' = faults
  PROVE  IInv'
<1> DEFINE g == generation + 1
           n == SyncList(g, m)
<1>1. g \in Nat /\ generation' = g /\ wanted' = m /\ \A p \in ps : p.gen \in Nat /\ p.gen < g
  BY DEF HandlePlanSync, IInv, TypeOK, Consistent, Proc
<1>2. n \in Proc
  BY <1>1, NewProcType, GoalOfType DEF SyncList, Owner, Cmd, Goal
<1>3. n.owner = "sync" /\ n.cmd = "list" /\ n.gen = g /\ n.goal = GoalOf(m)
  BY NewProcFields DEF SyncList
<1>4. promised' \subseteq Plan /\ rivals' \subseteq Owner
  BY DEF HandlePlanSync, Accepted, GoalOf, IInv, TypeOK, Plan, Owner
<1> HIDE DEF n
<1>5. CASE enabled' /\ ~passive' /\ ~b
  <2>1. procs' = ps \cup {n} /\ queued' = FALSE /\ busy' = TRUE
    BY <1>5 DEF HandlePlanSync, n
  <2>2. \A p \in ps : p.owner = "user"
    BY <1>5 DEF Consistent
  <2>3. TypeOK'
    BY <1>1, <1>2, <1>4, <2>1 DEF IInv, TypeOK, Consistent
  <2>4. GenerationsKnown' /\ UserOnlySets' /\ GateHeld' /\ MintsUnknown' /\ TargetsReal'
    BY <1>1, <1>3, <2>1, <2>2 DEF Consistent, GenerationsKnown, UserOnlySets, GateHeld,
                                  MintsUnknown, TargetsReal, Chain
  <2>5. FreshIsWanted' /\ WaitingIsLive' /\ ChipEmpty'
    BY <1>1, <1>3, <1>5, <2>1, <2>2 DEF FreshIsWanted, WaitingIsLive, ChipEmpty, Fresh, Chain,
                                        GoalOf
  <2> QED BY <2>3, <2>4, <2>5 DEF IInv
<1>6. CASE ~(enabled' /\ ~passive' /\ ~b)
  <2>1. /\ procs' = ps /\ busy' = b
        /\ queued' \in BOOLEAN
        /\ queued' => b /\ enabled' /\ ~passive'
    BY <1>6 DEF HandlePlanSync, Consistent
  <2>2. TypeOK'
    BY <1>1, <1>4, <2>1 DEF IInv, TypeOK, Consistent
  <2>3. GenerationsKnown' /\ UserOnlySets' /\ GateHeld' /\ MintsUnknown' /\ TargetsReal'
    BY <1>1, <2>1 DEF Consistent, GenerationsKnown, UserOnlySets, GateHeld, MintsUnknown, TargetsReal, Chain
  <2>4. FreshIsWanted' /\ WaitingIsLive' /\ ChipEmpty'
    BY <1>1, <2>1 DEF FreshIsWanted, WaitingIsLive, ChipEmpty, Fresh, Chain, IInv
  <2> QED BY <2>2, <2>3, <2>4 DEF IInv
<1> QED BY <1>5, <1>6

LEMMA TickStep ==
  ASSUME IInv, NEW m \in Mode \cup {NoMode}, Tick(m)
  PROVE  IInv'
<1> DEFINE busyR  == busy \/ RefreshDue
           procsR == IF RefreshDue THEN procs \cup {NameList(generation)} ELSE procs
<1>1. nameTick' \in Nat
  BY BoundAssumption DEF Tick, IInv, TypeOK
<1>2. busyR \in BOOLEAN /\ Consistent(busyR, procsR)
  <2>1. CASE RefreshDue
    <3>1. ~busy /\ busyR = TRUE /\ procsR = procs \cup {NameList(generation)}
      BY <2>1 DEF RefreshDue
    <3> QED BY <3>1, RefreshConsistent
  <2>2. CASE ~RefreshDue
    BY <2>2, ConsistentNow DEF IInv, TypeOK
  <2> QED BY <2>1, <2>2
<1>3. CASE m # NoMode
  <2>1. HandlePlanSync(m, busyR, procsR)
    BY <1>3 DEF Tick
  <2> HIDE DEF busyR, procsR
  <2> QED BY <1>1, <1>2, <1>3, <2>1, RequestStep DEF Tick, IInv, TypeOK, windows
<1>4. CASE m = NoMode
  <2>1. /\ busy' = busyR /\ procs' = procsR
        /\ UNCHANGED <<enabled, passive, generation, wanted, queued, minted, chip,
                       windows, faults, promised, rivals>>
    BY <1>4 DEF Tick
  <2>2. \A p \in procsR \ procs : p.owner = "name" /\ ~passive
    BY NewProcFields DEF NameList, RefreshDue
  <2> HIDE DEF busyR, procsR
  <2>3. TypeOK'
    BY <1>1, <1>2, <2>1 DEF Consistent, IInv, TypeOK, windows
  <2>4. GenerationsKnown' /\ UserOnlySets' /\ MintsUnknown' /\ TargetsReal'
    BY <1>2, <2>1 DEF Consistent, GenerationsKnown, UserOnlySets, MintsUnknown, TargetsReal
  <2>5. GateHeld'
    BY <1>2, <2>1 DEF Consistent, GateHeld, Chain
  <2>6. FreshIsWanted'
    BY <2>1, <2>2 DEF IInv, FreshIsWanted, Fresh, Chain
  <2>7. WaitingIsLive' /\ ChipEmpty'
    BY <2>1 DEF IInv, WaitingIsLive, ChipEmpty, busyR
  <2> QED BY <2>3, <2>4, <2>5, <2>6, <2>7 DEF IInv
<1> QED BY <1>3, <1>4

\* The entry points that only void what was requested.
LEMMA CancelStep ==
  ASSUME IInv,
         \/ ForceNextModeWrite
         \/ ReloadFromConfig
         \/ \E on \in BOOLEAN : SetPassive(on)
  PROVE  IInv'
<1>1. /\ generation' = generation + 1 /\ queued' = FALSE
      /\ busy' = busy /\ procs' = procs /\ minted' = minted
  BY DEF ForceNextModeWrite, ReloadFromConfig, SetPassive, Invalidate
<1>2. TypeOK'
  <2>1. generation' \in Nat /\ queued' \in BOOLEAN /\ busy' \in BOOLEAN
    <3>1. generation' \in Nat
      BY <1>1 DEF IInv, TypeOK
    <3>2. queued' \in BOOLEAN /\ busy' \in BOOLEAN
      BY <1>1, Zenon DEF IInv, TypeOK
    <3> QED BY <3>1, <3>2
  <2>2. CASE ForceNextModeWrite
    BY <1>1, <2>1, <2>2 DEF ForceNextModeWrite, IInv, TypeOK, control, windows
  <2>3. CASE ReloadFromConfig
    BY <1>1, <2>1, <2>3 DEF ReloadFromConfig, IInv, TypeOK, windows
  <2>4. ASSUME NEW on \in BOOLEAN, SetPassive(on) PROVE TypeOK'
    BY <1>1, <2>1, <2>4 DEF SetPassive, IInv, TypeOK, windows
  <2> QED BY <2>2, <2>3, <2>4
<1>3. ChipEmpty'
  BY DEF IInv, ChipEmpty, ForceNextModeWrite, ReloadFromConfig, SetPassive, control
<1> QED BY <1>1, <1>2, <1>3, VoidStep, ConsistentNow

LEMMA SetPowerPlanSyncEnabledStep ==
  ASSUME IInv, NEW on \in BOOLEAN, NEW m \in Mode, SetPowerPlanSyncEnabled(on, m)
  PROVE  IInv'
<1>1. CASE on /\ ~passive
  <2>1. HandlePlanSync(m, busy, procs)
    BY <1>1 DEF SetPowerPlanSyncEnabled
  <2> QED BY <2>1, RequestStep, ConsistentNow DEF SetPowerPlanSyncEnabled, IInv, TypeOK, windows
<1>2. CASE ~(on /\ ~passive)
  <2>1. /\ generation' = generation + 1 /\ queued' = FALSE
        /\ busy' = busy /\ procs' = procs /\ minted' = minted
    BY <1>2 DEF SetPowerPlanSyncEnabled, Invalidate
  <2>2. generation' \in Nat /\ queued' \in BOOLEAN /\ busy' \in BOOLEAN
    <3>1. generation' \in Nat
      BY <2>1 DEF IInv, TypeOK
    <3>2. queued' \in BOOLEAN /\ busy' \in BOOLEAN
      BY <2>1, Zenon DEF IInv, TypeOK
    <3> QED BY <3>1, <3>2
  <2>3. TypeOK' /\ ChipEmpty'
    BY <1>2, <2>1, <2>2 DEF SetPowerPlanSyncEnabled, IInv, TypeOK, ChipEmpty, windows
  <2> QED BY <2>1, <2>3, VoidStep, ConsistentNow
<1> QED BY <1>1, <1>2

LEMMA SetActivePlanStep ==
  ASSUME IInv, NEW plan \in installed \cup {NoPlan}, SetActivePlan(plan)
  PROVE  IInv'
<1> DEFINE g == generation + 1
           n == NewProc("user", "setactive", g, "none", plan)
<1>1. g \in Nat /\ \A p \in procs : p.gen \in Nat /\ p.gen < g
  BY DEF IInv, TypeOK, Proc, GenerationsKnown
<1>2. /\ generation' = g /\ queued' = FALSE
      /\ UNCHANGED <<enabled, passive, wanted, busy, minted, chip, nameTick,
                     installed, active, faults>>
  BY DEF SetActivePlan, Invalidate, control, windows
<1>3. queued' \in BOOLEAN
  BY <1>2, Zenon
<1>4. CASE Applicable(plan)
  <2>1. plan \in Plan /\ plan # NoPlan
    BY <1>4 DEF Applicable, IInv, TypeOK
  <2>2. n \in Proc
    BY <1>1, <2>1, NewProcType DEF Owner, Cmd, Goal
  <2>3. n.owner = "user" /\ n.cmd = "setactive" /\ n.gen = g /\ n.target = plan
    BY NewProcFields
  <2>4. procs' = procs \cup {n} /\ promised' = {plan} /\ rivals' = SetActiveOwners
    BY <1>4 DEF SetActivePlan
  <2> HIDE DEF n
  <2>5. rivals' \subseteq Owner
    BY <2>4 DEF SetActiveOwners, IInv, TypeOK, Proc
  <2>6. TypeOK'
    BY <1>1, <1>2, <1>3, <2>1, <2>2, <2>4, <2>5 DEF IInv, TypeOK
  <2>7. GenerationsKnown' /\ UserOnlySets' /\ MintsUnknown' /\ TargetsReal'
    BY <1>1, <1>2, <2>1, <2>3, <2>4
       DEF IInv, GenerationsKnown, UserOnlySets, MintsUnknown, TargetsReal
  <2>8. Chain' = Chain
    BY <2>3, <2>4 DEF Chain
  <2>9. GateHeld' /\ FreshIsWanted' /\ WaitingIsLive' /\ ChipEmpty'
    BY <1>1, <1>2, <2>8 DEF IInv, GateHeld, FreshIsWanted, WaitingIsLive, ChipEmpty, Fresh, Chain
  <2> QED BY <2>6, <2>7, <2>9 DEF IInv
<1>5. CASE ~Applicable(plan)
  <2>1. procs' = procs /\ promised' = {} /\ rivals' = {}
    BY <1>5 DEF SetActivePlan
  <2>2. TypeOK'
    BY <1>1, <1>2, <1>3, <2>1 DEF IInv, TypeOK
  <2>3. ChipEmpty'
    BY <1>2 DEF IInv, ChipEmpty
  <2> QED BY <1>2, <2>1, <2>2, <2>3, VoidStep, ConsistentNow
<1> QED BY <1>4, <1>5

\* Windows executes or loses a process: only its state and result change.
LEMMA ExitStep ==
  ASSUME IInv, NEW p \in procs, NEW ok \in BOOLEAN, NEW out \in SUBSET Plan,
         procs' = (procs \ {p}) \cup {Exited(p, ok, out)},
         installed' \subseteq Plan, active' \in Plan,
         faults' \in Nat, promised' \subseteq Plan, rivals' \subseteq Owner,
         UNCHANGED <<control, generation, wanted, queued, busy, minted, chip, nameTick>>
  PROVE  IInv'
<1> DEFINE e == Exited(p, ok, out)
<1>1. /\ p \in Proc /\ e \in Proc
      /\ e.owner = p.owner /\ e.cmd = p.cmd /\ e.gen = p.gen /\ e.goal = p.goal
      /\ e.target = p.target
  BY ExitedFields DEF IInv, TypeOK
<1> HIDE DEF e
<1>2. procs' = (procs \ {p}) \cup {e}
  BY DEF e
<1>3. TypeOK'
  BY <1>1, <1>2 DEF IInv, TypeOK, control
<1>4. GenerationsKnown' /\ UserOnlySets' /\ MintsUnknown' /\ TargetsReal'
  BY <1>1, <1>2 DEF IInv, GenerationsKnown, UserOnlySets, MintsUnknown, TargetsReal
<1>5. GateHeld'
  BY <1>1, <1>2 DEF IInv, GateHeld, Chain
<1>6. FreshIsWanted' /\ WaitingIsLive' /\ ChipEmpty'
  BY <1>1, <1>2 DEF IInv, FreshIsWanted, WaitingIsLive, ChipEmpty, Fresh, Chain, control
<1> QED BY <1>3, <1>4, <1>5, <1>6 DEF IInv

\* Every effect leaves Windows with known plans.
LEMMA EffectType ==
  ASSUME IInv, NEW p \in procs, NEW out, Effect(p, out)
  PROVE  installed' \subseteq Plan /\ active' \in Plan /\ out \subseteq Plan
<1>1. p.cmd \in Cmd /\ p.target \in Plan \cup {NoPlan}
  BY DEF IInv, TypeOK, Proc
<1>2. installed \subseteq Plan /\ active \in Plan
  BY DEF IInv, TypeOK
<1>3. CASE p.cmd = "list"      BY <1>2, <1>3 DEF Effect, windows
<1>4. CASE p.cmd = "getactive" BY <1>2, <1>4 DEF Effect, windows
<1>5. CASE p.cmd = "duplicate" BY <1>2, <1>5 DEF Effect, Plan
<1>6. CASE p.cmd = "setactive" BY <1>1, <1>2, <1>6 DEF Effect, IInv, TargetsReal
<1> QED BY <1>1, <1>3, <1>4, <1>5, <1>6 DEF Cmd

LEMMA ExecuteStep ==
  ASSUME IInv, NEW p \in procs, Execute(p)
  PROVE  IInv'
<1>1. PICK out : Effect(p, out) /\ procs' = (procs \ {p}) \cup {Exited(p, TRUE, out)}
  BY DEF Execute
<1>2. installed' \subseteq Plan /\ active' \in Plan /\ out \subseteq Plan
  BY <1>1, EffectType
<1>3. faults' \in Nat /\ promised' \subseteq Plan /\ rivals' \subseteq Owner
  BY DEF Execute, history, IInv, TypeOK
<1> QED BY <1>1, <1>2, <1>3, ExitStep DEF Execute

LEMMA FailStep ==
  ASSUME IInv, NEW p \in procs, Fail(p)
  PROVE  IInv'
<1>1. PICK ok \in BOOLEAN : procs' = (procs \ {p}) \cup {Exited(p, ok, {})}
  BY DEF Fail
<1>2. installed' \subseteq Plan /\ active' \in Plan
  <2>1. CASE UNCHANGED windows
    BY <2>1 DEF windows, IInv, TypeOK
  <2>2. CASE \E out : Effect(p, out)
    BY <2>2, EffectType
  <2> QED BY <2>1, <2>2 DEF Fail
<1>3. faults' \in Nat /\ promised' \subseteq Plan /\ rivals' \subseteq Owner
  BY DEF Fail, IInv, TypeOK
<1> QED BY <1>1, <1>2, <1>3, ExitStep DEF Fail

LEMMA ExternalSwitchStep ==
  ASSUME IInv, NEW plan \in Plan, ExternalSwitch(plan)
  PROVE  IInv'
<1>1. /\ UNCHANGED <<enabled, passive, generation, wanted, queued, busy, minted, chip,
                     nameTick, procs, installed>>
      /\ active' = plan /\ faults' = faults + 1 /\ promised' = {} /\ rivals' = {}
  BY DEF ExternalSwitch, control
<1>2. TypeOK'
  BY <1>1 DEF IInv, TypeOK
<1>3. /\ GenerationsKnown' /\ UserOnlySets' /\ MintsUnknown' /\ TargetsReal'
      /\ GateHeld' /\ FreshIsWanted' /\ WaitingIsLive' /\ ChipEmpty'
  BY <1>1 DEF IInv, GenerationsKnown, UserOnlySets, MintsUnknown, TargetsReal, GateHeld,
              FreshIsWanted, WaitingIsLive, ChipEmpty, Fresh, Chain
<1> QED BY <1>2, <1>3 DEF IInv

LEMMA DeliverStep ==
  ASSUME IInv, NEW p \in procs, Deliver(p)
  PROVE  IInv'
<1>1. UNCHANGED <<enabled, passive, generation, wanted, nameTick, installed, active,
                 faults, promised, rivals>>
  BY DEF Deliver, control, windows, history
<1>2. /\ Outcome(p)
      /\ chip' \in Plan \cup {NoPlan} /\ minted' \in Plan \cup {NoPlan}
      /\ chip' = chip \/ (p \in Chain /\ Fresh(p))
      /\ minted' = minted \/ p.cmd = "duplicate"
  BY DeliverOutcome
<1>3. ChipEmpty'
  BY <1>1, <1>2 DEF IInv, ChipEmpty, FreshIsWanted
<1>4. p \in Proc /\ generation \in Nat
  BY DEF IInv, TypeOK
<1>5. p.cmd = "duplicate" => p \in Chain
  BY DEF IInv, UserOnlySets, Chain
<1>6. p \in Chain => \A q \in procs \ {p} : q.owner = "user" /\ q.cmd = "setactive"
  BY DEF IInv, GateHeld, UserOnlySets, Chain
<1>7. CASE Ends(p)
  <2>1. TypeOK'
    BY <1>1, <1>2, <1>7 DEF Ends, IInv, TypeOK
  <2>2. GenerationsKnown' /\ UserOnlySets' /\ MintsUnknown' /\ TargetsReal'
    BY <1>1, <1>6, <1>7 DEF Ends, IInv, GenerationsKnown, UserOnlySets, MintsUnknown, TargetsReal
  <2>3. GateHeld' /\ FreshIsWanted'
    BY <1>6, <1>7 DEF Ends, GateHeld, FreshIsWanted, Chain
  <2>4. WaitingIsLive'
    BY <1>1, <1>7 DEF Ends, IInv, WaitingIsLive
  <2> QED BY <1>3, <2>1, <2>2, <2>3, <2>4 DEF IInv
<1>8. CASE HandsOver(p)
  <2> DEFINE n == SyncList(generation, wanted)
  <2>1. n \in Proc
    BY <1>4, NewProcType, GoalOfType DEF SyncList, Owner, Cmd, Goal
  <2>2. /\ n.owner = "sync" /\ n.cmd = "list" /\ n.gen = generation
        /\ n.goal = GoalOf(wanted)
    BY NewProcFields DEF SyncList
  <2>3. procs' = (procs \ {p}) \cup {n} /\ busy' = TRUE /\ queued' = FALSE
        /\ enabled /\ ~passive /\ p \in Chain
    BY <1>8 DEF HandsOver
  <2> HIDE DEF n
  <2>4. TypeOK'
    BY <1>1, <1>2, <2>1, <2>3 DEF IInv, TypeOK
  <2>5. GenerationsKnown' /\ UserOnlySets' /\ MintsUnknown' /\ TargetsReal'
    BY <1>1, <1>4, <1>6, <2>2, <2>3 DEF IInv, GenerationsKnown, UserOnlySets, MintsUnknown,
                                   TargetsReal
  <2>6. GateHeld'
    BY <1>6, <2>2, <2>3 DEF GateHeld, Chain
  <2>7. FreshIsWanted' /\ WaitingIsLive'
    BY <1>1, <1>6, <2>2, <2>3 DEF FreshIsWanted, WaitingIsLive, Fresh, Chain, GoalOf
  <2> QED BY <1>3, <2>4, <2>5, <2>6, <2>7 DEF IInv
<1>9. CASE UserEnds(p)
  <2>1. TypeOK'
    BY <1>1, <1>2, <1>9 DEF UserEnds, IInv, TypeOK
  <2>2. GenerationsKnown' /\ UserOnlySets' /\ MintsUnknown' /\ TargetsReal'
    BY <1>1, <1>9 DEF UserEnds, IInv, GenerationsKnown, UserOnlySets, MintsUnknown, TargetsReal
  <2>3. Chain' = Chain
    BY <1>9 DEF UserEnds, Chain
  <2>4. GateHeld' /\ FreshIsWanted' /\ WaitingIsLive'
    BY <1>1, <1>9, <2>3 DEF UserEnds, IInv, GateHeld, FreshIsWanted, WaitingIsLive, Fresh
  <2> QED BY <1>3, <2>1, <2>2, <2>4 DEF IInv
<1>10. CASE \E n \in Proc : Continues(p, n)
  <2>1. PICK n \in Proc : Continues(p, n)
    BY <1>10
  <2>2. /\ p \in Chain /\ n.owner = p.owner /\ n.gen = p.gen /\ n.goal = p.goal
        /\ p.owner # "user" /\ Fresh(p)
        /\ procs' = (procs \ {p}) \cup {n} /\ busy' = busy /\ queued' = queued
    BY <2>1 DEF Continues, Chain
  <2>3. TypeOK'
    BY <1>1, <1>2, <2>2 DEF IInv, TypeOK
  <2>4. GenerationsKnown' /\ UserOnlySets' /\ TargetsReal'
    BY <1>1, <2>1, <2>2 DEF Continues, IInv, GenerationsKnown, UserOnlySets, TargetsReal
  <2>5. MintsUnknown'
    <3>1. \A q \in procs' : q.cmd = "duplicate" => q = n
      BY <1>6, <2>2
    <3>2. n.cmd = "duplicate" => minted' = NoPlan
      BY <2>1 DEF Continues
    <3> QED BY <3>1, <3>2 DEF MintsUnknown
  <2>6. GateHeld'
    BY <1>6, <2>2 DEF IInv, GateHeld, Chain
  <2>7. FreshIsWanted' /\ WaitingIsLive'
    BY <1>1, <1>6, <2>2 DEF IInv, FreshIsWanted, WaitingIsLive, Fresh, Chain
  <2> QED BY <1>3, <2>3, <2>4, <2>5, <2>6, <2>7 DEF IInv
<1> QED BY <1>2, <1>7, <1>8, <1>9, <1>10 DEF Outcome

\* Every step keeps the invariant.
LEMMA NextIInv == IInv /\ [Next]_vars => IInv'
<1> SUFFICES ASSUME IInv, [Next]_vars PROVE IInv' OBVIOUS
<1>1. CASE Ticking
  BY <1>1, TickStep DEF Ticking
<1>2. CASE ForceNextModeWrite \/ ReloadFromConfig \/ \E on \in BOOLEAN : SetPassive(on)
  BY <1>2, CancelStep
<1>3. CASE \E on \in BOOLEAN, m \in Mode : SetPowerPlanSyncEnabled(on, m)
  BY <1>3, SetPowerPlanSyncEnabledStep
<1>4. CASE \E plan \in installed \cup {NoPlan} : SetActivePlan(plan)
  BY <1>4, SetActivePlanStep
<1>5. CASE \E p \in procs : Execute(p)
  BY <1>5, ExecuteStep
<1>6. CASE \E p \in procs : Fail(p)
  BY <1>6, FailStep
<1>7. CASE \E plan \in Plan : ExternalSwitch(plan)
  BY <1>7, ExternalSwitchStep
<1>8. CASE \E p \in procs : Deliver(p)
  BY <1>8, DeliverStep
<1>9. CASE UNCHANGED vars
  BY <1>9 DEF vars, control, windows, history, IInv, TypeOK, GenerationsKnown, UserOnlySets,
              GateHeld, FreshIsWanted, WaitingIsLive, ChipEmpty, MintsUnknown, TargetsReal,
              Fresh, Chain
<1> QED BY <1>1, <1>2, <1>3, <1>4, <1>5, <1>6, <1>7, <1>8, <1>9 DEF Next

\* The inductive invariant holds in every reachable state.
THEOREM Invariance == Spec => []IInv
BY InitIInv, NextIInv, PTL DEF Spec

\* Every variable keeps its type.
THEOREM TypeCorrect == Spec => []TypeOK
<1>1. IInv => TypeOK BY DEF IInv
<1> QED BY <1>1, Invariance, PTL

\* The gate m_planBusy is taken exactly while one process of one chain is in
\* flight: it never leaks and never lets two chains interleave.
THEOREM GateIsHeld == Spec => []GateHeld
<1>1. IInv => GateHeld BY DEF IInv
<1> QED BY <1>1, Invariance, PTL

\* A continuation that passes its generation test serves the newest wanted mode,
\* with the sync enabled and outside monitor mode.
THEOREM FreshServesTheWanted == Spec => []FreshIsWanted
<1>1. IInv => FreshIsWanted BY DEF IInv
<1> QED BY <1>1, Invariance, PTL

\* A waiting request is one that somebody will pick up.
THEOREM WaitingIsServed == Spec => []WaitingIsLive
<1>1. IInv => WaitingIsLive BY DEF IInv
<1> QED BY <1>1, Invariance, PTL

-----------------------------------------------------------------------------
\* Monitor mode and minting.

\* In monitor mode a step starts no process.
LEMMA SilentStep ==
  ASSUME IInv, Next, passive, passive'
  PROVE  \A p \in procs' \ procs : p.state = "exited"
<1>1. CASE Ticking
  <2>1. PICK m \in Mode \cup {NoMode} : Tick(m)
    BY <1>1 DEF Ticking
  <2>2. procs' = procs
    BY <2>1 DEF Tick, RefreshDue
  <2> QED BY <2>2
<1>2. CASE \/ ForceNextModeWrite \/ ReloadFromConfig
           \/ \E on \in BOOLEAN : SetPassive(on)
           \/ \E on \in BOOLEAN, m \in Mode : SetPowerPlanSyncEnabled(on, m)
           \/ \E plan \in Plan : ExternalSwitch(plan)
  <2>1. procs' = procs
    BY <1>2 DEF ForceNextModeWrite, ReloadFromConfig, SetPassive, SetPowerPlanSyncEnabled,
                ExternalSwitch
  <2> QED BY <2>1
<1>3. CASE \E plan \in installed \cup {NoPlan} : SetActivePlan(plan)
  <2>1. procs' = procs
    BY <1>3 DEF SetActivePlan, Applicable
  <2> QED BY <2>1
<1>4. ASSUME NEW p \in procs, Execute(p) \/ Fail(p)
      PROVE  \A q \in procs' \ procs : q.state = "exited"
  <2>1. p \in Proc
    BY DEF IInv, TypeOK
  <2>2. PICK ok, out : procs' = (procs \ {p}) \cup {Exited(p, ok, out)}
    BY <1>4 DEF Execute, Fail
  <2>3. Exited(p, ok, out).state = "exited"
    BY <2>1 DEF Exited, Proc
  <2> QED BY <2>2, <2>3
<1>5. ASSUME NEW p \in procs, Deliver(p)
      PROVE  \A q \in procs' \ procs : q.state = "exited"
  <2>1. Outcome(p)
    BY <1>5, DeliverOutcome
  <2>2. ~HandsOver(p) /\ \A n \in Proc : ~Continues(p, n)
    BY DEF HandsOver, Continues, IInv, FreshIsWanted
  <2>3. procs' = procs \ {p}
    BY <2>1, <2>2 DEF Outcome, Ends, UserEnds
  <2> QED BY <2>3
<1> QED BY <1>1, <1>2, <1>3, <1>4, <1>5 DEF Next

\* Monitor mode issues nothing: once in it no powercfg process is started, and
\* the plan chip is empty, whatever was in flight when it began.
THEOREM MonitorStaysSilent == Spec => MonitorIsSilent
<1> DEFINE Silent == passive' => /\ chip' = NoPlan
                                 /\ passive => \A p \in procs' \ procs : p.state = "exited"
<1>1. IInv /\ IInv' /\ [Next]_vars => [Silent]_vars
  <2> SUFFICES ASSUME IInv, IInv', Next PROVE Silent OBVIOUS
  <2> QED BY SilentStep DEF IInv, ChipEmpty
<1> QED BY <1>1, Invariance, PTL DEF Spec, MonitorIsSilent

\* While the session knows a scheme it created, a step forgets nothing and
\* starts no -duplicatescheme.
LEMMA MintStep ==
  ASSUME IInv, IInv', Next, minted # NoPlan
  PROVE  minted' = minted /\ \A p \in procs' : p.cmd = "duplicate" => p \in procs
<1>1. \A p \in procs : p.cmd # "duplicate"
  BY DEF IInv, MintsUnknown
<1>2. minted' = minted
  <2>1. ASSUME NEW p \in procs, Deliver(p) PROVE minted' = minted
    BY <1>1, <2>1, DeliverOutcome
  <2> QED BY <2>1 DEF Next, Ticking, Tick, ForceNextModeWrite, SetPassive, ReloadFromConfig,
                      SetPowerPlanSyncEnabled, SetActivePlan, Execute, Fail, ExternalSwitch
<1> QED BY <1>2 DEF IInv, MintsUnknown

\* "Never mint twice": a created scheme is never forgotten, and once there is one
\* powercfg -duplicatescheme is never started again.
THEOREM MintsOnce == Spec => MintOnce
<1> DEFINE Once == minted # NoPlan => /\ minted' = minted
                                      /\ \A p \in procs' : p.cmd = "duplicate" => p \in procs
<1>1. IInv /\ IInv' /\ [Next]_vars => [Once]_vars
  <2> SUFFICES ASSUME IInv, IInv', Next PROVE Once OBVIOUS
  <2> QED BY MintStep
<1> QED BY <1>1, Invariance, PTL DEF Spec, MintOnce

-----------------------------------------------------------------------------
\* The power-plan chain implements the mailbox of LatestRequest: the newest request
\* wins, and nothing that changes Windows is issued for another.

\* On top of IInv the mapping needs that a served or waiting request has a generation
\* above 0, which stands for "nothing served" in the mailbox.
RequestsCounted ==
  /\ queued => generation > 0
  /\ \A p \in procs : p.owner = "sync" => p.gen > 0

RInv == IInv /\ RequestsCounted

-----------------------------------------------------------------------------
\* The mapping, by the sync process in flight.

\* No sync process: the mailbox serves nothing.
LEMMA IdleMapping ==
  ASSUME SyncProcs = {}
  PROVE  Serving = 0 /\ Stage = "idle"
BY DEF Serving, Stage

\* One sync process p: the mailbox serves its generation.
LEMMA BusyMapping ==
  ASSUME NEW p, SyncProcs = {p}
  PROVE  /\ Serving = p.gen
         /\ Stage = IF p.cmd \in {"list", "getactive"} THEN "reading" ELSE p.cmd
<1>1. SyncProc = p
  BY DEF SyncProc
<1> QED BY <1>1 DEF Serving, Stage

\* The same of the next state.
LEMMA IdleMappingNext ==
  ASSUME SyncProcs' = {}
  PROVE  Serving' = 0 /\ Stage' = "idle"
BY DEF Serving, Stage

LEMMA BusyMappingNext ==
  ASSUME NEW p, SyncProcs' = {p}
  PROVE  /\ Serving' = p.gen
         /\ Stage' = IF p.cmd \in {"list", "getactive"} THEN "reading" ELSE p.cmd
<1>1. SyncProc' = p
  BY DEF SyncProc
<1> QED BY <1>1 DEF Serving, Stage

\* At most one sync process is in flight, and then the gate is taken.
LEMMA SyncAlone ==
  ASSUME IInv
  PROVE  \/ SyncProcs = {}
         \/ \E p \in procs : p.owner = "sync" /\ SyncProcs = {p}
BY DEF IInv, GateHeld, Chain, SyncProcs

\* A step that leaves the sync processes alone leaves the mapping alone.
LEMMA SameMapping ==
  ASSUME SyncProcs' = SyncProcs
  PROVE  Serving' = Serving /\ Stage' = Stage
<1>1. SyncProc' = SyncProc
  BY DEF SyncProc
<1> QED BY <1>1 DEF Serving, Stage

-----------------------------------------------------------------------------
\* Steps of the controller as steps of the mailbox.

\* Voiding what was requested is a cancellation.
LEMMA CancelMaps ==
  ASSUME generation' = generation + 1, queued' = FALSE, SyncProcs' = SyncProcs
  PROVE  Mailbox!Cancel
BY SameMapping DEF Mailbox!Cancel

\* handlePlanSync is a request, or a cancellation when nothing may be done.
LEMMA HandlePlanSyncMaps ==
  ASSUME IInv, NEW m \in Mode, NEW b \in BOOLEAN, NEW ps, HandlePlanSync(m, b, ps),
         {p \in ps : p.owner = "sync"} = SyncProcs, ~b => SyncProcs = {}
  PROVE  Mailbox!Request \/ Mailbox!Cancel
<1> DEFINE n == SyncList(generation + 1, m)
<1>1. generation' = generation + 1
  BY DEF HandlePlanSync
<1>2. n.owner = "sync" /\ n.cmd = "list" /\ n.gen = generation + 1
  BY NewProcFields DEF SyncList
<1> HIDE DEF n
<1>3. CASE enabled' /\ ~passive' /\ b
  <2>1. queued' = TRUE /\ procs' = ps
    BY <1>3 DEF HandlePlanSync
  <2>2. SyncProcs' = SyncProcs
    BY <2>1 DEF SyncProcs
  <2> QED BY <1>1, <2>1, <2>2, SameMapping DEF Mailbox!Request
<1>4. CASE enabled' /\ ~passive' /\ ~b
  <2>1. queued' = FALSE /\ procs' = ps \cup {n}
    BY <1>4 DEF HandlePlanSync, n
  <2>2. SyncProcs' = {n}
    BY <1>2, <1>4, <2>1 DEF SyncProcs
  <2>3. Serving = 0
    BY <1>4, IdleMapping
  <2>4. Serving' = generation + 1 /\ Stage' = "reading"
    BY <1>2, <2>2, BusyMappingNext
  <2> QED BY <1>1, <2>1, <2>3, <2>4 DEF Mailbox!Request, Mailbox!Reading
<1>5. CASE ~(enabled' /\ ~passive')
  <2>1. queued' = FALSE /\ procs' = ps
    BY <1>5 DEF HandlePlanSync
  <2>2. SyncProcs' = SyncProcs
    BY <2>1 DEF SyncProcs
  <2> QED BY <1>1, <2>1, <2>2, CancelMaps
<1> QED BY <1>3, <1>4, <1>5

\* A free gate means no sync process.
LEMMA FreeGate == ASSUME IInv, ~busy PROVE SyncProcs = {}
BY DEF IInv, GateHeld, Chain, SyncProcs

LEMMA TickMaps ==
  ASSUME IInv, NEW m \in Mode \cup {NoMode}, Tick(m)
  PROVE  [Mailbox!Next]_(Mailbox!vars)
<1> DEFINE busyR  == busy \/ RefreshDue
           procsR == IF RefreshDue THEN procs \cup {NameList(generation)} ELSE procs
<1>1. {p \in procsR : p.owner = "sync"} = SyncProcs
  BY NewProcFields DEF NameList, SyncProcs
<1>2. busyR \in BOOLEAN /\ (~busyR => SyncProcs = {})
  BY FreeGate DEF IInv, TypeOK
<1>3. CASE m # NoMode
  <2>1. HandlePlanSync(m, busyR, procsR)
    BY <1>3 DEF Tick
  <2> HIDE DEF busyR, procsR
  <2> QED BY <1>1, <1>2, <1>3, <2>1, HandlePlanSyncMaps DEF Mailbox!Next
<1>4. CASE m = NoMode
  <2>1. procs' = procsR /\ generation' = generation /\ queued' = queued
    BY <1>4 DEF Tick
  <2> HIDE DEF procsR
  <2>2. SyncProcs' = SyncProcs
    BY <1>1, <2>1 DEF SyncProcs
  <2> QED BY <2>1, <2>2, SameMapping DEF Mailbox!vars
<1> QED BY <1>3, <1>4

LEMMA UserMaps ==
  ASSUME IInv,
         \/ ForceNextModeWrite \/ ReloadFromConfig
         \/ \E on \in BOOLEAN : SetPassive(on)
         \/ \E on \in BOOLEAN, m \in Mode : SetPowerPlanSyncEnabled(on, m)
         \/ \E plan \in installed \cup {NoPlan} : SetActivePlan(plan)
  PROVE  Mailbox!Next
<1>1. CASE \/ ForceNextModeWrite \/ ReloadFromConfig
           \/ \E on \in BOOLEAN : SetPassive(on)
  <2>1. generation' = generation + 1 /\ queued' = FALSE /\ procs' = procs
    BY <1>1 DEF ForceNextModeWrite, ReloadFromConfig, SetPassive, Invalidate
  <2> QED BY <2>1, CancelMaps DEF SyncProcs, Mailbox!Next
<1>2. ASSUME NEW on \in BOOLEAN, NEW m \in Mode, SetPowerPlanSyncEnabled(on, m)
      PROVE  Mailbox!Next
  <2>1. CASE HandlePlanSync(m, busy, procs)
    BY <2>1, FreeGate, HandlePlanSyncMaps DEF IInv, TypeOK, SyncProcs, Mailbox!Next
  <2>2. CASE Invalidate /\ UNCHANGED procs
    BY <2>2, CancelMaps DEF Invalidate, SyncProcs, Mailbox!Next
  <2> QED BY <1>2, <2>1, <2>2 DEF SetPowerPlanSyncEnabled
<1>3. ASSUME NEW plan \in installed \cup {NoPlan}, SetActivePlan(plan)
      PROVE  Mailbox!Next
  <2> DEFINE n == NewProc("user", "setactive", generation + 1, "none", plan)
  <2>1. n.owner = "user"
    BY NewProcFields
  <2>2. /\ generation' = generation + 1 /\ queued' = FALSE
        /\ procs' = procs \cup {n} \/ procs' = procs
    BY <1>3 DEF SetActivePlan, Invalidate
  <2> HIDE DEF n
  <2>3. SyncProcs' = SyncProcs
    BY <2>1, <2>2 DEF SyncProcs
  <2> QED BY <2>2, <2>3, CancelMaps DEF Mailbox!Next
<1> QED BY <1>1, <1>2, <1>3

\* Windows is invisible to the mailbox.
LEMMA WindowsMaps ==
  ASSUME IInv,
         \/ \E p \in procs : Execute(p) \/ Fail(p)
         \/ \E plan \in Plan : ExternalSwitch(plan)
  PROVE  UNCHANGED Mailbox!vars
<1>1. generation' = generation /\ queued' = queued
  BY DEF Execute, Fail, ExternalSwitch
<1>2. CASE \E plan \in Plan : ExternalSwitch(plan)
  <2>1. SyncProcs' = SyncProcs
    BY <1>2 DEF ExternalSwitch, SyncProcs
  <2> QED BY <1>1, <2>1, SameMapping DEF Mailbox!vars
<1>3. ASSUME NEW p \in procs, Execute(p) \/ Fail(p)
      PROVE  UNCHANGED Mailbox!vars
  <2>1. PICK e : /\ procs' = (procs \ {p}) \cup {e}
                 /\ e.owner = p.owner /\ e.cmd = p.cmd /\ e.gen = p.gen
    <3>1. PICK ok, out : procs' = (procs \ {p}) \cup {Exited(p, ok, out)}
      BY <1>3 DEF Execute, Fail
    <3>2. LET e == Exited(p, ok, out)
          IN e.owner = p.owner /\ e.cmd = p.cmd /\ e.gen = p.gen
      BY DEF IInv, TypeOK, Proc, Exited
    <3> QED BY <3>1, <3>2
  <2>2. CASE p.owner = "sync"
    <3>1. SyncProcs = {p}
      BY <2>2, SyncAlone DEF SyncProcs
    <3>2. SyncProcs' = {e}
      BY <2>1, <2>2, <3>1 DEF SyncProcs
    <3> QED BY <1>1, <2>1, <3>1, <3>2, BusyMapping, BusyMappingNext DEF Mailbox!vars
  <2>3. CASE p.owner # "sync"
    <3>1. SyncProcs' = SyncProcs
      BY <2>1, <2>3 DEF SyncProcs
    <3> QED BY <1>1, <3>1, SameMapping DEF Mailbox!vars
  <2> QED BY <2>2, <2>3
<1> QED BY <1>2, <1>3

\* A delivery ends the served request, starts the waiting one, issues a command
\* for the newest generation, or goes on reading.
LEMMA DeliverMaps ==
  ASSUME RInv, NEW p \in procs, Deliver(p)
  PROVE  [Mailbox!Next]_(Mailbox!vars)
<1> USE DEF RInv
<1>1. generation' = generation
  BY DEF Deliver
<1>2. Outcome(p) /\ p \in Proc
  BY DeliverOutcome DEF IInv, TypeOK
<1>3. p.owner = "sync" => SyncProcs = {p} /\ Serving = p.gen /\ p.gen > 0
  BY SyncAlone, BusyMapping DEF SyncProcs, RequestsCounted
<1>4. p \in Chain /\ p.owner # "sync" => SyncProcs = {} /\ Serving = 0
  BY IdleMapping DEF IInv, GateHeld, Chain, SyncProcs
<1>5. CASE Ends(p)
  <2>1. procs' = procs \ {p} /\ queued' = queued
    BY <1>5 DEF Ends
  <2>2. CASE p.owner = "sync"
    <3>1. SyncProcs' = {}
      BY <1>3, <2>1, <2>2 DEF SyncProcs
    <3> QED BY <1>1, <1>3, <2>1, <2>2, <3>1, IdleMappingNext, <1>2
            DEF Mailbox!Next, Mailbox!End, Proc
  <2>3. CASE p.owner # "sync"
    <3>1. SyncProcs' = SyncProcs
      BY <2>1, <2>3 DEF SyncProcs
    <3> QED BY <1>1, <2>1, <3>1, SameMapping DEF Mailbox!vars
  <2> QED BY <2>2, <2>3
<1>6. CASE HandsOver(p)
  <2> DEFINE n == SyncList(generation, wanted)
  <2>1. n.owner = "sync" /\ n.cmd = "list" /\ n.gen = generation
    BY NewProcFields DEF SyncList
  <2>2. p \in Chain /\ queued /\ queued' = FALSE /\ procs' = (procs \ {p}) \cup {n}
    BY <1>6 DEF HandsOver
  <2> HIDE DEF n
  <2>3. SyncProcs' = {n}
    BY <1>3, <1>4, <2>1, <2>2 DEF SyncProcs
  <2>4. Serving' = generation /\ Stage' = "reading"
    BY <2>1, <2>3, BusyMappingNext
  <2>5. CASE p.owner = "sync"
    BY <1>1, <1>2, <1>3, <2>2, <2>4, <2>5 DEF Mailbox!Next, Mailbox!End, Mailbox!Reading, Proc
  <2>6. CASE p.owner # "sync"
    BY <1>1, <1>4, <2>2, <2>4, <2>6 DEF Mailbox!Next, Mailbox!Start, Mailbox!Reading
  <2> QED BY <2>5, <2>6
<1>7. CASE UserEnds(p)
  <2>1. SyncProcs' = SyncProcs /\ queued' = queued
    BY <1>7 DEF UserEnds, SyncProcs
  <2> QED BY <1>1, <2>1, SameMapping DEF Mailbox!vars
<1>8. ASSUME NEW n \in Proc, Continues(p, n)
      PROVE  [Mailbox!Next]_(Mailbox!vars)
  <2>1. /\ p \in Chain /\ p.gen = generation /\ n.owner = p.owner /\ n.gen = p.gen
        /\ n.cmd # "list" /\ n.cmd # p.cmd
        /\ n.cmd = "getactive" => p.cmd = "list"
        /\ queued' = queued /\ procs' = (procs \ {p}) \cup {n}
    BY <1>8 DEF Continues, Fresh
  <2>2. CASE p.owner # "sync"
    <3>1. SyncProcs' = SyncProcs
      BY <2>1, <2>2 DEF SyncProcs
    <3> QED BY <1>1, <2>1, <3>1, SameMapping DEF Mailbox!vars
  <2>3. CASE p.owner = "sync"
    <3>1. SyncProcs = {p} /\ SyncProcs' = {n}
      BY <1>3, <2>1, <2>3 DEF SyncProcs
    <3>2. /\ Serving = generation /\ Serving' = generation /\ generation # 0
          /\ Stage = IF p.cmd \in {"list", "getactive"} THEN "reading" ELSE p.cmd
          /\ Stage' = IF n.cmd \in {"list", "getactive"} THEN "reading" ELSE n.cmd
      BY <1>2, <1>3, <2>1, <2>3, <3>1, BusyMapping, BusyMappingNext DEF Proc
    <3>3. CASE n.cmd = "getactive"
      BY <1>1, <2>1, <3>2, <3>3 DEF Mailbox!vars
    <3>4. CASE n.cmd \in {"duplicate", "setactive"}
      <4>1. Stage' = n.cmd /\ Stage' # Stage
        BY <2>1, <3>2, <3>4
      <4> QED BY <1>1, <2>1, <3>2, <3>4, <4>1 DEF Mailbox!Next, Mailbox!Mutate, Mailbox!Mutating
    <3> QED BY <2>1, <3>3, <3>4 DEF Proc, Cmd
  <2> QED BY <2>2, <2>3
<1> QED BY <1>2, <1>5, <1>6, <1>7, <1>8 DEF Outcome

-----------------------------------------------------------------------------
\* Requests are counted: every step keeps served and waiting generations above 0.
LEMMA NextRequestsCounted ==
  ASSUME RInv, [Next]_vars
  PROVE  RequestsCounted'
<1> USE DEF RInv
<1>1. generation \in Nat
  BY DEF IInv, TypeOK
<1>2. ASSUME NEW m \in Mode, NEW b, NEW ps, HandlePlanSync(m, b, ps),
             \A p \in ps : p.owner = "sync" => p.gen > 0
      PROVE  RequestsCounted'
  <2>1. SyncList(generation + 1, m).gen = generation + 1
    BY NewProcFields DEF SyncList
  <2> QED BY <1>1, <1>2, <2>1 DEF HandlePlanSync, RequestsCounted
<1>3. CASE Ticking
  <2>1. PICK m \in Mode \cup {NoMode} : Tick(m)
    BY <1>3 DEF Ticking
  <2> DEFINE procsR == IF RefreshDue THEN procs \cup {NameList(generation)} ELSE procs
  <2>2. \A p \in procsR : p.owner = "sync" => p.gen > 0
    BY NewProcFields DEF NameList, RequestsCounted
  <2>3. CASE m # NoMode
    <3>1. HandlePlanSync(m, busy \/ RefreshDue, procsR)
      BY <2>1, <2>3 DEF Tick
    <3> HIDE DEF procsR
    <3> QED BY <1>2, <2>2, <2>3, <3>1
  <2>4. CASE m = NoMode
    BY <2>1, <2>2, <2>4 DEF Tick, RequestsCounted
  <2> QED BY <2>3, <2>4
<1>4. CASE \/ ForceNextModeWrite \/ ReloadFromConfig
           \/ \E on \in BOOLEAN : SetPassive(on)
  BY <1>4 DEF ForceNextModeWrite, ReloadFromConfig, SetPassive, Invalidate, RequestsCounted
<1>5. ASSUME NEW on \in BOOLEAN, NEW m \in Mode, SetPowerPlanSyncEnabled(on, m)
      PROVE  RequestsCounted'
  <2>1. CASE HandlePlanSync(m, busy, procs)
    BY <1>2, <2>1 DEF RequestsCounted
  <2>2. CASE Invalidate /\ UNCHANGED procs
    BY <2>2 DEF Invalidate, RequestsCounted
  <2> QED BY <1>5, <2>1, <2>2 DEF SetPowerPlanSyncEnabled
<1>6. ASSUME NEW plan \in installed \cup {NoPlan}, SetActivePlan(plan)
      PROVE  RequestsCounted'
  <2>1. NewProc("user", "setactive", generation + 1, "none", plan).owner = "user"
    BY NewProcFields
  <2> QED BY <1>6, <2>1 DEF SetActivePlan, Invalidate, RequestsCounted
<1>7. ASSUME NEW p \in procs, Execute(p) \/ Fail(p)
      PROVE  RequestsCounted'
  <2>1. PICK ok, out : procs' = (procs \ {p}) \cup {Exited(p, ok, out)}
    BY <1>7 DEF Execute, Fail
  <2>2. LET e == Exited(p, ok, out) IN e.owner = p.owner /\ e.gen = p.gen
    BY DEF IInv, TypeOK, Proc, Exited
  <2>3. generation' = generation /\ queued' = queued
    BY <1>7 DEF Execute, Fail
  <2> QED BY <2>1, <2>2, <2>3 DEF RequestsCounted
<1>8. CASE \E plan \in Plan : ExternalSwitch(plan)
  BY <1>8 DEF ExternalSwitch, RequestsCounted
<1>9. ASSUME NEW p \in procs, Deliver(p)
      PROVE  RequestsCounted'
  <2>1. generation' = generation /\ Outcome(p)
    BY <1>9, DeliverOutcome DEF Deliver
  <2>2. SyncList(generation, wanted).gen = generation
    BY NewProcFields DEF SyncList
  <2> QED BY <2>1, <2>2 DEF Outcome, Ends, HandsOver, UserEnds, Continues, RequestsCounted
<1>10. CASE UNCHANGED vars
  BY <1>10 DEF vars, RequestsCounted
<1> QED BY <1>3, <1>4, <1>5, <1>6, <1>7, <1>8, <1>9, <1>10 DEF Next

\* "Every asynchronous stage is tied to a generation": the chain implements the
\* mailbox in which the newest request wins.  Whatever the interleaving, no
\* command that changes Windows is issued for a request or a cancellation older
\* than the newest, at most one request is served and at most one waits.
THEOREM NewestRequestWins == Spec => NewestWins
<1>1. Init => Mailbox!Init
  <2> SUFFICES ASSUME Init PROVE Mailbox!Init OBVIOUS
  <2>1. SyncProcs = {}
    BY DEF Init, SyncProcs
  <2> QED BY <2>1, IdleMapping DEF Init, Mailbox!Init
<1>2. Init => RequestsCounted
  BY DEF Init, RequestsCounted
<1>3. RInv /\ [Next]_vars => RequestsCounted'
  BY NextRequestsCounted
<1>4. RInv /\ [Next]_vars => [Mailbox!Next]_(Mailbox!vars)
  <2> SUFFICES ASSUME RInv, [Next]_vars PROVE [Mailbox!Next]_(Mailbox!vars) OBVIOUS
  <2>1. CASE Ticking
    BY <2>1, TickMaps DEF Ticking, RInv
  <2>2. CASE \/ ForceNextModeWrite \/ ReloadFromConfig
             \/ \E on \in BOOLEAN : SetPassive(on)
             \/ \E on \in BOOLEAN, m \in Mode : SetPowerPlanSyncEnabled(on, m)
             \/ \E plan \in installed \cup {NoPlan} : SetActivePlan(plan)
    BY <2>2, UserMaps DEF RInv
  <2>3. CASE \/ \E p \in procs : Execute(p) \/ Fail(p)
             \/ \E plan \in Plan : ExternalSwitch(plan)
    BY <2>3, WindowsMaps DEF RInv
  <2>4. CASE \E p \in procs : Deliver(p)
    BY <2>4, DeliverMaps
  <2>5. CASE UNCHANGED vars
    BY <2>5, SameMapping DEF vars, SyncProcs, Mailbox!vars
  <2> QED BY <2>1, <2>2, <2>3, <2>4, <2>5 DEF Next
<1> QED BY <1>1, <1>2, <1>3, <1>4, Invariance, PTL DEF Spec, RInv, NewestWins, Mailbox!Spec

-----------------------------------------------------------------------------
\* What the user or the newest mode asked for is pursued to its end.

\* A name refresh only reads.
NamesRead ==
  \A p \in procs : p.owner = "name" => p.cmd \in {"list", "getactive"} /\ p.goal = "none"

\* What -duplicatescheme reports and the session remembers is a created scheme.
MintsCopies ==
  /\ minted \in Copies \cup {NoPlan}
  /\ \A p \in procs : p.cmd = "duplicate" => p.out \subseteq Copies

\* The /setactive that may still have its effect.
Setting == {p \in procs : p.cmd = "setactive" /\ p.state = "running"}

\* The user's plan is promised: it is active or on its way, and nothing that could
\* set another is in flight or waits.
UserIntent ==
  /\ ~queued
  /\ \A p \in procs : p.owner = "sync" => ~Fresh(p)
  /\ \E plan \in Plan : /\ promised = {plan}
                        /\ \A p \in Setting : p.target = plan
                        /\ active = plan \/ Setting # {}

\* What the sync process p has found and is about to do leads to a promised plan.
OnCourse(p) ==
  /\ p.owner = "sync" /\ Fresh(p)
  /\ p.cmd = "duplicate" => p.goal = "high"
  /\ p.cmd \in {"getactive", "setactive"} => p.target \in promised
  /\ p.state = "exited" =>
       /\ p.ok
       /\ p.cmd = "list" /\ p.goal = "balanced" => p.out \cap BalancedPlans = promised
       /\ p.cmd = "getactive" => p.out = {active}
       /\ p.cmd = "duplicate" => \E c \in Copies : p.out = {c}
       /\ p.cmd = "setactive" => active = p.target

\* A plan for the wanted mode is promised: the request waits, is on course, or
\* has been served; no selection of the user is on its way.
SyncIntent ==
  /\ enabled /\ ~passive
  /\ promised = Accepted(wanted)
  /\ \A p \in Setting : p.owner # "user"
  /\ \/ queued
     \/ \E p \in procs : OnCourse(p)
     \/ active \in promised /\ \A p \in procs : p.owner # "sync"

Pursued == promised # {} /\ rivals = {} => UserIntent \/ SyncIntent

\* The inductive invariant of the intentions.
Kinds  == IInv /\ NamesRead /\ MintsCopies
Course == Kinds /\ Pursued

\* Initially nothing is promised.
LEMMA InitCourse == Init => Course
BY InitIInv, PlanAssumption DEF Init, Course, Kinds, NamesRead, MintsCopies, Pursued

\* What is promised for a mode does not change while the installed schemes change
\* by created ones only.
LEMMA AcceptedStable ==
  ASSUME wanted' = wanted,
         installed' = installed \/ \E c \in Copies : installed' = installed \cup {c}
  PROVE  Accepted(wanted)' = Accepted(wanted)
<1>1. BalancedPlans \cap installed' = BalancedPlans \cap installed
  BY PlanAssumption
<1> QED BY <1>1 DEF Accepted, GoalOf

\* The processes a step starts other than as continuations.
LEMMA ListFields ==
  ASSUME NEW g, NEW m
  PROVE  /\ LET n == SyncList(g, m)
            IN /\ n.owner = "sync" /\ n.cmd = "list" /\ n.gen = g /\ n.goal = GoalOf(m)
               /\ n.state = "running" /\ n.out = {}
         /\ LET n == NameList(g)
            IN /\ n.owner = "name" /\ n.cmd = "list" /\ n.gen = g /\ n.goal = "none"
               /\ n.state = "running" /\ n.out = {}
BY NewProcFields DEF SyncList, NameList

\* What a request adds to the processes.
LEMMA HandlePlanSyncStarts ==
  ASSUME NEW m, NEW b, NEW ps, HandlePlanSync(m, b, ps)
  PROVE  procs' = ps \/ procs' = ps \cup {SyncList(generation + 1, m)}
BY DEF HandlePlanSync

\* The user, the timer and monitor mode start lists and the user's /setactive only.
LEMMA StartedKinds ==
  ASSUME \/ Ticking
         \/ ForceNextModeWrite \/ ReloadFromConfig
         \/ \E on \in BOOLEAN : SetPassive(on)
         \/ \E on \in BOOLEAN, m \in Mode : SetPowerPlanSyncEnabled(on, m)
         \/ \E plan \in installed \cup {NoPlan} : SetActivePlan(plan)
         \/ \E plan \in Plan : ExternalSwitch(plan)
  PROVE  /\ minted' = minted
         /\ \A q \in procs' \ procs : \/ q.owner = "name" /\ q.cmd = "list" /\ q.goal = "none"
                                      \/ q.owner = "sync" /\ q.cmd = "list"
                                      \/ q.owner = "user" /\ q.cmd = "setactive"
<1>1. minted' = minted
  BY DEF Ticking, Tick, ForceNextModeWrite, ReloadFromConfig, SetPassive,
         SetPowerPlanSyncEnabled, SetActivePlan, ExternalSwitch
<1>2. CASE Ticking
  <2>1. PICK m \in Mode \cup {NoMode} : Tick(m)
    BY <1>2 DEF Ticking
  <2>2. procs' \subseteq procs \cup {NameList(generation), SyncList(generation + 1, m)}
    BY <2>1, HandlePlanSyncStarts DEF Tick
  <2> QED BY <1>1, <2>2, ListFields
<1>3. CASE \E on \in BOOLEAN, m \in Mode : SetPowerPlanSyncEnabled(on, m)
  <2>1. PICK on \in BOOLEAN, m \in Mode : SetPowerPlanSyncEnabled(on, m)
    BY <1>3
  <2>2. procs' \subseteq procs \cup {SyncList(generation + 1, m)}
    BY <2>1, HandlePlanSyncStarts DEF SetPowerPlanSyncEnabled
  <2> QED BY <1>1, <2>2, ListFields
<1>4. CASE \E plan \in installed \cup {NoPlan} : SetActivePlan(plan)
  <2>1. PICK plan : SetActivePlan(plan)
    BY <1>4
  <2>2. procs' \subseteq procs \cup {NewProc("user", "setactive", generation + 1, "none", plan)}
    BY <2>1 DEF SetActivePlan
  <2> QED BY <1>1, <2>2, NewProcFields
<1>5. CASE \/ ForceNextModeWrite \/ ReloadFromConfig
           \/ \E on \in BOOLEAN : SetPassive(on)
           \/ \E plan \in Plan : ExternalSwitch(plan)
  BY <1>1, <1>5 DEF ForceNextModeWrite, ReloadFromConfig, SetPassive, ExternalSwitch
<1> QED BY <1>2, <1>3, <1>4, <1>5

\* A name refresh reads on or ends.
LEMMA NameDelivered ==
  ASSUME Kinds, NEW p \in procs, p.owner = "name", Deliver(p)
  PROVE  /\ minted' = minted
         /\ \/ Ends(p) \/ HandsOver(p)
            \/ \E n \in Proc : Continues(p, n) /\ n.cmd = "getactive"
<1>1. /\ p \in Chain /\ p \in Proc /\ TypeOK
      /\ p.cmd \in {"list", "getactive"} /\ p.goal = "none"
  BY DEF Kinds, IInv, TypeOK, NamesRead, Chain
<1>2. minted' = minted
  BY <1>1 DEF Deliver, DeliverList, DeliverGetActive, DeliverDuplicate, DeliverSetActive
<1>3. CASE p.cmd = "list" /\ Fresh(p) /\ p.ok
  <2>1. Continue(p, "getactive", NoPlan, p.out)
    BY <1>1, <1>3 DEF Deliver, DeliverList, DeliverGetActive, DeliverDuplicate, DeliverSetActive,
                      DeliverListEnds, DeliverListReport, DeliverListFound, DeliverListMissing
  <2>2. p.out \subseteq Plan
    BY <1>1 DEF Proc
  <2>3. PICK n \in Proc : Continues(p, n)
    BY <1>1, <1>3, <2>1, <2>2, ContinueOutcome DEF Cmd
  <2>4. n.cmd = "getactive"
    <3> DEFINE e == [NewProc(p.owner, "getactive", p.gen, p.goal, NoPlan) EXCEPT !.plans = p.out]
    <3>1. procs' = (procs \ {p}) \cup {e} /\ e.cmd = "getactive"
      BY <2>1, NewProcFields DEF Continue
    <3>2. procs' = (procs \ {p}) \cup {n} /\ n.owner = "name"
      BY <2>3 DEF Continues
    <3>3. \A q \in procs \ {p} : q.owner = "user"
      BY <1>1 DEF Kinds, IInv, GateHeld, Chain
    <3> HIDE DEF e
    <3>4. n = e
      BY <3>1, <3>2, <3>3
    <3> QED BY <3>1, <3>4
  <2> QED BY <1>2, <2>3, <2>4
<1>4. CASE ~(p.cmd = "list" /\ Fresh(p) /\ p.ok)
  <2>1. FinishPlanChain(p)
    BY <1>1, <1>4 DEF Deliver, DeliverList, DeliverGetActive, DeliverDuplicate, DeliverSetActive,
                      DeliverListEnds, DeliverListReport, DeliverListFound, DeliverListMissing
  <2> QED BY <1>1, <1>2, <2>1, FinishOutcome
<1> QED BY <1>3, <1>4

LEMMA NextKinds ==
  ASSUME Kinds, [Next]_vars
  PROVE  Kinds'
<1> USE DEF Kinds
<1>1. IInv'
  BY NextIInv
<1>2. CASE \/ Ticking
           \/ ForceNextModeWrite \/ ReloadFromConfig
           \/ \E on \in BOOLEAN : SetPassive(on)
           \/ \E on \in BOOLEAN, m \in Mode : SetPowerPlanSyncEnabled(on, m)
           \/ \E plan \in installed \cup {NoPlan} : SetActivePlan(plan)
           \/ \E plan \in Plan : ExternalSwitch(plan)
  BY <1>1, <1>2, StartedKinds DEF NamesRead, MintsCopies
<1>3. ASSUME NEW p \in procs, Execute(p) \/ Fail(p)
      PROVE  NamesRead' /\ MintsCopies'
  <2>1. p \in Proc
    BY DEF IInv, TypeOK
  <2>2. PICK e : /\ procs' = (procs \ {p}) \cup {e}
                 /\ e.owner = p.owner /\ e.cmd = p.cmd /\ e.goal = p.goal
                 /\ e.cmd = "duplicate" => e.out \subseteq Copies
    <3>1. CASE Execute(p)
      <4>1. PICK out : Effect(p, out) /\ procs' = (procs \ {p}) \cup {Exited(p, TRUE, out)}
        BY <3>1 DEF Execute
      <4>2. p.cmd = "duplicate" => out \subseteq Copies
        BY <4>1 DEF Effect
      <4>3. PICK e : e = Exited(p, TRUE, out)
        OBVIOUS
      <4>4. e.owner = p.owner /\ e.cmd = p.cmd /\ e.goal = p.goal /\ e.out = out
        BY <2>1, <4>3 DEF Exited, Proc
      <4> QED BY <4>1, <4>2, <4>3, <4>4
    <3>2. CASE Fail(p)
      <4>1. PICK ok \in BOOLEAN : procs' = (procs \ {p}) \cup {Exited(p, ok, {})}
        BY <3>2 DEF Fail
      <4>2. PICK e : e = Exited(p, ok, {})
        OBVIOUS
      <4>3. e.owner = p.owner /\ e.cmd = p.cmd /\ e.goal = p.goal /\ e.out = {}
        BY <2>1, <4>2 DEF Exited, Proc
      <4> QED BY <4>1, <4>2, <4>3
    <3> QED BY <1>3, <3>1, <3>2
  <2>3. minted' = minted
    BY <1>3 DEF Execute, Fail
  <2> QED BY <2>2, <2>3 DEF NamesRead, MintsCopies
<1>4. ASSUME NEW p \in procs, Deliver(p)
      PROVE  NamesRead' /\ MintsCopies'
  <2>1. minted' \in Copies \cup {NoPlan}
    <3>1. CASE p.cmd = "duplicate"
      BY <1>4, <3>1 DEF Deliver, DeliverList, DeliverGetActive, DeliverDuplicate,
                        DeliverSetActive, MintsCopies
    <3>2. CASE p.cmd # "duplicate"
      BY <1>4, <3>2, DeliverOutcome DEF MintsCopies
    <3> QED BY <3>1, <3>2
  <2>2. p.owner = "name" =>
          Ends(p) \/ HandsOver(p) \/ \E n \in Proc : Continues(p, n) /\ n.cmd = "getactive"
    BY <1>4, NameDelivered
  <2>3. Outcome(p)
    BY <1>4, DeliverOutcome
  <2>4. ASSUME NEW n \in Proc, Continues(p, n)
        PROVE  /\ n.owner = p.owner /\ n.goal = p.goal /\ n.out = {}
               /\ procs' = (procs \ {p}) \cup {n}
               /\ p.owner = "name" => n.cmd = "getactive"
    <3>1. \A q \in procs \ {p} : q.owner = "user"
      BY <2>4 DEF Continues, IInv, GateHeld, Chain
    <3>2. p.owner = "name" => p.owner # "user"
      OBVIOUS
    <3>3. /\ n.owner = p.owner /\ n.goal = p.goal /\ n.out = {}
          /\ procs' = (procs \ {p}) \cup {n} /\ n.gen = generation
          /\ busy' = busy /\ queued' = queued /\ n.state = "running" /\ p.state = "exited"
      BY <1>4, <2>4 DEF Continues, Fresh, Deliver
    <3>4. ASSUME p.owner = "name" PROVE n.cmd = "getactive"
      <4>1. n \in procs' /\ n.owner = "name" /\ \A q \in procs \ {p} : q # n
        BY <3>1, <3>3, <3>4
      <4>2. CASE Ends(p)
        BY <3>3, <4>1, <4>2 DEF Ends
      <4>3. CASE HandsOver(p)
        BY <3>3, <4>1, <4>3, ListFields DEF HandsOver
      <4>4. CASE \E k \in Proc : Continues(p, k) /\ k.cmd = "getactive"
        BY <3>3, <4>1, <4>4 DEF Continues
      <4> QED BY <2>2, <3>4, <4>2, <4>3, <4>4
    <3> QED BY <3>3, <3>4
  <2>5. CASE Ends(p) \/ UserEnds(p)
    BY <2>1, <2>5 DEF Ends, UserEnds, NamesRead, MintsCopies
  <2>6. CASE HandsOver(p)
    BY <2>1, <2>6, ListFields DEF HandsOver, NamesRead, MintsCopies
  <2>7. CASE \E n \in Proc : Continues(p, n)
    BY <2>1, <2>4, <2>7 DEF NamesRead, MintsCopies
  <2> QED BY <2>3, <2>5, <2>6, <2>7 DEF Outcome
<1>5. CASE UNCHANGED vars
  BY <1>1, <1>5 DEF vars, NamesRead, MintsCopies
<1> QED BY <1>1, <1>2, <1>3, <1>4, <1>5 DEF Next

\* A request made outside monitor mode is pursued: it waits or its chain starts.
LEMMA RequestPursued ==
  ASSUME Kinds, NEW m \in Mode, NEW b \in BOOLEAN, NEW ps, HandlePlanSync(m, b, ps),
         \A p \in ps : p \in procs \/ p.cmd = "list", UNCHANGED windows
  PROVE  Pursued'
<1> SUFFICES ASSUME promised' # {}, rivals' = {} PROVE SyncIntent'
  BY DEF Pursued
<1>1. /\ enabled' /\ ~passive' /\ promised' = Accepted(m)
      /\ SetActiveOwners \cap {"user"} = {} /\ wanted' = m
  BY DEF HandlePlanSync
<1>2. promised' = Accepted(wanted)'
  BY <1>1 DEF Accepted, windows
<1>3. \A p \in Setting : p.owner # "user"
  BY <1>1 DEF Setting, SetActiveOwners
<1>4. PICK n : n = SyncList(generation + 1, m)
  OBVIOUS
<1>5. /\ n.owner = "sync" /\ n.cmd = "list" /\ n.gen = generation + 1 /\ n.state = "running"
  BY <1>4, ListFields
<1>6. procs' = ps \/ procs' = ps \cup {n}
  BY <1>4, HandlePlanSyncStarts
<1>7. (\A p \in Setting : p.owner # "user")'
  BY <1>3, <1>5, <1>6 DEF Setting
<1>8. CASE b
  BY <1>1, <1>2, <1>7, <1>8 DEF HandlePlanSync, SyncIntent
<1>9. CASE ~b
  <2>1. n \in procs' /\ generation' = generation + 1
    BY <1>1, <1>4, <1>9 DEF HandlePlanSync
  <2>2. OnCourse(n)'
    BY <1>5, <2>1 DEF OnCourse, Fresh
  <2> QED BY <1>1, <1>2, <1>7, <2>1, <2>2 DEF SyncIntent
<1> QED BY <1>8, <1>9

\* Outside requests and selections the timer starts at most a name refresh.
LEMMA TickPursued ==
  ASSUME Course, NEW m \in Mode \cup {NoMode}, Tick(m)
  PROVE  Pursued'
<1> USE DEF Course
<1> DEFINE busyR  == busy \/ RefreshDue
           procsR == IF RefreshDue THEN procs \cup {NameList(generation)} ELSE procs
<1>1. PICK r : r = NameList(generation)
  OBVIOUS
<1>2. r.owner = "name" /\ r.cmd = "list" /\ (procsR = procs \/ procsR = procs \cup {r})
  BY <1>1, ListFields
<1>3. busyR \in BOOLEAN /\ UNCHANGED windows
  BY DEF Kinds, IInv, TypeOK, Tick
<1>4. CASE m # NoMode
  <2>1. HandlePlanSync(m, busyR, procsR)
    BY <1>4 DEF Tick
  <2> HIDE DEF busyR, procsR
  <2> QED BY <1>2, <1>3, <1>4, <2>1, RequestPursued
<1>5. CASE m = NoMode
  <2>1. /\ procs' = procsR
        /\ UNCHANGED <<enabled, passive, generation, wanted, queued, promised, rivals,
                       installed, active>>
    BY <1>5 DEF Tick, windows
  <2> HIDE DEF procsR
  <2>2. Setting' = Setting /\ \A p \in procs' : p \in procs \/ p.owner = "name"
    BY <1>2, <2>1 DEF Setting
  <2>3. Accepted(wanted)' = Accepted(wanted)
    BY <2>1, AcceptedStable
  <2>4. UserIntent => UserIntent'
    BY <2>1, <2>2 DEF UserIntent, Fresh
  <2>5. SyncIntent => SyncIntent'
    BY <1>2, <2>1, <2>2, <2>3 DEF SyncIntent, OnCourse, Fresh
  <2> QED BY <2>1, <2>4, <2>5 DEF Pursued
<1> QED BY <1>4, <1>5

LEMMA SetPowerPlanSyncEnabledPursued ==
  ASSUME Course, NEW on \in BOOLEAN, NEW m \in Mode, SetPowerPlanSyncEnabled(on, m)
  PROVE  Pursued'
<1>1. CASE on /\ ~passive
  <2>1. HandlePlanSync(m, busy, procs) /\ UNCHANGED windows
    BY <1>1 DEF SetPowerPlanSyncEnabled
  <2> QED BY <2>1, RequestPursued DEF Course, Kinds, IInv, TypeOK
<1>2. CASE ~(on /\ ~passive)
  BY <1>2 DEF SetPowerPlanSyncEnabled, Pursued
<1> QED BY <1>1, <1>2

\* A selection of the user makes every chain in flight stale.
LEMMA SetActivePlanPursued ==
  ASSUME Course, NEW plan \in installed \cup {NoPlan}, SetActivePlan(plan)
  PROVE  Pursued'
<1> SUFFICES ASSUME promised' # {}, rivals' = {} PROVE UserIntent'
  BY DEF Pursued
<1>1. /\ Applicable(plan) /\ promised' = {plan} /\ SetActiveOwners = {}
      /\ generation' = generation + 1 /\ queued' = FALSE /\ active' = active
  BY DEF SetActivePlan, Invalidate, windows
<1>2. PICK n : n = NewProc("user", "setactive", generation + 1, "none", plan)
  OBVIOUS
<1>3. /\ n.owner = "user" /\ n.cmd = "setactive" /\ n.target = plan /\ n.state = "running"
      /\ procs' = procs \cup {n}
  BY <1>1, <1>2, NewProcFields DEF SetActivePlan
<1>4. Setting' = {n}
  BY <1>1, <1>3 DEF Setting, SetActiveOwners
<1>5. plan \in Plan
  BY <1>1 DEF Applicable, Course, Kinds, IInv, TypeOK
<1>6. \A p \in procs : p.gen \in Nat /\ p.gen <= generation /\ generation \in Nat
  BY DEF Course, Kinds, IInv, TypeOK, GenerationsKnown, Proc
<1>7. (\A p \in procs : p.owner = "sync" => ~Fresh(p))'
  BY <1>1, <1>3, <1>6 DEF Fresh
<1> QED BY <1>1, <1>3, <1>4, <1>5, <1>7 DEF UserIntent

\* Windows executes p.
LEMMA ExecutePursued ==
  ASSUME Course, NEW p \in procs, Execute(p)
  PROVE  Pursued'
<1> USE DEF Course, Kinds
<1> SUFFICES ASSUME promised # {}, rivals = {} PROVE UserIntent' \/ SyncIntent'
  BY DEF Pursued, Execute, history
<1>1. /\ p \in Proc /\ p.state = "running"
      /\ UNCHANGED <<enabled, passive, generation, wanted, queued, promised>>
  BY DEF IInv, TypeOK, Execute, control, history
<1>2. PICK out : Effect(p, out) /\ procs' = (procs \ {p}) \cup {Exited(p, TRUE, out)}
  BY DEF Execute
<1>3. PICK e : e = Exited(p, TRUE, out)
  OBVIOUS
<1>4. /\ e.owner = p.owner /\ e.cmd = p.cmd /\ e.gen = p.gen /\ e.goal = p.goal
      /\ e.target = p.target /\ e.state = "exited" /\ e.ok = TRUE /\ e.out = out
      /\ procs' = (procs \ {p}) \cup {e}
  BY <1>1, <1>2, <1>3 DEF Exited, Proc
<1>5. Setting' = Setting \ {p}
  BY <1>1, <1>4 DEF Setting
<1>6. active' = (IF p.cmd = "setactive" THEN p.target ELSE active)
  BY <1>1, <1>2 DEF Effect, windows, Proc, Cmd
<1>7. installed' = installed \/ \E c \in Copies : installed' = installed \cup {c}
  BY <1>1, <1>2 DEF Effect, windows, Proc, Cmd
<1>8. CASE UserIntent
  <2>1. PICK plan \in Plan : /\ promised = {plan}
                             /\ \A q \in Setting : q.target = plan
                             /\ active = plan \/ Setting # {}
    BY <1>8 DEF UserIntent
  <2>2. p.cmd = "setactive" => p \in Setting
    BY <1>1 DEF Setting
  <2>3. active' = plan \/ Setting' # {}
    BY <1>5, <1>6, <2>1, <2>2 DEF Setting
  <2>4. (\A q \in procs : q.owner = "sync" => ~Fresh(q))'
    BY <1>1, <1>4, <1>8 DEF UserIntent, Fresh
  <2> QED BY <1>1, <1>5, <1>8, <2>1, <2>3, <2>4 DEF UserIntent
<1>9. CASE SyncIntent
  <2>1. Accepted(wanted)' = Accepted(wanted)
    BY <1>1, <1>7, AcceptedStable
  <2>2. p.cmd = "setactive" => p.owner # "user"
    BY <1>1, <1>9 DEF SyncIntent, Setting
  <2>3. p.owner # "user" => \A q \in procs \ {p} : q.owner = "user"
    BY DEF IInv, GateHeld, Chain
  <2>4. CASE queued
    BY <1>1, <1>5, <1>9, <2>1, <2>4 DEF SyncIntent
  <2>5. ASSUME NEW q \in procs, OnCourse(q)
        PROVE  \E r \in procs' : OnCourse(r)'
    <3>1. CASE p = q
      <4>1. p.cmd = "list" /\ p.goal = "balanced" => out \cap BalancedPlans = promised
        <5>1. p.goal = GoalOf(wanted) /\ promised = Accepted(wanted)
          BY <1>9, <2>5, <3>1 DEF OnCourse, IInv, FreshIsWanted, Chain, SyncIntent
        <5>2. p.cmd = "list" => out = installed
          BY <1>2 DEF Effect
        <5> QED BY <5>1, <5>2 DEF Accepted
      <4>2. p.cmd = "getactive" => out = {active'}
        BY <1>2, <1>6 DEF Effect
      <4>3. p.cmd = "duplicate" => \E c \in Copies : out = {c}
        BY <1>2 DEF Effect
      <4>4. OnCourse(e)'
        BY <1>1, <1>4, <1>6, <2>5, <3>1, <4>1, <4>2, <4>3 DEF OnCourse, Fresh
      <4> QED BY <1>4, <4>4
    <3>2. CASE p # q
      <4>1. p.owner = "user" /\ active' = active
        BY <1>6, <2>2, <2>3, <2>5, <3>2 DEF OnCourse
      <4>2. q \in procs' /\ OnCourse(q)'
        BY <1>1, <1>4, <2>5, <3>2, <4>1 DEF OnCourse, Fresh
      <4> QED BY <4>2
    <3> QED BY <3>1, <3>2
  <2>6. CASE active \in promised /\ \A q \in procs : q.owner # "sync"
    <3>1. active' = active
      BY <1>1, <1>6, <2>2, <2>6 DEF NamesRead, Proc, Owner
    <3> QED BY <1>1, <1>4, <1>5, <1>9, <2>1, <2>6, <3>1 DEF SyncIntent
  <2> QED BY <1>1, <1>5, <1>9, <2>1, <2>4, <2>5, <2>6 DEF SyncIntent
<1> QED BY <1>8, <1>9 DEF Pursued

\* The end of a fresh sync process on course is delivered: its chain goes on on
\* course, or is over with a promised plan active.
LEMMA CourseDelivered ==
  ASSUME Kinds, NEW p \in procs, OnCourse(p), Deliver(p), promised # {},
         enabled, ~passive, promised = Accepted(wanted)
  PROVE  \/ active \in promised /\ (Ends(p) \/ HandsOver(p))
         \/ \E n \in Proc : Continues(p, n) /\ OnCourse(n)'
<1> USE DEF Kinds
<1>1. /\ p \in Proc /\ p \in Chain /\ TypeOK /\ p.state = "exited" /\ p.ok /\ Fresh(p)
      /\ p.owner = "sync" /\ p.goal = GoalOf(wanted) /\ p.goal \in {"high", "balanced"}
  <2>1. p \in Proc /\ p \in Chain /\ TypeOK /\ p.state = "exited" /\ p.owner = "sync"
    BY DEF IInv, TypeOK, Chain, OnCourse, Deliver
  <2>2. p.ok /\ Fresh(p)
    BY <2>1 DEF OnCourse
  <2>3. p.goal = GoalOf(wanted)
    BY <2>1, <2>2 DEF IInv, FreshIsWanted
  <2> QED BY <2>1, <2>2, <2>3 DEF Accepted, GoalOf
<1>2. /\ UNCHANGED <<generation, active, promised>>
  BY DEF Deliver, windows, history
<1>3. /\ p.goal = "high" => promised = HighPlans \cup Copies
      /\ p.goal = "balanced" => promised \subseteq BalancedPlans
  BY <1>1 DEF Accepted
<1>4. ASSUME NEW cmd \in Cmd, NEW t \in Plan \cup {NoPlan}, Continue(p, cmd, t, {}),
             cmd = "duplicate" => (minted = NoPlan /\ minted' = minted),
             cmd = "setactive" => t # NoPlan,
             cmd # "list", cmd # p.cmd, cmd = "getactive" => p.cmd = "list",
             cmd = "duplicate" => p.goal = "high",
             cmd \in {"getactive", "setactive"} => t \in promised
      PROVE  \E n \in Proc : Continues(p, n) /\ OnCourse(n)'
  <2>1. PICK n : n = [NewProc(p.owner, cmd, p.gen, p.goal, t) EXCEPT !.plans = {}]
    OBVIOUS
  <2>2. /\ n.owner = p.owner /\ n.cmd = cmd /\ n.gen = p.gen /\ n.goal = p.goal
        /\ n.target = t /\ n.state = "running" /\ n.out = {}
    BY <2>1, NewProcFields
  <2>3. n \in Proc
    <3>1. p.owner \in Owner /\ p.gen \in Nat /\ p.goal \in Goal
      BY <1>1 DEF Proc
    <3> QED BY <1>4, <2>1, <3>1, NewProcType
  <2>4. procs' = (procs \ {p}) \cup {n} /\ busy' = busy /\ queued' = queued
    BY <1>4, <2>1 DEF Continue
  <2>5. Continues(p, n)
    BY <1>1, <1>4, <2>2, <2>4 DEF Continues
  <2>6. OnCourse(n)'
    BY <1>1, <1>2, <1>4, <2>2 DEF OnCourse, Fresh
  <2> QED BY <2>3, <2>5, <2>6
<1>5. ASSUME NEW t \in promised, Activate(p, t), p.cmd # "setactive"
      PROVE  \E n \in Proc : Continues(p, n) /\ OnCourse(n)'
  <2>1. t \in Plan /\ t # NoPlan
    BY <1>1, PlanAssumption DEF TypeOK
  <2>2. Continue(p, "setactive", t, {})
    BY <1>1, <1>5, <2>1 DEF Activate, Applicable
  <2> QED BY <1>4, <1>5, <2>1, <2>2 DEF Cmd
<1>6. CASE DeliverList(p)
  <2>1. p.cmd = "list" /\ minted' = minted
    BY <1>6 DEF DeliverList
  <2>2. ~DeliverListEnds(p) /\ ~DeliverListReport(p)
    BY <1>1 DEF DeliverListEnds, DeliverListReport
  <2>3. CASE DeliverListFound(p)
    <3>1. PICK t \in p.out \cap SearchedPlans(p.goal) : Continue(p, "getactive", t, {})
      BY <2>3 DEF DeliverListFound
    <3>2. t \in Plan
      BY <1>1 DEF Proc
    <3>3. t \in promised
      <4>1. CASE p.goal = "high"
        BY <1>3, <4>1, PlanAssumption DEF SearchedPlans
      <4>2. CASE p.goal = "balanced"
        BY <1>1, <2>1, <4>2 DEF SearchedPlans, OnCourse
      <4> QED BY <1>1, <4>1, <4>2
    <3> QED BY <1>4, <2>1, <3>1, <3>2, <3>3 DEF Cmd
  <2>4. CASE DeliverListMissing(p)
    <3>1. p.goal = "high"
      BY <1>1, <2>1, <2>4 DEF DeliverListMissing, SearchedPlans, OnCourse
    <3>2. CASE MustMint(p)
      <4>1. Continue(p, "duplicate", NoPlan, {}) /\ minted = NoPlan
        BY <2>4, <3>1, <3>2 DEF DeliverListMissing, MustMint
      <4> QED BY <1>4, <2>1, <3>1, <4>1 DEF Cmd
    <3>3. CASE ~MustMint(p)
      <4>1. Activate(p, minted) /\ minted # NoPlan
        BY <2>4, <3>1, <3>3 DEF DeliverListMissing, MustMint
      <4>2. minted \in promised
        BY <1>3, <3>1, <4>1 DEF MintsCopies
      <4> QED BY <1>5, <2>1, <4>1, <4>2
    <3> QED BY <3>2, <3>3
  <2> QED BY <1>6, <2>2, <2>3, <2>4 DEF DeliverList
<1>7. CASE DeliverGetActive(p)
  <2>1. p.cmd = "getactive" /\ p.target \in promised /\ p.out = {active}
    BY <1>1, <1>7 DEF DeliverGetActive, OnCourse
  <2>2. CASE p.out # {p.target}
    <3>1. Activate(p, p.target)
      BY <1>1, <1>7, <2>2 DEF DeliverGetActive
    <3> QED BY <1>5, <2>1, <3>1
  <2>3. CASE p.out = {p.target}
    <3>1. FinishPlanChain(p) /\ active \in promised
      BY <1>1, <1>7, <2>1, <2>3 DEF DeliverGetActive
    <3> QED BY <1>1, <3>1, FinishOutcome
  <2> QED BY <2>2, <2>3
<1>8. CASE DeliverDuplicate(p)
  <2>1. p.cmd = "duplicate" /\ p.goal = "high"
    BY <1>8 DEF DeliverDuplicate, OnCourse
  <2>2. PICK c \in p.out : minted' = c /\ Activate(p, c)
    BY <1>1, <1>8, <2>1 DEF DeliverDuplicate, OnCourse
  <2>3. c \in promised
    BY <1>3, <2>1 DEF MintsCopies
  <2> QED BY <1>5, <2>1, <2>2, <2>3
<1>9. CASE DeliverSetActive(p)
  <2>1. FinishPlanChain(p) /\ active \in promised
    BY <1>1, <1>9 DEF DeliverSetActive, OnCourse
  <2> QED BY <1>1, <2>1, FinishOutcome
<1> QED BY <1>6, <1>7, <1>8, <1>9 DEF Deliver

\* The event loop delivers the end of p.
LEMMA DeliverPursued ==
  ASSUME Course, NEW p \in procs, Deliver(p)
  PROVE  Pursued'
<1> USE DEF Course, Kinds
<1> SUFFICES ASSUME promised # {}, rivals = {} PROVE UserIntent' \/ SyncIntent'
  BY DEF Pursued, Deliver, history
<1>1. /\ p \in Proc /\ p.state = "exited"
      /\ UNCHANGED <<enabled, passive, generation, wanted, promised, installed, active>>
  BY DEF IInv, TypeOK, Deliver, control, windows, history
<1>2. p.owner # "user" => \A q \in procs \ {p} : q.owner = "user"
  BY DEF IInv, GateHeld, Chain
<1>3. Outcome(p)
  BY DeliverOutcome
<1>4. PICK s : s = SyncList(generation, wanted)
  OBVIOUS
<1>5. /\ s.owner = "sync" /\ s.cmd = "list" /\ s.gen = generation /\ s.state = "running"
  BY <1>4, ListFields
<1>6. Kinds'
  BY NextKinds DEF Next
<1>7. CASE UserIntent
  <2>1. PICK plan \in Plan : /\ promised = {plan}
                             /\ \A q \in Setting : q.target = plan
                             /\ active = plan \/ Setting # {}
    BY <1>7 DEF UserIntent
  <2>2. ~HandsOver(p)
    BY <1>7 DEF UserIntent, HandsOver
  <2>3. queued' = FALSE
    BY <1>3, <1>7, <2>2 DEF UserIntent, Outcome, Ends, UserEnds, Continues
  <2>4. CASE Ends(p) \/ UserEnds(p)
    <3>1. procs' = procs \ {p}
      BY <2>4 DEF Ends, UserEnds
    <3>2. Setting' = Setting
      BY <1>1, <3>1 DEF Setting
    <3> QED BY <1>1, <1>7, <2>1, <2>3, <3>1, <3>2 DEF UserIntent, Fresh
  <2>5. ASSUME NEW n \in Proc, Continues(p, n) PROVE UserIntent'
    <3>1. /\ n.owner = p.owner /\ p.owner # "user" /\ p.owner # "sync"
          /\ procs' = (procs \ {p}) \cup {n}
      BY <1>7, <2>5 DEF Continues, Chain, UserIntent
    <3>2. n.cmd # "setactive"
      BY <1>1, <1>6, <3>1 DEF NamesRead, Proc, Owner
    <3>3. Setting' = Setting
      BY <1>1, <3>1, <3>2 DEF Setting
    <3> QED BY <1>1, <1>7, <2>1, <2>3, <3>1, <3>3 DEF UserIntent, Fresh
  <2> QED BY <1>3, <2>2, <2>4, <2>5 DEF Outcome
<1>8. CASE SyncIntent
  <2>1. promised' = Accepted(wanted)' /\ enabled' /\ ~passive'
    BY <1>1, <1>8, AcceptedStable DEF SyncIntent
  <2>2. CASE HandsOver(p)
    <3>1. procs' = (procs \ {p}) \cup {s}
      BY <1>4, <2>2 DEF HandsOver
    <3>2. (\A q \in Setting : q.owner # "user")'
      BY <1>5, <1>8, <3>1 DEF Setting, SyncIntent
    <3>3. OnCourse(s)'
      BY <1>1, <1>5 DEF OnCourse, Fresh
    <3> QED BY <2>1, <3>1, <3>2, <3>3 DEF SyncIntent
  <2>3. CASE Ends(p) \/ UserEnds(p)
    <3>1. procs' = procs \ {p} /\ queued' = queued
      BY <2>3 DEF Ends, UserEnds
    <3>2. (\A q \in Setting : q.owner # "user")'
      BY <1>8, <3>1 DEF Setting, SyncIntent
    <3>3. CASE queued
      BY <2>1, <3>1, <3>2, <3>3 DEF SyncIntent
    <3>4. CASE active \in promised /\ \A q \in procs : q.owner # "sync"
      BY <1>1, <2>1, <3>1, <3>2, <3>4 DEF SyncIntent
    <3>5. ASSUME NEW q \in procs, OnCourse(q) PROVE SyncIntent'
      <4>1. CASE q = p
        <5>1. Ends(p)
          BY <2>3, <3>5, <4>1 DEF OnCourse, UserEnds
        <5>2. active \in promised
          <6>1. \A n \in Proc : ~Continues(p, n)
            BY <3>1, <5>1, <1>2 DEF Continues, Ends, Chain
          <6> QED BY <1>8, <3>5, <4>1, <6>1, CourseDelivered DEF SyncIntent
        <5>3. \A r \in procs' : r.owner # "sync"
          BY <1>2, <3>1, <3>5, <4>1 DEF OnCourse
        <5> QED BY <1>1, <2>1, <3>2, <5>2, <5>3 DEF SyncIntent
      <4>2. CASE q # p
        <5>1. q \in procs' /\ OnCourse(q)'
          BY <1>1, <3>1, <3>5, <4>2 DEF OnCourse, Fresh
        <5> QED BY <2>1, <3>2, <5>1 DEF SyncIntent
      <4> QED BY <4>1, <4>2
    <3> QED BY <1>8, <3>3, <3>4, <3>5 DEF SyncIntent
  <2>4. ASSUME NEW n \in Proc, Continues(p, n) PROVE SyncIntent'
    <3>1. /\ n.owner = p.owner /\ p.owner # "user" /\ n.state = "running"
          /\ procs' = (procs \ {p}) \cup {n} /\ queued' = queued
      BY <2>4 DEF Continues, Chain
    <3>2. (\A q \in Setting : q.owner # "user")'
      BY <1>8, <3>1 DEF Setting, SyncIntent
    <3>3. CASE queued
      BY <2>1, <3>1, <3>2, <3>3 DEF SyncIntent
    <3>4. CASE active \in promised /\ \A q \in procs : q.owner # "sync"
      BY <1>1, <2>1, <3>1, <3>2, <3>4 DEF SyncIntent
    <3>5. ASSUME NEW q \in procs, OnCourse(q) PROVE SyncIntent'
      <4>1. q = p
        BY <1>2, <3>1, <3>5 DEF OnCourse
      <4>2. n \notin procs
        BY <1>1, <1>2, <3>1, <2>4 DEF Continues
      <4>3. ~Ends(p)
        BY <3>1, <4>2 DEF Ends
      <4>4. PICK k \in Proc : procs' = (procs \ {p}) \cup {k} /\ OnCourse(k)'
        <5>1. ~HandsOver(p) \/ OnCourse(s)'
          BY <1>1, <1>5 DEF OnCourse, Fresh
        <5>2. CASE HandsOver(p)
          BY <1>4, <2>4, <3>1, <5>1, <5>2 DEF HandsOver
        <5>3. CASE ~HandsOver(p)
          BY <1>8, <3>5, <4>1, <4>3, <5>3, CourseDelivered DEF SyncIntent, Continues
        <5> QED BY <5>2, <5>3
      <4> QED BY <2>1, <3>2, <4>4 DEF SyncIntent
    <3> QED BY <1>8, <3>3, <3>4, <3>5 DEF SyncIntent
  <2> QED BY <1>3, <2>2, <2>3, <2>4 DEF Outcome
<1> QED BY <1>7, <1>8 DEF Pursued

LEMMA NextCourse == Course /\ [Next]_vars => Course'
<1> SUFFICES ASSUME Course, [Next]_vars PROVE Course' OBVIOUS
<1>1. Kinds'
  BY NextKinds DEF Course
<1>2. CASE Ticking
  BY <1>1, <1>2, TickPursued DEF Ticking, Course
<1>3. CASE \/ ForceNextModeWrite \/ ReloadFromConfig
           \/ \E on \in BOOLEAN : SetPassive(on)
           \/ \E p \in procs : Fail(p)
           \/ \E plan \in Plan : ExternalSwitch(plan)
  BY <1>1, <1>3 DEF ForceNextModeWrite, ReloadFromConfig, SetPassive, Fail, ExternalSwitch,
                    Pursued, Course
<1>4. CASE \E on \in BOOLEAN, m \in Mode : SetPowerPlanSyncEnabled(on, m)
  BY <1>1, <1>4, SetPowerPlanSyncEnabledPursued DEF Course
<1>5. CASE \E plan \in installed \cup {NoPlan} : SetActivePlan(plan)
  BY <1>1, <1>5, SetActivePlanPursued DEF Course
<1>6. CASE \E p \in procs : Execute(p)
  BY <1>1, <1>6, ExecutePursued DEF Course
<1>7. CASE \E p \in procs : Deliver(p)
  BY <1>1, <1>7, DeliverPursued DEF Course
<1>8. CASE UNCHANGED vars
  BY <1>1, <1>8 DEF vars, control, windows, history, Course, Pursued, UserIntent, SyncIntent,
                    OnCourse, Setting, Fresh, Accepted
<1> QED BY <1>2, <1>3, <1>4, <1>5, <1>6, <1>7, <1>8 DEF Next

\* When all is quiet the active Windows plan is one the newest undisturbed
\* intention accepts: the plan the user picked last, or one for the last mode
\* written, whatever the order in which requests, selections and processes came.
THEOREM IntentionsStand == Spec => []IntentionStands
<1>1. Course => IntentionStands
  BY DEF Course, Pursued, UserIntent, SyncIntent, OnCourse, Setting, IntentionStands, Settled
<1> QED BY <1>1, InitCourse, NextCourse, PTL DEF Spec
=============================================================================
