------------------------------ MODULE PlanSync ------------------------------
(***************************************************************************)
(* The controller's power-plan chain (core/Controller.cpp): after every     *)
(* thermal mode write Windows is switched to the matching power plan through *)
(* a series of asynchronous powercfg processes,                             *)
(*    /list -> /getactivescheme -> /setactive     or                        *)
(*    /list -> -duplicatescheme -> /setactive                               *)
(* while the user, the 1 Hz tick and monitor mode keep changing what is      *)
(* wanted.  m_planBusy is the gate that keeps one chain in flight and        *)
(* m_planGeneration invalidates the continuations of superseded chains.      *)
(*                                                                          *)
(* A process runs in two steps: Windows executes it (Execute, Fail), and     *)
(* later the event loop delivers its end to the continuation, so what it     *)
(* read may be old by then.  Plans and modes are identities; list order and  *)
(* names are abstracted to which plans a search recognises.                  *)
(***************************************************************************)
EXTENDS Naturals, FiniteSets

CONSTANTS
  HighModes,       \* thermal modes mapped to High performance (G-Mode, Performance)
  BalancedModes,   \* thermal modes mapped to Balanced
  Custom,          \* the mode that leaves the plan alone
  DefaultMode,     \* the initial m_planWanted
  NoMode,          \* no mode
  HighPlans, BalancedPlans, OtherPlans, \* installed schemes, as the search classifies them
  Copies,          \* identities of schemes -duplicatescheme can create
  Recognised,      \* the plans a search for "high" finds by GUID or by name
  NoPlan,          \* an empty GUID or name
  InitialPlans,    \* the possible sets of schemes installed at start
  RefreshEvery,    \* ticks between refreshes of the plan name (5 in the code)
  MaxGeneration,   \* bound on requests and cancellations
  MaxFaults        \* bound on failed processes and external plan changes

Mode == HighModes \cup BalancedModes \cup {Custom}
Plan == HighPlans \cup BalancedPlans \cup OtherPlans \cup Copies

ASSUME ModeAssumption ==
  /\ HighModes \cap BalancedModes = {}
  /\ Custom \notin HighModes \cup BalancedModes
  /\ DefaultMode \in Mode
  /\ NoMode \notin Mode

ASSUME PlanAssumption ==
  /\ NoPlan \notin Plan
  /\ HighPlans \subseteq Recognised /\ Recognised \subseteq HighPlans \cup Copies
  /\ Copies \cap BalancedPlans = {}
  /\ \A S \in InitialPlans : S \subseteq Plan \ Copies

ASSUME BoundAssumption ==
  RefreshEvery \in Nat \ {0} /\ MaxGeneration \in Nat /\ MaxFaults \in Nat

VARIABLES
  \* the controller
  enabled,      \* m_planSyncEnabled
  passive,      \* m_passive: monitor mode
  generation,   \* m_planGeneration
  wanted,       \* m_planWanted
  queued,       \* m_planQueuedRequest
  busy,         \* m_planBusy
  minted,       \* m_mintedHighGuid
  chip,         \* m_planActiveName, as the plan it names
  nameTick,     \* m_planNameTick modulo its period
  \* powercfg and Windows
  procs,        \* powercfg processes started and not yet delivered
  installed,    \* the installed schemes
  active,       \* the active scheme
  \* history, for the properties only
  faults,       \* failures and external changes so far
  promised,     \* plans the newest undisturbed intention accepts, {} if none
  rivals        \* owners of the /setactive it could not recall when it was expressed

control == <<enabled, passive>>
windows == <<installed, active>>
history == <<faults, promised, rivals>>
vars == <<control, generation, wanted, queued, busy, minted, chip, nameTick,
          procs, windows, history>>

Owner == {"sync", "name", "user"}
Cmd   == {"list", "getactive", "duplicate", "setactive"}
Goal  == {"high", "balanced", "report", "none"}
Proc  == [owner : Owner, cmd : Cmd, gen : Nat, goal : Goal, plans : SUBSET Plan,
          target : Plan \cup {NoPlan}, state : {"running", "exited"},
          ok : BOOLEAN, out : SUBSET Plan]

TypeOK ==
  /\ enabled \in BOOLEAN /\ passive \in BOOLEAN
  /\ generation \in Nat /\ wanted \in Mode
  /\ queued \in BOOLEAN /\ busy \in BOOLEAN
  /\ minted \in Plan \cup {NoPlan} /\ chip \in Plan \cup {NoPlan}
  /\ nameTick \in Nat
  /\ procs \subseteq Proc
  /\ installed \subseteq Plan /\ active \in Plan
  /\ faults \in Nat /\ promised \subseteq Plan /\ rivals \subseteq Owner

-----------------------------------------------------------------------------
\* Processes.

GoalOf(m) == IF m = Custom THEN "report"
             ELSE IF m \in HighModes THEN "high" ELSE "balanced"

\* What a request for mode m accepts as its outcome once nothing interferes.
Accepted(m) == CASE GoalOf(m) = "high"     -> HighPlans \cup Copies
                 [] GoalOf(m) = "balanced" -> BalancedPlans \cap installed
                 [] OTHER                  -> {}

NewProc(owner, cmd, gen, goal, target) ==
  [owner |-> owner, cmd |-> cmd, gen |-> gen, goal |-> goal, plans |-> {},
   target |-> target, state |-> "running", ok |-> FALSE, out |-> {}]

SyncList(gen, m) == NewProc("sync", "list", gen, GoalOf(m), NoPlan)
NameList(gen)    == NewProc("name", "list", gen, "none", NoPlan)

Chain == {p \in procs : p.owner # "user"}

FreshAlways(p) == TRUE                                            \* mutant
Fresh(p) == p.gen = generation

\* The continuation of p starts the next command of its chain.
Continue(p, cmd, target, plans) ==
  /\ procs' = (procs \ {p}) \cup
              {[NewProc(p.owner, cmd, p.gen, p.goal, target) EXCEPT !.plans = plans]}
  /\ UNCHANGED <<busy, queued>>

\* finishPlanChain: open the gate, or hand it to the request that waited.
FinishPlanChainDropping(p) ==                                     \* mutant
  busy' = FALSE /\ procs' = procs \ {p} /\ UNCHANGED queued
FinishPlanChain(p) ==
  IF queued /\ enabled /\ ~passive
  THEN /\ queued' = FALSE /\ busy' = TRUE
       /\ procs' = (procs \ {p}) \cup {SyncList(generation, wanted)}
  ELSE busy' = FALSE /\ procs' = procs \ {p} /\ UNCHANGED queued

\* applyActivePlan refuses in monitor mode and without a GUID.
Applicable(plan) == ~passive /\ plan # NoPlan

\* The local activate() of beginPlanChain with applyActivePlan inside it.
Activate(p, plan) ==
  IF Fresh(p) /\ Applicable(plan)
  THEN Continue(p, "setactive", plan, {})
  ELSE FinishPlanChain(p)

SetActiveOwners ==
  {q.owner : q \in {r \in procs : r.cmd = "setactive" /\ r.state = "running"}}

InvalidateNothingInFlight == queued' = FALSE /\ UNCHANGED generation \* mutant
\* ++m_planGeneration; m_planQueuedRequest = false
Invalidate ==
  /\ generation < MaxGeneration
  /\ generation' = generation + 1
  /\ queued' = FALSE

\* handlePlanSync(m) in a handler that has already brought the gate to b and
\* the processes to ps.  A request that finds the gate taken waits.
HandlePlanSyncUngated(m, b, ps) ==                                \* mutant
  /\ generation < MaxGeneration
  /\ generation' = generation + 1
  /\ wanted' = m
  /\ IF enabled' /\ ~passive'
     THEN /\ promised' = Accepted(m)
          /\ rivals' = SetActiveOwners \cap {"user"}
          /\ busy' = TRUE /\ queued' = FALSE
          /\ procs' = IF b THEN ps ELSE ps \cup {SyncList(generation + 1, m)}
     ELSE promised' = {} /\ rivals' = {} /\ queued' = FALSE /\ busy' = b /\ procs' = ps
HandlePlanSync(m, b, ps) ==
  /\ generation < MaxGeneration
  /\ generation' = generation + 1
  /\ wanted' = m
  /\ IF enabled' /\ ~passive'
     THEN /\ promised' = Accepted(m)
          /\ rivals' = SetActiveOwners \cap {"user"}
          /\ busy' = TRUE
          /\ IF b THEN queued' = TRUE /\ procs' = ps
             ELSE queued' = FALSE /\ procs' = ps \cup {SyncList(generation + 1, m)}
     ELSE promised' = {} /\ rivals' = {} /\ queued' = FALSE /\ busy' = b /\ procs' = ps

-----------------------------------------------------------------------------
\* The controller's entry points.

Init ==
  /\ enabled \in BOOLEAN /\ passive = FALSE
  /\ generation = 0 /\ wanted = DefaultMode /\ queued = FALSE /\ busy = FALSE
  /\ minted = NoPlan /\ chip = NoPlan /\ nameTick = 0
  /\ procs = {}
  /\ installed \in InitialPlans /\ active \in installed
  /\ faults = 0 /\ promised = {} /\ rivals = {}

RefreshDueAnyway == nameTick' = 0 /\ ~passive                     \* mutant
RefreshNever == FALSE                                             \* mutant
\* refreshActivePlanName starts a chain of its own unless the gate is taken.
RefreshDue == nameTick' = 0 /\ ~busy /\ ~passive

\* One tick: every RefreshEvery-th tick re-reads the plan name, and outside
\* monitor mode a thermal mode may be written (written = NoMode: none is, or the
\* write fails).  Which mode is ThermalControl's business: here it may be any.
Tick(written) ==
  LET busyR  == busy \/ RefreshDue
      procsR == IF RefreshDue THEN procs \cup {NameList(generation)} ELSE procs
  IN /\ nameTick' = (nameTick + 1) % RefreshEvery
     /\ UNCHANGED <<enabled, passive, minted, chip, windows, faults>>
     /\ IF written # NoMode
        THEN ~passive /\ HandlePlanSync(written, busyR, procsR)
        ELSE /\ busy' = busyR /\ procs' = procsR
             /\ UNCHANGED <<generation, wanted, queued, promised, rivals>>

\* The user picks a mode: forceNextModeWrite revokes the plan of the old mode
\* at once, the tick that writes the new mode requests the new plan.
ForceNextModeWrite ==
  /\ Invalidate
  /\ promised' = {} /\ rivals' = {}
  /\ UNCHANGED <<control, wanted, busy, minted, chip, nameTick, procs, windows, faults>>

SetPassiveSilently(on) ==                                         \* mutant
  /\ passive # on /\ passive' = on
  /\ chip' = IF on THEN NoPlan ELSE chip
  /\ UNCHANGED <<enabled, generation, wanted, queued, busy, minted, nameTick,
                 procs, windows, history>>
SetPassive(on) ==
  /\ passive # on
  /\ passive' = on
  /\ Invalidate
  /\ chip' = IF on THEN NoPlan ELSE chip
  /\ promised' = {} /\ rivals' = {}
  /\ UNCHANGED <<enabled, wanted, busy, minted, nameTick, procs, windows, faults>>

\* Settings "Restore defaults": reloadFromConfig on a cleared configuration, in
\* which the sync is enabled.
ReloadFromConfig ==
  /\ Invalidate
  /\ enabled' = TRUE
  /\ promised' = {} /\ rivals' = {}
  /\ UNCHANGED <<passive, wanted, busy, minted, chip, nameTick, procs, windows, faults>>

\* The Settings toggle.  Enabling it asks for the plan of the current mode m
\* (the last one written, else the baseline) at once.
SetPowerPlanSyncEnabled(on, m) ==
  /\ enabled # on
  /\ enabled' = on
  /\ UNCHANGED <<passive, minted, chip, nameTick, windows, faults>>
  /\ IF on /\ ~passive
     THEN HandlePlanSync(m, busy, procs)
     ELSE Invalidate /\ promised' = {} /\ rivals' = {} /\ UNCHANGED <<wanted, busy, procs>>

\* The user picks a plan on the Performance page: setActivePlan.  Its process does
\* not go through the gate.
SetActivePlan(plan) ==
  /\ Invalidate
  /\ IF Applicable(plan)
     THEN /\ procs' = procs \cup {NewProc("user", "setactive", generation + 1, "none", plan)}
          /\ promised' = {plan}
          /\ rivals' = SetActiveOwners
     ELSE procs' = procs /\ promised' = {} /\ rivals' = {}
  /\ UNCHANGED <<control, wanted, busy, minted, chip, nameTick, windows, faults>>

-----------------------------------------------------------------------------
\* Windows: powercfg processes run concurrently with everything else.

\* p has its effect on Windows, and reports out.
Effect(p, out) ==
  CASE p.cmd = "list"      -> out = installed /\ UNCHANGED windows
    [] p.cmd = "getactive" -> out = {active} /\ UNCHANGED windows
    [] p.cmd = "duplicate" -> \E c \in Copies \ installed :
                                /\ out = {c} /\ installed' = installed \cup {c}
                                /\ UNCHANGED active
    [] p.cmd = "setactive" -> out = {} /\ active' = p.target /\ UNCHANGED installed

Exited(p, ok, out) == [p EXCEPT !.state = "exited", !.ok = ok, !.out = out]

Execute(p) ==
  /\ p.state = "running"
  /\ \E out \in {installed, {active}, {}} \cup {{c} : c \in Copies} :
       Effect(p, out) /\ procs' = (procs \ {p}) \cup {Exited(p, TRUE, out)}
  /\ UNCHANGED <<control, generation, wanted, queued, busy, minted, chip, nameTick, history>>

\* p does not start, exits with an error, or hangs and is killed after 10 s (ok is
\* FALSE), or exits with success and an output in which no plan can be read, before
\* or after its effect on Windows.
Fail(p) ==
  /\ p.state = "running"
  /\ faults < MaxFaults
  /\ faults' = faults + 1
  /\ promised' = {} /\ rivals' = {}
  /\ \E ok \in BOOLEAN : /\ ok => p.cmd # "setactive"
                         /\ procs' = (procs \ {p}) \cup {Exited(p, ok, {})}
  /\ \/ UNCHANGED windows
     \/ /\ p.cmd \in {"duplicate", "setactive"}
        /\ \E out \in {{}} \cup {{c} : c \in Copies} : Effect(p, out)
  /\ UNCHANGED <<control, generation, wanted, queued, busy, minted, chip, nameTick>>

\* Someone else (the Windows settings, an OEM tool) switches the active plan.
ExternalSwitch(plan) ==
  /\ faults < MaxFaults
  /\ plan \in installed \ {active}
  /\ active' = plan
  /\ faults' = faults + 1
  /\ promised' = {} /\ rivals' = {}
  /\ UNCHANGED <<control, generation, wanted, queued, busy, minted, chip, nameTick,
                 procs, installed>>

-----------------------------------------------------------------------------
\* Continuations: the event loop delivers the end of process p.

SearchedPlans(goal) == IF goal = "high" THEN Recognised ELSE BalancedPlans

DeliverListEnds(p) ==                    \* stale or failed: the chain ends
  /\ ~Fresh(p) \/ ~p.ok
  /\ FinishPlanChain(p)

DeliverListReport(p) ==                  \* only the active plan's name is wanted
  /\ Fresh(p) /\ p.ok
  /\ p.owner = "name" \/ p.goal = "report"
  /\ Continue(p, "getactive", NoPlan, p.out)

DeliverListFound(p) ==                   \* a plan for the mode is installed
  /\ Fresh(p) /\ p.ok /\ p.goal \in {"high", "balanced"}
  /\ \E t \in p.out \cap SearchedPlans(p.goal) : Continue(p, "getactive", t, {})

MustMintAgain(p) == TRUE                                          \* mutant
\* No high plan is listed and none was created by this session.
MustMint(p) == minted = NoPlan

DeliverListMissing(p) ==                 \* no plan for the mode is installed
  /\ Fresh(p) /\ p.ok /\ p.goal \in {"high", "balanced"}
  /\ p.out \cap SearchedPlans(p.goal) = {}
  /\ IF p.goal = "balanced" THEN FinishPlanChain(p)
     ELSE IF MustMint(p) THEN Continue(p, "duplicate", NoPlan, {})
     ELSE Activate(p, minted)

DeliverList(p) ==
  /\ p.cmd = "list" /\ UNCHANGED <<minted, chip>>
  /\ DeliverListEnds(p) \/ DeliverListReport(p) \/ DeliverListFound(p) \/ DeliverListMissing(p)

\* A failed or unreadable query reports no plan, which matches nothing.
DeliverGetActive(p) ==
  /\ p.cmd = "getactive" /\ UNCHANGED minted
  /\ IF p.goal \in {"report", "none"}
     THEN /\ IF Fresh(p) /\ p.out \cap p.plans # {} THEN chip' \in p.out \cap p.plans
                                                   ELSE UNCHANGED chip
          /\ FinishPlanChain(p)
     ELSE IF Fresh(p) /\ p.out # {p.target}
     THEN Activate(p, p.target) /\ UNCHANGED chip
     ELSE chip' = (IF Fresh(p) THEN p.target ELSE chip) /\ FinishPlanChain(p)

\* The new scheme is remembered even when the request was superseded meanwhile,
\* provided its GUID can be read.
DeliverDuplicate(p) ==
  /\ p.cmd = "duplicate" /\ UNCHANGED chip
  /\ IF p.ok /\ p.out # {}
     THEN \E c \in p.out : minted' = c /\ Activate(p, c)
     ELSE UNCHANGED minted /\ FinishPlanChain(p)

DeliverSetActive(p) ==
  /\ p.cmd = "setactive" /\ UNCHANGED minted
  /\ IF p.owner = "user"
     THEN procs' = procs \ {p} /\ UNCHANGED <<busy, queued, chip>>
     ELSE /\ chip' = IF p.ok /\ Fresh(p) THEN p.target ELSE chip
          /\ FinishPlanChain(p)

Deliver(p) ==
  /\ p.state = "exited"
  /\ DeliverList(p) \/ DeliverGetActive(p) \/ DeliverDuplicate(p) \/ DeliverSetActive(p)
  /\ UNCHANGED <<control, generation, wanted, nameTick, windows, history>>

-----------------------------------------------------------------------------
Ticking == \E m \in Mode \cup {NoMode} : Tick(m)

Next ==
  \/ Ticking
  \/ ForceNextModeWrite
  \/ \E on \in BOOLEAN : SetPassive(on)
  \/ ReloadFromConfig
  \/ \E on \in BOOLEAN, m \in Mode : SetPowerPlanSyncEnabled(on, m)
  \/ \E plan \in installed \cup {NoPlan} : SetActivePlan(plan)
  \/ \E p \in procs : Execute(p)
  \/ \E p \in procs : Fail(p)
  \/ \E plan \in Plan : ExternalSwitch(plan)
  \/ \E p \in procs : Deliver(p)

\* The 1 Hz timer keeps ticking; every process ends, by itself or by its 10 s
\* timeout, and the event loop delivers every end.  The user owes nothing.
Fairness ==
  /\ WF_vars(Ticking)
  /\ WF_vars(\E p \in Chain : Execute(p) \/ Fail(p))
  /\ WF_vars(\E p \in procs \ Chain : Execute(p) \/ Fail(p))
  /\ WF_vars(\E p \in Chain : Deliver(p))
  /\ WF_vars(\E p \in procs \ Chain : Deliver(p))

Spec == Init /\ [][Next]_vars
FairSpec == Spec /\ Fairness
-----------------------------------------------------------------------------
\* Properties.

\* m_planBusy and the processes agree: the gate is taken exactly while one
\* process of one chain is in flight, so it neither leaks nor lets two chains
\* interleave (beginPlanChain, refreshActivePlanName, finishPlanChain).
GateHeld ==
  /\ busy <=> Chain # {}
  /\ \A p, q \in Chain : p = q

\* "A newer mode, disabling sync, or entering monitor mode invalidates all
\* not-yet-issued mutations": a continuation that still passes its generation
\* test serves the newest wanted mode, with the sync on and outside monitor mode.
\* The tests themselves look only at the generation.
FreshIsWanted ==
  \A p \in Chain : Fresh(p) =>
    /\ ~passive
    /\ p.owner = "sync" => enabled /\ p.goal = GoalOf(wanted)

\* A waiting request survives only while somebody will pick it up: the gate is
\* taken (by a name refresh or an older chain) and nothing has revoked it.
WaitingIsLive == queued => busy /\ enabled /\ ~passive

\* Monitor mode: the controller starts no powercfg process, and the plan chip
\* stays empty, whatever was in flight when monitor mode began.
MonitorIsSilent ==
  [][passive' => /\ chip' = NoPlan
                 /\ passive => \A p \in procs' \ procs : p.state = "exited"]_vars

\* "Never mint twice": once the session knows a scheme it created, powercfg
\* -duplicatescheme is never started again, and the known scheme is not forgotten.
MintOnce ==
  [][minted # NoPlan => /\ minted' = minted
                        /\ \A p \in procs' : p.cmd = "duplicate" => p \in procs]_vars

Settled == procs = {} /\ ~queued

\* The chain does its job: when all is quiet the active Windows plan is one the
\* newest undisturbed intention accepts: the plan the user picked last, or a plan
\* for the last mode written.  Intentions that met a /setactive already on its way
\* are left out: it may still land after theirs.
IntentionStands == Settled /\ promised # {} /\ rivals = {} => active \in promised

\* A request that waits behind a refresh or an older chain is not stranded.
NoStrandedRequest == queued ~> ~queued

\* Once mode changes, clicks and faults have ceased (the bounds end them), the
\* plan chip of the dashboard tells the truth outside monitor mode.
ChipTellsTruth == <>[](passive \/ chip = active)

\* The chain implements the one-request mailbox: serving is the generation of the
\* sync process in flight, and its command tells the stage.
SyncProcs == {p \in procs : p.owner = "sync"}
SyncProc  == CHOOSE p \in SyncProcs : TRUE
Serving   == IF SyncProcs = {} THEN 0 ELSE SyncProc.gen
Stage     == IF SyncProcs = {} THEN "idle"
             ELSE IF SyncProc.cmd \in {"list", "getactive"} THEN "reading" ELSE SyncProc.cmd

Mailbox == INSTANCE LatestRequest WITH
             gen <- generation, waiting <- queued, serving <- Serving, stage <- Stage

\* Every step is a step of the mailbox: nothing is issued for a request that is
\* not the newest.
NewestWins == Mailbox!Spec
=============================================================================
