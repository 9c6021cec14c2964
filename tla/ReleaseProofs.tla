---------------------------- MODULE ReleaseProofs ----------------------------
(***************************************************************************)
(* Theorems about Release, for any number of pushes, tags, runs and faults.  *)
(* The argument: origin only grows (main is appended to, a tag that exists   *)
(* keeps its commit), so what prepare found stays true until the upload, and *)
(* each step adds the one fact the upload needs.                             *)
(***************************************************************************)
EXTENDS Release, TLAPS

Grows ==
  /\ Main <= Main'
  /\ \A c \in 1 .. Main : history'[c] = history[c]
  /\ \A v \in Versions : tags[v] # 0 => tags'[v] = tags[v]

\* What is known of the plan of a run that has come to a step.
Fits(p, step) ==
  /\ p.head \in 1 .. Main /\ p.base \in 1 .. Main
  /\ p.built = [content |-> history[p.head].content, version |-> p.version]
  /\ p.mode = "validate" => step = "gates"
  /\ step = "push" => p.mode = "new"
  /\ (p.mode \in {"tag", "reuse"} \/ step \in {"check", "release", "upload"}) =>
       history[p.head].version = p.version
  /\ step \in {"release", "upload"} => tags[p.version] = p.head

PlanFits ==
  (active # None /\ active.step # "prepare") =>
    active.plan \in Plan /\ Fits(active.plan, active.step)

\* A run is asked for a commit of main.
Triggers ==
  /\ active # None => active.request.sha \in 1 .. Main
  /\ pending # None => pending.sha \in 1 .. Main
  /\ \A q \in ended : q.sha \in 1 .. Main

IInv == TypeOK /\ Triggers /\ PlanFits /\ ReleaseCommitsAreTagged /\ ReleasesAreTheirTags

-----------------------------------------------------------------------------
\* A plan that fits goes on fitting while origin grows.
LEMMA FitsStays ==
  ASSUME TypeOK, Grows, NEW p \in Plan, NEW s, Fits(p, s)
  PROVE  Fits(p, s)'
<1>1. p.version \in Versions /\ p.head \in 1 .. Main /\ p.base \in 1 .. Main
  BY DEF Plan, Fits
<1>2. history'[p.head] = history[p.head] /\ p.head \in 1 .. Main' /\ p.base \in 1 .. Main'
  BY <1>1 DEF Grows, TypeOK, Main
<1>3. s \in {"release", "upload"} => tags'[p.version] = p.head
  BY <1>1 DEF Fits, Grows
<1> QED BY <1>2, <1>3 DEF Fits

\* No release gets its files, and none is opened without its tag.
Unfilled ==
  \A v \in Versions : releases'[v] = releases[v] \/ (releases'[v] = Partial /\ tags[v] # 0)

\* Releases stay true while origin grows and no files are uploaded.
LEMMA ReleasesStay ==
  ASSUME TypeOK, Grows, ReleasesAreTheirTags, Unfilled
  PROVE  ReleasesAreTheirTags'
<1> SUFFICES ASSUME NEW v \in Versions, releases'[v] # None
             PROVE  /\ tags'[v] # 0
                    /\ releases'[v] # Partial =>
                         releases'[v] = SourceOf(tags[v])' /\ releases'[v].version = v
  BY DEF ReleasesAreTheirTags
<1>1. tags[v] \in 1 .. Main /\ tags'[v] = tags[v] /\ Main \in Nat
  BY DEF ReleasesAreTheirTags, TypeOK, Grows, Unfilled, Main
<1>2. history'[tags[v]] = history[tags[v]] /\ tags[v] # 0
  BY <1>1 DEF Grows
<1> QED BY <1>1, <1>2 DEF ReleasesAreTheirTags, SourceOf, Unfilled

\* A step that leaves origin alone lets it grow.
LEMMA RemoteStays ==
  ASSUME TypeOK, UNCHANGED remote
  PROVE  Grows
BY DEF TypeOK, remote, Grows, Main

\* A step that leaves the releases alone fills none.
LEMMA ReleasesUnfilled ==
  ASSUME UNCHANGED releases
  PROVE  Unfilled
BY DEF Unfilled

\* The plans of prepare are plans, and fit.
LEMMA PlansFit ==
  ASSUME TypeOK, NEW q \in Request, q.sha \in 1 .. Main, NEW p \in Plans(q)
  PROVE  p \in Plan /\ Fits(p, "gates")
<1> DEFINE Good(r) == r \in Plan /\ Fits(r, "gates")
<1>1. ASSUME NEW h \in 1 .. Main, NEW m \in {"validate", "tag", "new", "reuse"},
             NEW v \in Versions, NEW l \in SUBSET Commits,
             m \in {"tag", "reuse"} => history[h].version = v
      PROVE  Good(PlanOf(m, q.sha, h, v, l))
  <2>1. history[h] \in Commit BY <1>1 DEF TypeOK, Main
  <2>2. PlanOf(m, q.sha, h, v, l) \in Plan
    BY <1>1, <2>1 DEF PlanOf, Plan, Source, Commit, Commits
  <2>3. Fits(PlanOf(m, q.sha, h, v, l), "gates")
    BY <1>1 DEF PlanOf, Fits
  <2> QED BY <2>2, <2>3
<1>2. ASSUME NEW c \in 1 .. Main PROVE history[c].version \in Versions
  <2>1. history[c] \in Commit BY DEF TypeOK, Main
  <2> QED BY <2>1 DEF Commit
<1>3. Main \in 1 .. Main BY DEF TypeOK, Main
<1>4. CASE ~q.publish
  <2>1. p = PlanOf("validate", q.sha, q.sha, history[q.sha].version, {})
    BY <1>4 DEF Plans
  <2> QED BY <2>1, <1>1, <1>2
<1>5. CASE p \in TagPlans(q)
  <2>1. p = PlanOf("tag", q.sha, q.sha, q.tag, {}) /\ q.tag = history[q.sha].version
    BY <1>5 DEF TagPlans, TagMatches
  <2> QED BY <2>1, <1>1, <1>2
<1>6. ASSUME NEW c \in 1 .. Main, p \in ReusePlans(q, c) PROVE Good(p)
  <2>1. p = PlanOf("reuse", q.sha, c, history[c].version, {})
    BY <1>6 DEF ReusePlans
  <2> QED BY <2>1, <1>1, <1>2
<1>7. ASSUME NEW v, p \in NewPlans(q, v) PROVE Good(p)
  <2>1. p = PlanOf("new", q.sha, q.sha, v, Log(q.sha)) /\ v \in Versions
    BY <1>7 DEF NewPlans
  <2>2. Log(q.sha) \in SUBSET Commits BY DEF Log, Commits
  <2> QED BY <2>1, <2>2, <1>1
<1> QED
  <2>1. CASE q.publish /\ q.tag # NoTag BY <2>1, <1>5 DEF Plans
  <2>2. CASE q.publish /\ q.tag = NoTag
    <3>1. p \in BranchPlans(q) BY <2>2 DEF Plans
    <3> QED BY <3>1, <1>3, <1>6, <1>7 DEF BranchPlans
  <2> QED BY <2>1, <2>2, <1>4

-----------------------------------------------------------------------------
LEMMA InitInv == Init => IInv
<1> SUFFICES ASSUME Init PROVE IInv OBVIOUS
<1> USE DEF Init, Versions
<1>1. history \in Seq(Commit) /\ Main = 1 /\ history[1].base = 0
  <2>1. [version |-> 0, base |-> 0, content |-> 1, release |-> FALSE,
         entries |-> {0}, log |-> {}] \in Commit
    BY ReleaseAssumption DEF Commit, Commits
  <2> QED BY <2>1 DEF Main
<1>2. [content |-> 1, version |-> 0] \in Source
  BY ReleaseAssumption DEF Source, Commits
<1>3. TypeOK
  BY <1>1, <1>2, ReleaseAssumption DEF TypeOK
<1>4. ReleaseCommitsAreTagged
  BY <1>1 DEF ReleaseCommitsAreTagged, Bot
<1>5. ReleasesAreTheirTags
  BY DEF ReleasesAreTheirTags, SourceOf
<1> QED BY <1>3, <1>4, <1>5 DEF IInv, Triggers, PlanFits

\* What a request adds to the queue.
LEMMA EnqueueTypes ==
  ASSUME IInv, NEW q \in Request, q.sha \in 1 .. Main', Main <= Main', Main' \in Nat, Enqueue(q)
  PROVE  /\ pending' \in Request \cup {None} /\ ended' \subseteq Request
         /\ pending' # None => pending'.sha \in 1 .. Main'
         /\ \A r \in ended' : r.sha \in 1 .. Main'
<1>1. Main \in Nat BY DEF IInv, TypeOK, Main
<1>2. ended' \subseteq Request BY DEF IInv, TypeOK, Enqueue
<1>3. ASSUME NEW r \in ended' PROVE r.sha \in 1 .. Main'
  <2>1. r.sha \in 1 .. Main BY <1>3 DEF IInv, Triggers, Enqueue
  <2> QED BY <2>1, <1>1
<1> QED BY <1>2, <1>3 DEF Enqueue

\* A commit that the bot did not make keeps every release commit tagged.
LEMMA PushedCommit ==
  ASSUME IInv, PushCommit
  PROVE  /\ Main \in Nat /\ history' \in Seq(Commit) /\ Main' = Main + 1 /\ Grows
         /\ \A d \in Main + 1 .. Main' : history'[d].log = {} /\ ~Bot(d)'
<1>1. PICK c \in NextCommits : history' = Append(history, c)
  BY DEF PushCommit
<1>2. /\ Main \in Nat /\ Main # 0
      /\ \A d \in 1 .. Main : history[d] \in Commit
  BY DEF IInv, TypeOK, Main
<1>3. c \in Commit /\ c.log = {} /\ (c.base = 0 \/ c.base < Main)
  <2>1. Change \in Commit /\ Change.base = 0 /\ Change.log = {}
    <3> DEFINE g == [history[Main] EXCEPT !.base = 0]
               h == [g EXCEPT !.content = Main + 1]
               i == [h EXCEPT !.release = FALSE]
               j == [i EXCEPT !.log = {}]
    <3>1. history[Main] \in Commit BY <1>2
    <3>2. g \in Commit /\ g.base = 0 BY <3>1 DEF Commit
    <3>3. h \in Commit /\ h.base = 0
      <4>1. Main + 1 \in Commits BY <1>2 DEF Commits
      <4> QED BY <3>2, <4>1 DEF Commit
    <3>4. i \in Commit /\ i.base = 0 BY <3>3 DEF Commit
    <3>5. j \in Commit /\ j.base = 0 /\ j.log = {} BY <3>4 DEF Commit
    <3> QED BY <3>5 DEF Change
  <2>2. CASE c \in {[Change EXCEPT !.version = v] : v \in Versions}
    BY <2>1, <2>2 DEF Commit
  <2>3. CASE c \in {[Change EXCEPT !.version = v, !.entries = @ \cup {v}] : v \in Versions}
    <3>1. PICK v \in Versions :
            c = [Change EXCEPT !.version = v, !.entries = @ \cup {v}]
      BY <2>3
    <3>2. Change.entries \cup {v} \in SUBSET Versions BY <2>1, <3>1 DEF Commit
    <3>3. [Change EXCEPT !.version = v] \in Commit BY <2>1, <3>1 DEF Commit
    <3> QED BY <2>1, <3>1, <3>2, <3>3 DEF Commit
  <2>4. CASE c \in {CherryPick(d) : d \in {d \in 1 .. Main : Bot(d)}}
    <3>1. PICK d \in 1 .. Main : Bot(d) /\ c = CherryPick(d) BY <2>4
    <3>2. history[d] \in Commit /\ history[Main] \in Commit BY <1>2
    <3>3. c.base = d - 1 BY <3>1, <3>2 DEF CherryPick, Bot, Commit
    <3>4. c \in Commit /\ c.log = {} BY <3>1, <3>2 DEF CherryPick, Commit
    <3> QED BY <3>3, <3>4, <1>2
  <2> QED BY <2>2, <2>3, <2>4 DEF NextCommits
<1>4. /\ history' \in Seq(Commit) /\ Main' = Main + 1 /\ history'[Main + 1] = c
      /\ \A d \in 1 .. Main : history'[d] = history[d]
  BY <1>1, <1>2, <1>3 DEF IInv, TypeOK, Main
<1>5. Grows
  <2>1. tags' = tags BY DEF PushCommit
  <2> QED BY <2>1, <1>2, <1>4 DEF Grows
<1>6. ASSUME NEW d \in Main + 1 .. Main' PROVE history'[d].log = {} /\ ~Bot(d)'
  <2>1. d = Main + 1 BY <1>2, <1>4
  <2>2. c.base = 0 \/ c.base # d - 1 BY <2>1, <1>2, <1>3 DEF Commit, Commits
  <2> QED BY <2>1, <2>2, <1>3, <1>4 DEF Bot
<1> QED BY <1>2, <1>4, <1>5, <1>6

LEMMA PushCommitStep == ASSUME IInv, PushCommit PROVE IInv'
<1> DEFINE q == [tag |-> NoTag, sha |-> Main + 1, publish |-> TRUE]
<1>1. Main \in Nat /\ Main # 0 BY DEF IInv, TypeOK, Main
<1>2. /\ history' \in Seq(Commit) /\ Main' = Main + 1 /\ Grows
      /\ \A d \in Main + 1 .. Main' : ~Bot(d)'
  BY PushedCommit
<1>3. q \in Request BY <1>1 DEF Request, Commits
<1>4. /\ pending' \in Request \cup {None} /\ ended' \subseteq Request
      /\ pending' # None => pending'.sha \in 1 .. Main'
      /\ \A r \in ended' : r.sha \in 1 .. Main'
  <2>1. Enqueue(q) BY DEF PushCommit
  <2> QED BY <2>1, <1>1, <1>2, <1>3, EnqueueTypes
<1>5. TypeOK'
  <2>1. tags' \in [Versions -> {0} \cup 1 .. Main']
    BY <1>1, <1>2 DEF PushCommit, IInv, TypeOK
  <2>2. pushes' \in 0 .. MaxPushes
    BY ReleaseAssumption DEF PushCommit, IInv, TypeOK
  <2> QED BY <2>1, <2>2, <1>1, <1>2, <1>4 DEF PushCommit, IInv, TypeOK
<1>6. Triggers'
  BY <1>1, <1>2, <1>4 DEF PushCommit, IInv, Triggers
<1>7. PlanFits'
  BY <1>2, FitsStays DEF PushCommit, IInv, PlanFits
<1>8. ReleaseCommitsAreTagged'
  <2> SUFFICES ASSUME NEW d \in 1 .. Main', Bot(d)' PROVE tags'[history'[d].version] = d
    BY DEF ReleaseCommitsAreTagged
  <2>1. CASE d \in 1 .. Main
    <3>1. history'[d] = history[d] /\ tags' = tags BY <2>1, <1>2 DEF Grows, PushCommit
    <3>2. Bot(d) BY <3>1 DEF Bot
    <3> QED BY <2>1, <3>1, <3>2 DEF IInv, ReleaseCommitsAreTagged
  <2>2. CASE d = Main + 1
    BY <2>2, <1>2
  <2> QED BY <2>1, <2>2, <1>1, <1>2
<1>9. ReleasesAreTheirTags'
  BY <1>2, ReleasesUnfilled, ReleasesStay DEF PushCommit, IInv
<1> QED BY <1>5, <1>6, <1>7, <1>8, <1>9 DEF IInv

LEMMA PushTagStep == ASSUME IInv, PushTag PROVE IInv'
<1>1. PICK v \in Versions, c \in 1 .. Main :
        /\ tags[v] = 0 /\ tags' = [tags EXCEPT ![v] = c]
        /\ Enqueue([tag |-> v, sha |-> c, publish |-> TRUE])
  BY DEF PushTag
<1>2. history' = history /\ Main' = Main /\ Main \in Nat
  BY DEF PushTag, IInv, TypeOK, Main
<1>3. tags \in [Versions -> {0} \cup 1 .. Main] /\ tags' \in [Versions -> {0} \cup 1 .. Main]
  BY <1>1 DEF IInv, TypeOK
<1>4. Grows BY <1>1, <1>2, <1>3 DEF Grows
<1>5. /\ pending' \in Request \cup {None} /\ ended' \subseteq Request
      /\ pending' # None => pending'.sha \in 1 .. Main'
      /\ \A r \in ended' : r.sha \in 1 .. Main'
  <2>1. [tag |-> v, sha |-> c, publish |-> TRUE] \in Request BY <1>1, <1>2 DEF Request, Commits
  <2> QED BY <2>1, <1>1, <1>2, EnqueueTypes
<1>6. TypeOK'
  <2>1. handTags' \in 0 .. MaxHandTags
    BY ReleaseAssumption DEF PushTag, IInv, TypeOK
  <2> QED BY <2>1, <1>2, <1>3, <1>5 DEF PushTag, IInv, TypeOK
<1>7. Triggers' BY <1>2, <1>5 DEF PushTag, IInv, Triggers
<1>8. PlanFits' BY <1>4, FitsStays DEF PushTag, IInv, PlanFits
<1>9. ReleaseCommitsAreTagged'
  <2> SUFFICES ASSUME NEW d \in 1 .. Main, Bot(d) PROVE tags'[history[d].version] = d
    BY <1>2 DEF ReleaseCommitsAreTagged, Bot
  <2>1. history[d].version \in Versions
    <3>1. history[d] \in Commit BY DEF IInv, TypeOK, Main
    <3> QED BY <3>1 DEF Commit
  <2>2. tags[history[d].version] = d BY DEF IInv, ReleaseCommitsAreTagged
  <2> QED BY <2>1, <2>2, <1>4 DEF Grows
<1>10. ReleasesAreTheirTags'
  BY <1>4, ReleasesUnfilled, ReleasesStay DEF PushTag, IInv
<1> QED BY <1>6, <1>7, <1>8, <1>9, <1>10 DEF IInv

\* Steps that leave origin alone and fill no release.
LEMMA QuietStep ==
  ASSUME IInv, UNCHANGED <<remote, pushes, handTags>>,
         Unfilled, releases' \in [Versions -> Source \cup {None, Partial}],
         active' = None \/ active' \in [request : Request, step : Steps, plan : Plan \cup {None}],
         pending' \in Request \cup {None}, ended' \subseteq Request,
         runs' \in 0 .. MaxRuns, faults' \in 0 .. MaxFaults,
         Triggers', PlanFits'
  PROVE  IInv'
<1>1. history' = history /\ tags' = tags /\ Main' = Main BY DEF remote, Main
<1>2. TypeOK' BY <1>1 DEF IInv, TypeOK
<1>3. ReleaseCommitsAreTagged' BY <1>1 DEF IInv, ReleaseCommitsAreTagged, Bot
<1>4. ReleasesAreTheirTags' BY RemoteStays, ReleasesStay DEF IInv
<1> QED BY <1>2, <1>3, <1>4 DEF IInv

\* A run that ends leaves its request to be re-run.
LEMMA EndStep ==
  ASSUME IInv, active # None, End, UNCHANGED <<remote, pending>>
  PROVE  ended' \subseteq Request /\ active' = None /\ Triggers' /\ PlanFits'
<1>1. Main' = Main BY DEF remote, Main
<1>2. active.request \in Request BY DEF IInv, TypeOK
<1>3. Triggers' BY <1>1 DEF IInv, Triggers, End
<1> QED BY <1>2, <1>3 DEF IInv, TypeOK, End, PlanFits

LEMMA QueueSteps == ASSUME IInv, Dispatch \/ Retry \/ Start PROVE IInv'
<1>1. Main' = Main /\ Main \in Nat /\ history' = history /\ tags' = tags
  BY DEF Dispatch, Retry, Start, remote, IInv, TypeOK, Main
<1>2. ASSUME NEW q \in Request, q.sha \in 1 .. Main, Enqueue(q),
             UNCHANGED <<remote, releases, active, pushes, handTags>>,
             runs' \in 0 .. MaxRuns, faults' \in 0 .. MaxFaults
      PROVE  IInv'
  <2>1. /\ pending' \in Request \cup {None} /\ ended' \subseteq Request
        /\ pending' # None => pending'.sha \in 1 .. Main'
        /\ \A r \in ended' : r.sha \in 1 .. Main'
    BY <1>1, <1>2, EnqueueTypes
  <2>2. Triggers' BY <2>1, <1>1, <1>2 DEF IInv, Triggers
  <2>3. PlanFits' BY <1>2, RemoteStays, FitsStays DEF IInv, PlanFits
  <2>4. active' = None \/ active' \in [request : Request, step : Steps, plan : Plan \cup {None}]
    BY <1>2 DEF IInv, TypeOK
  <2> QED BY <1>2, <2>1, <2>2, <2>3, <2>4, ReleasesUnfilled, QuietStep DEF IInv, TypeOK
<1>3. CASE Dispatch
  <2>1. PICK q \in Dispatches \cup ended : Enqueue(q) BY <1>3 DEF Dispatch
  <2>2. q \in Request /\ q.sha \in 1 .. Main
    <3>1. CASE q \in ended BY <3>1 DEF IInv, TypeOK, Triggers
    <3>2. CASE q \in {[tag |-> NoTag, sha |-> Main, publish |-> b] : b \in BOOLEAN}
      BY <3>2, <1>1 DEF IInv, TypeOK, Request, Commits
    <3>3. CASE q \in {[tag |-> v, sha |-> tags[v], publish |-> b] :
                        v \in {v \in Versions : tags[v] # 0}, b \in BOOLEAN}
      <4>1. PICK v \in Versions, b \in BOOLEAN :
              tags[v] # 0 /\ q = [tag |-> v, sha |-> tags[v], publish |-> b]
        BY <3>3
      <4>2. tags[v] \in 1 .. Main BY <4>1 DEF IInv, TypeOK
      <4> QED BY <4>1, <4>2, <1>1 DEF Request, Commits
    <3> QED BY <2>1, <3>1, <3>2, <3>3 DEF Dispatches
  <2>3. runs' \in 0 .. MaxRuns /\ faults' \in 0 .. MaxFaults
    BY <1>3, ReleaseAssumption DEF Dispatch, IInv, TypeOK
  <2>4. UNCHANGED <<remote, releases, active, pushes, handTags>> BY <1>3 DEF Dispatch
  <2> QED BY <2>1, <2>2, <2>3, <2>4, <1>2
<1>4. CASE Retry
  <2>1. PICK q \in ended : Enqueue(q) BY <1>4 DEF Retry
  <2>2. q \in Request /\ q.sha \in 1 .. Main BY DEF IInv, TypeOK, Triggers
  <2>3. UNCHANGED <<remote, releases, active, counts>> BY <1>4 DEF Retry
  <2>4. runs' \in 0 .. MaxRuns /\ faults' \in 0 .. MaxFaults
    BY <2>3 DEF counts, IInv, TypeOK
  <2> QED BY <2>1, <2>2, <2>3, <2>4, <1>2 DEF counts
<1>5. CASE Start
  <2>1. /\ pending # None /\ pending' = None /\ ended' = ended
        /\ active' = [request |-> pending, step |-> "prepare", plan |-> None]
        /\ UNCHANGED <<remote, releases, counts>>
    BY <1>5 DEF Start
  <2>2. active' \in [request : Request, step : Steps, plan : Plan \cup {None}]
    BY <2>1 DEF IInv, TypeOK, Steps
  <2>3. Triggers' BY <2>1, <1>1 DEF IInv, Triggers
  <2>4. PlanFits' BY <2>1 DEF PlanFits
  <2> QED BY <2>1, <2>2, <2>3, <2>4, ReleasesUnfilled, QuietStep DEF counts, IInv, TypeOK
<1> QED BY <1>3, <1>4, <1>5

\* Steps of the run that push nothing and upload nothing completely.
LEMMA LocalSteps ==
  ASSUME IInv, Prepare \/ GatesPass \/ Finalize \/ Check \/ OpenRelease \/ Fault
  PROVE  IInv'
<1>1. active # None /\ UNCHANGED <<remote, pending, pushes, handTags, runs>>
  BY DEF Prepare, GatesPass, Finalize, Check, OpenRelease, Fault, At, counts
<1>2. Unfilled /\ releases' \in [Versions -> Source \cup {None, Partial}]
  <2>1. releases \in [Versions -> Source \cup {None, Partial}]
    BY DEF IInv, TypeOK
  <2>2. CASE UNCHANGED releases
    BY <2>1, <2>2, ReleasesUnfilled
  <2> DEFINE v == active.plan.version
  <2>3. CASE OpenRelease \/ (At("upload") /\ releases' = [releases EXCEPT ![v] = Partial])
    <3>1. /\ active.step \in {"release", "upload"}
          /\ \/ releases' = [releases EXCEPT ![v] = Opened(releases[v])]
             \/ releases' = [releases EXCEPT ![v] = Partial]
      BY <2>3 DEF OpenRelease, At
    <3>2. v \in Versions /\ tags[v] # 0
      BY <1>1, <3>1 DEF IInv, PlanFits, Fits, Plan
    <3> QED BY <2>1, <3>1, <3>2 DEF Unfilled, Opened
  <2> QED BY <2>2, <2>3 DEF Prepare, GatesPass, Finalize, Check, Fault
<1>3. Main' = Main /\ history' = history /\ tags' = tags
  BY <1>1 DEF remote, Main
<1>4. /\ active \in [request : Request, step : Steps, plan : Plan \cup {None}]
      /\ active.request.sha \in 1 .. Main
      /\ pending' \in Request \cup {None} /\ runs' \in 0 .. MaxRuns
  BY <1>1 DEF IInv, TypeOK, Triggers
<1>5. faults' \in 0 .. MaxFaults
  <2>1. faults \in 0 .. MaxFaults /\ MaxFaults \in Nat
    BY ReleaseAssumption DEF IInv, TypeOK
  <2>2. CASE Fault
    <3>1. faults < MaxFaults /\ faults' = faults + 1 BY <2>2 DEF Fault
    <3> QED BY <2>1, <3>1
  <2>3. CASE Prepare \/ GatesPass \/ Finalize \/ Check \/ OpenRelease
    <3>1. faults' = faults
      BY <2>3 DEF Prepare, GatesPass, Finalize, Check, OpenRelease, counts
    <3> QED BY <2>1, <3>1
  <2> QED BY <2>2, <2>3
<1>6. CASE End
  <2>1. ended' \subseteq Request /\ active' = None /\ Triggers' /\ PlanFits'
    BY <1>1, <1>6, EndStep
  <2> QED BY <2>1, <1>1, <1>2, <1>4, <1>5, QuietStep
\* A run that goes on to a step its plan fits.
<1>7. ASSUME NEW s \in Steps, NEW p \in Plan, Fits(p, s),
             active' = [active EXCEPT !.plan = p, !.step = s], UNCHANGED ended
      PROVE  IInv'
  <2>1. /\ active' \in [request : Request, step : Steps, plan : Plan \cup {None}]
        /\ active'.plan = p /\ active'.step = s /\ active'.request = active.request
    BY <1>4, <1>7
  <2>2. Triggers' BY <2>1, <1>1, <1>3, <1>4, <1>7 DEF IInv, Triggers
  <2>3. PlanFits'
    <3>1. Fits(p, s)' BY <1>1, <1>7, RemoteStays, FitsStays DEF IInv
    <3> QED BY <3>1, <2>1, <1>7 DEF PlanFits
  <2>4. ended' \subseteq Request BY <1>7 DEF IInv, TypeOK
  <2> QED BY <2>1, <2>2, <2>3, <2>4, <1>1, <1>2, <1>4, <1>5, QuietStep
<1>8. ASSUME NEW s \in Steps, active.step # "prepare", Goto(s), Fits(active.plan, s)
      PROVE  IInv'
  <2>1. active.plan \in Plan BY <1>1, <1>8 DEF IInv, PlanFits
  <2>2. active' = [active EXCEPT !.plan = active.plan, !.step = s]
    BY <1>4, <1>8 DEF Goto
  <2> QED BY <2>1, <2>2, <1>7, <1>8 DEF Goto
<1>9. CASE Prepare /\ ~End
  <2>1. PICK p \in Plans(active.request) : active' = [active EXCEPT !.plan = p, !.step = "gates"]
    BY <1>9 DEF Prepare
  <2>2. p \in Plan /\ Fits(p, "gates") BY <1>4, PlansFit DEF IInv
  <2>3. UNCHANGED ended BY <1>9 DEF Prepare
  <2> QED BY <2>1, <2>2, <2>3, <1>7 DEF Steps
<1>10. CASE GatesPass /\ ~End
  <2>1. active.step = "gates" /\ active.plan.mode # "validate" /\ Goto("finalize")
    BY <1>10 DEF GatesPass, At
  <2>2. Fits(active.plan, "finalize")
    BY <2>1, <1>1 DEF IInv, PlanFits, Fits
  <2> QED BY <2>1, <2>2, <1>8 DEF Steps
<1>11. CASE Finalize /\ ~End
  <2>1. /\ active.step = "finalize" /\ Unmoved(active.plan)
        /\ Goto(IF active.plan.mode = "new" THEN "push" ELSE "check")
    BY <1>11 DEF Finalize, At
  <2>2. active.plan \in Plan /\ Fits(active.plan, "finalize")
    BY <2>1, <1>1 DEF IInv, PlanFits
  <2>3. active.plan.mode \in {"new", "tag", "reuse"} BY <2>2 DEF Plan, Fits
  <2>4. CASE active.plan.mode = "new"
    <3>1. Fits(active.plan, "push") BY <2>2, <2>4 DEF Fits
    <3> QED BY <3>1, <2>1, <2>4, <1>8 DEF Steps
  <2>5. CASE active.plan.mode \in {"tag", "reuse"}
    <3>1. Fits(active.plan, "check") BY <2>2, <2>5 DEF Fits
    <3> QED BY <3>1, <2>1, <2>5, <1>8 DEF Steps
  <2> QED BY <2>3, <2>4, <2>5
<1>12. CASE Check /\ ~End
  <2>1. /\ active.step = "check" /\ Goto("release")
        /\ tags[active.plan.version] = active.plan.head
    BY <1>12 DEF Check, At
  <2>2. Fits(active.plan, "release")
    BY <2>1, <1>1 DEF IInv, PlanFits, Fits
  <2> QED BY <2>1, <2>2, <1>8 DEF Steps
<1>13. CASE OpenRelease
  <2>1. active.step = "release" /\ Goto("upload")
    BY <1>13 DEF OpenRelease, At
  <2>2. Fits(active.plan, "upload")
    BY <2>1, <1>1 DEF IInv, PlanFits, Fits
  <2> QED BY <2>1, <2>2, <1>8 DEF Steps
<1>14. Fault => End BY DEF Fault
<1> QED BY <1>6, <1>9, <1>10, <1>11, <1>12, <1>13, <1>14

\* The atomic push: the release commit and its tag, or neither.
LEMMA PushedRelease ==
  ASSUME IInv, Push, Main = active.plan.base, tags[active.plan.version] = 0
  PROVE  /\ active.plan \in Plan /\ Fits(active.plan, "push")
         /\ Main \in Nat /\ history' \in Seq(Commit) /\ Main' = Main + 1
         /\ history'[Main + 1] = ReleaseCommit(active.plan)
         /\ \A d \in 1 .. Main : history'[d] = history[d]
         /\ tags' \in [Versions -> {0} \cup 1 .. Main']
         /\ tags'[active.plan.version] = Main + 1
         /\ \A v \in Versions : v # active.plan.version => tags'[v] = tags[v]
         /\ Grows /\ active'.step = "check"
         /\ active' = [active EXCEPT !.step = "check", !.plan.head = Main + 1]
         /\ ended' = ended
<1> DEFINE p == active.plan
           c == ReleaseCommit(p)
<1>1. active # None /\ active.step = "push" /\ PushAtomic(p)
  BY DEF Push, At
<1>2. /\ active \in [request : Request, step : Steps, plan : Plan \cup {None}]
      /\ p \in Plan /\ Fits(p, "push") /\ p.version \in Versions
      /\ Main \in Nat /\ Main # 0
      /\ tags \in [Versions -> {0} \cup 1 .. Main]
  BY <1>1 DEF IInv, TypeOK, PlanFits, Plan, Main
<1>3. history' = Append(history, c) /\ tags' = [tags EXCEPT ![p.version] = Main + 1]
  BY <1>1 DEF PushAtomic
<1>4. c \in Commit
  <2>1. history[p.base] \in Commit BY <1>2 DEF IInv, TypeOK, Main
  <2>2. history[p.base].entries \cup {p.version} \in SUBSET Versions
    BY <2>1, <1>2 DEF Commit
  <2> QED BY <2>2, <1>2 DEF ReleaseCommit, Commit, Plan, Source
<1>5. /\ history' \in Seq(Commit) /\ Main' = Main + 1 /\ history'[Main + 1] = c
      /\ \A d \in 1 .. Main : history'[d] = history[d]
  BY <1>3, <1>4, <1>2 DEF IInv, TypeOK, Main
<1>6. /\ tags' \in [Versions -> {0} \cup 1 .. Main'] /\ tags'[p.version] = Main + 1
      /\ \A v \in Versions : v # p.version => tags'[v] = tags[v]
  <2>1. tags \in [Versions -> {0} \cup 1 .. Main + 1] BY <1>2
  <2> QED BY <1>3, <1>5, <2>1, <1>2
<1>7. Grows BY <1>5, <1>6, <1>2 DEF Grows
<1>8. tags' # tags BY <1>6, <1>2
<1>9. active' = [active EXCEPT !.step = "check", !.plan.head = Main + 1] /\ ended' = ended
  BY <1>8 DEF Push
<1> QED BY <1>2, <1>5, <1>6, <1>7, <1>9

LEMMA PushStep == ASSUME IInv, Push PROVE IInv'
<1> DEFINE p == active.plan
<1>1. /\ active # None /\ active.step = "push" /\ PushAtomic(p)
      /\ UNCHANGED <<releases, pending, counts>>
  BY DEF Push, At
<1>2. /\ active \in [request : Request, step : Steps, plan : Plan \cup {None}]
      /\ p \in Plan /\ Fits(p, "push") /\ p.version \in Versions
      /\ Main \in Nat /\ Main # 0
  BY <1>1 DEF IInv, TypeOK, PlanFits, Plan, Main
<1>3. CASE ~(Main = p.base /\ tags[p.version] = 0)
  <2>1. UNCHANGED remote BY <1>1, <1>3 DEF PushAtomic
  <2>2. End BY <2>1 DEF Push, remote
  <2>3. ended' \subseteq Request /\ active' = None /\ Triggers' /\ PlanFits'
    BY <2>1, <2>2, <1>1, EndStep
  <2>4. /\ pending' \in Request \cup {None} /\ runs' \in 0 .. MaxRuns
        /\ faults' \in 0 .. MaxFaults /\ UNCHANGED <<pushes, handTags>>
    BY <1>1 DEF IInv, TypeOK, counts
  <2> QED BY <2>1, <2>3, <2>4, <1>1, ReleasesUnfilled, QuietStep DEF IInv, TypeOK
<1>4. CASE Main = p.base /\ tags[p.version] = 0
  <2> DEFINE c == ReleaseCommit(p)
  <2>1. /\ history' \in Seq(Commit) /\ Main' = Main + 1 /\ history'[Main + 1] = c
        /\ \A d \in 1 .. Main : history'[d] = history[d]
        /\ tags' \in [Versions -> {0} \cup 1 .. Main'] /\ tags'[p.version] = Main + 1
        /\ \A v \in Versions : v # p.version => tags'[v] = tags[v]
        /\ Grows /\ active'.step = "check"
        /\ active' = [active EXCEPT !.step = "check", !.plan.head = Main + 1] /\ ended' = ended
    BY <1>4, PushedRelease
  <2> DEFINE r == [p EXCEPT !.head = Main + 1]
  <2>2. r \in Plan /\ r.head = Main + 1 /\ r.version = p.version /\ r.base = p.base
        /\ r.built = p.built /\ r.mode = p.mode
    <3>1. Main + 1 \in Commits BY <1>2 DEF Commits
    <3> QED BY <3>1, <1>2 DEF Plan
  <2>3. /\ active' \in [request : Request, step : Steps, plan : Plan \cup {None}]
        /\ active'.plan = r /\ active'.step = "check" /\ active'.request = active.request
    BY <2>1, <2>2, <1>2 DEF Steps
  <2>4. TypeOK'
    BY <2>1, <2>3, <1>1, <1>2 DEF IInv, TypeOK, counts
  <2>5. Triggers'
    BY <2>1, <2>3, <1>1, <1>2 DEF IInv, Triggers
  <2>6. PlanFits'
    <3>1. c.content = p.built.content /\ c.version = p.version BY DEF ReleaseCommit
    <3>2. p.built = [content |-> p.built.content, version |-> p.version]
      BY <1>2 DEF Fits
    <3>3. p.mode = "new" BY <1>2 DEF Fits
    <3>4. /\ r.head \in 1 .. Main' /\ r.base \in 1 .. Main'
          /\ history'[r.head] = c
      BY <2>1, <2>2, <1>2, <1>4
    <3>5. r.built = [content |-> history'[r.head].content, version |-> r.version]
      BY <2>2, <3>1, <3>2, <3>4
    <3>6. history'[r.head].version = r.version BY <2>2, <3>1, <3>4
    <3>7. /\ r.head \in 1 .. Main' /\ r.base \in 1 .. Main'
          /\ r.built = [content |-> history'[r.head].content, version |-> r.version]
          /\ r.mode = "new" /\ history'[r.head].version = r.version
      BY <2>2, <3>3, <3>4, <3>5, <3>6
    <3> HIDE DEF r, c, p
    <3>8. (active.plan \in Plan /\ Fits(active.plan, active.step))'
      BY <2>2, <2>3, <3>7 DEF Fits
    <3> QED BY <3>8 DEF PlanFits
  <2>7. ReleaseCommitsAreTagged'
    <3> SUFFICES ASSUME NEW d \in 1 .. Main', Bot(d)' PROVE tags'[history'[d].version] = d
      BY DEF ReleaseCommitsAreTagged
    <3>1. CASE d \in 1 .. Main
      <4>1. history[d] \in Commit BY <3>1 DEF IInv, TypeOK, Main
      <4>2. tags[history[d].version] = d
        BY <3>1, <2>1 DEF ReleaseCommitsAreTagged, Bot, IInv
      <4>3. history[d].version \in Versions BY <4>1 DEF Commit
      <4> QED BY <3>1, <4>2, <4>3, <2>1, <1>4
    <3>2. CASE d = Main + 1
      BY <3>2, <2>1 DEF ReleaseCommit
    <3> QED BY <3>1, <3>2, <2>1, <1>2
  <2>8. ReleasesAreTheirTags' BY <2>1, <1>1, ReleasesUnfilled, ReleasesStay DEF IInv
  <2> QED BY <2>4, <2>5, <2>6, <2>7, <2>8 DEF IInv
<1> QED BY <1>3, <1>4

LEMMA UploadStep == ASSUME IInv, Upload PROVE IInv'
<1> DEFINE p == active.plan
<1>1. /\ active # None /\ active.step = "upload" /\ End
      /\ releases' = [releases EXCEPT ![p.version] = p.built]
      /\ UNCHANGED <<remote, pending, counts>>
  BY DEF Upload, At
<1>2. p \in Plan /\ Fits(p, "upload") /\ p.version \in Versions /\ p.built \in Source
  BY <1>1 DEF IInv, PlanFits, Plan
<1>3. history' = history /\ tags' = tags /\ Main' = Main BY <1>1 DEF remote, Main
<1>4. ended' \subseteq Request /\ active' = None /\ Triggers' /\ PlanFits'
  BY <1>1, EndStep
<1>5. releases' \in [Versions -> Source \cup {None, Partial}]
  BY <1>1, <1>2 DEF IInv, TypeOK
<1>6. TypeOK' BY <1>1, <1>3, <1>4, <1>5 DEF IInv, TypeOK, counts
<1>7. ReleaseCommitsAreTagged' BY <1>3 DEF IInv, ReleaseCommitsAreTagged, Bot
<1>8. ReleasesAreTheirTags'
  <2> SUFFICES ASSUME NEW v \in Versions, releases'[v] # None
               PROVE  /\ tags[v] # 0
                      /\ releases'[v] # Partial =>
                           releases'[v] = SourceOf(tags[v]) /\ releases'[v].version = v
    BY <1>3 DEF ReleasesAreTheirTags, SourceOf
  <2>1. CASE v = p.version
    <3>1. releases'[v] = p.built BY <2>1, <1>1 DEF IInv, TypeOK
    <3>2. tags[v] = p.head /\ history[p.head].version = v /\ p.head \in 1 .. Main
      BY <2>1, <1>2 DEF Fits
    <3>3. p.built = [content |-> history[p.head].content, version |-> v]
      BY <2>1, <1>2 DEF Fits
    <3> QED BY <3>1, <3>2, <3>3 DEF SourceOf
  <2>2. CASE v # p.version
    <3>1. releases'[v] = releases[v] BY <2>2, <1>1 DEF IInv, TypeOK
    <3> QED BY <3>1 DEF IInv, ReleasesAreTheirTags
  <2> QED BY <2>1, <2>2
<1> QED BY <1>4, <1>6, <1>7, <1>8 DEF IInv

-----------------------------------------------------------------------------
LEMMA NextInv == ASSUME IInv, [Next]_vars PROVE IInv'
<1>1. CASE Next
  BY <1>1, PushCommitStep, PushTagStep, QueueSteps, LocalSteps, PushStep, UploadStep DEF Next, Work
<1>2. CASE UNCHANGED vars
  <2>1. UNCHANGED <<remote, releases, active, queue, counts>> BY <1>2 DEF vars
  <2>2. history' = history /\ tags' = tags /\ Main' = Main BY <2>1 DEF remote, Main
  <2>3. Triggers' BY <2>1, <2>2 DEF queue, IInv, Triggers
  <2>4. PlanFits' BY <2>1, RemoteStays, FitsStays DEF IInv, PlanFits
  <2> QED BY <2>1, <2>3, <2>4, ReleasesUnfilled, QuietStep DEF queue, counts, IInv, TypeOK
<1> QED BY <1>1, <1>2

\* The inductive invariant of the release workflow.
THEOREM Invariance == Spec => []IInv
<1>1. Init => IInv BY InitInv
<1>2. IInv /\ [Next]_vars => IInv' BY NextInv
<1> QED BY <1>1, <1>2, PTL DEF Spec

\* Type correctness: in particular no tag points beyond main.
THEOREM TypeCorrect == Spec => []TypeOK
<1>1. IInv => TypeOK BY DEF IInv
<1> QED BY <1>1, Invariance, PTL

\* finalize never leaves a release commit on main without its tag, whatever is
\* pushed between its check and its push.
THEOREM ReleaseCommitsKeepTheirTags == Spec => []ReleaseCommitsAreTagged
<1>1. IInv => ReleaseCommitsAreTagged BY DEF IInv
<1> QED BY <1>1, Invariance, PTL

\* What publish_release puts on GitHub under a version was built from the source
\* its tag names, and reports that version.
THEOREM PublishedIsTagged == Spec => []ReleasesAreTheirTags
<1>1. IInv => ReleasesAreTheirTags BY DEF IInv
<1> QED BY <1>1, Invariance, PTL

-----------------------------------------------------------------------------
\* The changelog.  A release lists what is not covered; the log is made by
\* prepare and committed by finalize, so the run has to know it still holds.

LogsBehind ==
  \A c \in 1 .. Main : /\ history[c].log \subseteq 1 .. c - 1
                       /\ ~Bot(c) => history[c].log = {}

LogFits(p) ==
  /\ p.log # {} /\ p.log \subseteq 1 .. p.base
  /\ \A d \in p.log : ~Bot(d) /\ LoggedIn(d) = {}
  /\ \A d \in 1 .. p.base : d \in p.log \/ Covered(d)

NewLogFits ==
  (active # None /\ active.step \in {"gates", "finalize", "push"} /\ active.plan.mode = "new")
    => LogFits(active.plan)

LogInv == LogsBehind /\ ChangesAreLogged /\ NewLogFits

\* Nothing about the changelog changes when developers push.
LEMMA LogsStay ==
  ASSUME IInv, TypeOK', Grows, LogsBehind, ChangesAreLogged,
         \A c \in Main + 1 .. Main' : history'[c].log = {} /\ ~Bot(c)'
  PROVE  /\ LogsBehind' /\ ChangesAreLogged'
         /\ \A p \in Plan : p.base \in 1 .. Main /\ LogFits(p) => LogFits(p)'
<1>1. /\ Main \in Nat /\ Main' \in Nat /\ Main <= Main'
      /\ \A d \in 1 .. Main : history'[d] = history[d] /\ (Bot(d)' <=> Bot(d))
  BY DEF IInv, TypeOK, Main, Grows, Bot
<1>2. ASSUME NEW d \in 1 .. Main' PROVE LoggedIn(d)' = LoggedIn(d)
  BY <1>1 DEF LoggedIn
<1>3. ASSUME NEW d \in 1 .. Main, Covered(d) PROVE Covered(d)'
  <2>1. CASE \E v \in Versions : tags[v] >= d /\ ~Bot(tags[v])
    <3>1. PICK v \in Versions : tags[v] >= d /\ ~Bot(tags[v]) BY <2>1
    <3>2. tags[v] \in 1 .. Main /\ tags'[v] = tags[v]
      <4>1. tags[v] \in {0} \cup 1 .. Main BY DEF IInv, TypeOK
      <4> QED BY <3>1, <4>1, <1>1 DEF Grows
    <3>3. tags'[v] >= d /\ ~Bot(tags[v])' BY <3>1, <3>2, <1>1 DEF Bot
    <3> QED BY <3>3 DEF Covered
  <2> QED BY <2>1, <1>1, <1>2, <1>3 DEF Covered
<1>4. LogsBehind' BY <1>1 DEF LogsBehind
<1>5. ChangesAreLogged'
  <2> SUFFICES ASSUME NEW d \in 1 .. Main'
               PROVE  /\ Bot(d)' => LoggedIn(d)' = {} /\ history'[d].log # {}
                      /\ \A b, c \in LoggedIn(d)' : b = c
                      /\ (\E c \in d .. Main' : Bot(c)') => Covered(d)'
    BY DEF ChangesAreLogged
  <2>1. CASE d \in 1 .. Main
    <3>1. (\E c \in d .. Main' : Bot(c)') => \E c \in d .. Main : Bot(c)
      BY <2>1, <1>1
    <3> QED BY <2>1, <3>1, <1>1, <1>2, <1>3 DEF ChangesAreLogged
  <2>2. CASE d \in Main + 1 .. Main'
    <3>1. LoggedIn(d) = {} BY <2>2, <1>1 DEF LoggedIn, LogsBehind
    <3>2. ~\E c \in d .. Main' : Bot(c)' BY <2>2, <1>1
    <3> QED BY <2>2, <3>1, <3>2, <1>1, <1>2
  <2> QED BY <2>1, <2>2, <1>1
<1>6. ASSUME NEW p \in Plan, p.base \in 1 .. Main, LogFits(p) PROVE LogFits(p)'
  <2>1. p.base \in 1 .. Main BY <1>6
  <2>2. \A d \in p.log : d \in 1 .. Main BY <2>1, <1>1, <1>6 DEF LogFits
  <2>3. \A d \in p.log : ~Bot(d)' /\ LoggedIn(d)' = {}
    BY <2>2, <1>1, <1>2, <1>6 DEF LogFits
  <2>4. \A d \in 1 .. p.base : d \in p.log \/ Covered(d)'
    BY <2>1, <1>1, <1>3, <1>6 DEF LogFits
  <2> QED BY <2>3, <2>4, <1>6 DEF LogFits
<1> QED BY <1>4, <1>5, <1>6

\* The log of prepare: the changes after the nearest tag are not in any log, and
\* what is before it is covered.
LEMMA NewPlansFitLog ==
  ASSUME IInv, ChangesAreLogged, LogsBehind, NEW q \in Request, q.sha = Main,
         NEW v, NEW p \in NewPlans(q, v)
  PROVE  LogFits(p)
<1>1. p.log = Log(Main) /\ p.log # {} /\ p.base = Main
  BY DEF NewPlans, PlanOf
<1>2. Main \in Nat /\ \A c \in 1 .. Main : history[c] \in Commit
  BY DEF IInv, TypeOK, Main
<1>3. ASSUME NEW c \in 1 .. Main, Bot(c) PROVE \E u \in Versions : tags[u] = c
  <2>1. history[c].version \in Versions BY <1>2 DEF Commit
  <2> QED BY <2>1, <1>3 DEF IInv, ReleaseCommitsAreTagged
<1>4. ASSUME NEW d \in Log(Main) PROVE ~Bot(d) /\ LoggedIn(d) = {}
  <2>1. d \in 1 .. Main /\ \A u \in Versions : tags[u] \notin d .. Main
    BY <1>4 DEF Log
  <2>2. \A c \in d .. Main : ~Bot(c) BY <2>1, <1>3, <1>2
  <2>3. ASSUME NEW c \in LoggedIn(d) PROVE FALSE
    <3>1. c \in 1 .. Main /\ d \in history[c].log BY DEF LoggedIn
    <3>2. d < c /\ c \in d .. Main BY <2>1, <3>1, <1>2 DEF LogsBehind
    <3>3. ~Bot(c) BY <2>2, <3>2
    <3>4. history[c].log = {} BY <3>1, <3>3 DEF LogsBehind
    <3> QED BY <3>1, <3>4
  <2> QED BY <2>1, <2>2, <2>3, <1>2
<1>5. ASSUME NEW d \in 1 .. Main, d \notin Log(Main) PROVE Covered(d)
  <2>1. PICK u \in Versions : tags[u] \in d .. Main BY <1>5 DEF Log
  <2>2. CASE Bot(tags[u])
    BY <2>1, <2>2, <1>2 DEF ChangesAreLogged
  <2>3. CASE ~Bot(tags[u])
    BY <2>1, <2>3, <1>2 DEF Covered
  <2> QED BY <2>2, <2>3
<1> QED BY <1>1, <1>4, <1>5, <1>2 DEF LogFits, Log

\* A run that ends, or carries its plan on, keeps what is known of its log.
LEMMA LogQuietStep ==
  ASSUME IInv, IInv', LogInv, Grows,
         \A c \in Main + 1 .. Main' : history'[c].log = {} /\ ~Bot(c)',
         \/ active' = active \/ active' = None
         \/ \E s \in Steps : /\ active' = [active EXCEPT !.step = s] /\ active # None
                            /\ active.step \in {"gates", "finalize"}
         \/ active'.step \in {"prepare", "check", "release", "upload"}
  PROVE  LogInv'
<1>1. /\ LogsBehind' /\ ChangesAreLogged'
      /\ \A p \in Plan : p.base \in 1 .. Main /\ LogFits(p) => LogFits(p)'
  BY LogsStay DEF IInv, LogInv
<1>2. NewLogFits'
  <2> SUFFICES ASSUME active' # None, active'.step \in {"gates", "finalize", "push"},
                      active'.plan.mode = "new"
               PROVE  LogFits(active.plan)'
    BY DEF NewLogFits
  <2>1. CASE active' = active
    <3>1. active.plan \in Plan /\ active.plan.base \in 1 .. Main
      BY <2>1 DEF IInv, PlanFits, Fits
    <3>2. LogFits(active.plan) BY <2>1 DEF LogInv, NewLogFits
    <3>3. active'.plan = active.plan BY <2>1
    <3> QED BY <3>1, <3>2, <3>3, <1>1 DEF LogFits
  <2>2. CASE \E s \in Steps : /\ active' = [active EXCEPT !.step = s] /\ active # None
                             /\ active.step \in {"gates", "finalize"}
    <3>1. active'.plan = active.plan BY <2>2 DEF IInv, TypeOK
    <3>2. active.plan \in Plan /\ active.plan.base \in 1 .. Main
      BY <2>2 DEF IInv, PlanFits, Fits
    <3>3. LogFits(active.plan) BY <2>2, <3>1 DEF LogInv, NewLogFits
    <3> QED BY <3>1, <3>2, <3>3, <1>1 DEF LogFits
  <2> QED BY <2>1, <2>2
<1> QED BY <1>1, <1>2 DEF LogInv

\* The log of a new plan fits; no other plan has a log to commit.
LEMMA PrepareLogs == ASSUME IInv, IInv', LogInv, Prepare PROVE LogInv'
<1>1. UNCHANGED remote /\ Main' = Main BY DEF Prepare, remote, Main
<1>2. Grows BY <1>1, RemoteStays DEF IInv
<1>3. Main \in Nat BY DEF IInv, TypeOK, Main
<1>4. CASE End
  BY <1>1, <1>2, <1>3, <1>4, LogQuietStep DEF End
<1>5. CASE ~End
  <2>1. PICK p \in Plans(active.request) : active' = [active EXCEPT !.plan = p, !.step = "gates"]
    BY <1>5 DEF Prepare
  <2> DEFINE q == active.request
  <2>2. /\ active \in [request : Request, step : Steps, plan : Plan \cup {None}]
        /\ q \in Request /\ q.sha \in 1 .. Main
    BY DEF Prepare, At, IInv, TypeOK, Triggers
  <2>3. p \in Plan /\ Fits(p, "gates") BY <2>2, PlansFit DEF IInv
  <2>4. /\ LogsBehind' /\ ChangesAreLogged'
        /\ \A r \in Plan : r.base \in 1 .. Main /\ LogFits(r) => LogFits(r)'
    BY <1>1, <1>2, <1>3, LogsStay DEF IInv, LogInv
  <2>5. ASSUME p.mode = "new" PROVE LogFits(p)
    <3>1. q.publish /\ q.tag = NoTag
      BY <2>5 DEF Plans, TagPlans, PlanOf
    <3>2. p \in BranchPlans(q) BY <3>1 DEF Plans
    <3>3. \A c : p \notin ReusePlans(q, c) BY <2>5 DEF ReusePlans, PlanOf
    <3>4. Main = q.sha /\ p \in NewPlans(q, history[q.sha].version + 1)
      BY <3>2, <3>3 DEF BranchPlans
    <3> QED BY <3>4, <2>2, NewPlansFitLog DEF LogInv
  <2>6. active'.plan = p BY <2>1, <2>2
  <2>7. NewLogFits'
    <3>1. p.mode = "new" => LogFits(p)' BY <2>3, <2>4, <2>5 DEF Fits
    <3>2. (active.plan.mode = "new" => LogFits(active.plan))'
      BY <2>6, <3>1 DEF LogFits
    <3> QED BY <3>2 DEF NewLogFits
  <2> QED BY <2>4, <2>7 DEF LogInv
<1> QED BY <1>4, <1>5

\* The pushed release lists exactly what was not covered.
LEMMA PushLogs == ASSUME IInv, IInv', LogInv, Push PROVE LogInv'
<1> DEFINE p == active.plan
           fresh == Main + 1
<1>1. active # None /\ active.step = "push" /\ PushAtomic(p) /\ Main \in Nat
  BY DEF Push, At, IInv, TypeOK, Main
<1>2. CASE ~(Main = p.base /\ tags[p.version] = 0)
  <2>1. UNCHANGED remote BY <1>1, <1>2 DEF PushAtomic
  <2>2. active' = None BY <2>1 DEF Push, remote, End
  <2>3. Grows /\ Main' = Main BY <2>1, RemoteStays DEF IInv, remote, Main
  <2> QED BY <1>1, <2>2, <2>3, LogQuietStep
<1>3. CASE Main = p.base /\ tags[p.version] = 0
  <2>1. /\ p \in Plan /\ Fits(p, "push") /\ Main' = fresh
        /\ history'[fresh] = ReleaseCommit(p)
        /\ \A d \in 1 .. Main : history'[d] = history[d]
        /\ Grows /\ active'.step = "check"
    BY <1>3, PushedRelease
  <2>2. history'[fresh].log = p.log /\ history'[fresh].base = Main
    BY <2>1, <1>3 DEF ReleaseCommit
  <2>3. LogFits(p) /\ p.mode = "new"
    BY <1>1, <2>1 DEF LogInv, NewLogFits, Fits
  <2>4. p.log \subseteq 1 .. Main /\ p.log # {} BY <2>3, <1>3 DEF LogFits
  <2>5. ASSUME NEW d \in 1 .. Main PROVE Bot(d)' <=> Bot(d)
    BY <2>1 DEF Bot
  <2>6. ASSUME NEW d, d = fresh PROVE Bot(d)'
    <3>1. Main # 0 BY DEF IInv, TypeOK
    <3> QED BY <2>6, <3>1, <2>2, <1>1 DEF Bot
  <2>7. ASSUME NEW d \in 1 .. fresh
        PROVE  LoggedIn(d)' = LoggedIn(d) \cup (IF d \in p.log THEN {fresh} ELSE {})
    BY <2>1, <2>2, <1>1 DEF LoggedIn
  <2>8. ASSUME NEW d, d = fresh PROVE LoggedIn(d) = {} /\ d \notin p.log
    <3>1. \A c \in 1 .. Main : d \notin history[c].log
      BY <2>8, <1>1 DEF LogInv, LogsBehind
    <3> QED BY <2>4, <2>8, <3>1, <1>1 DEF LoggedIn
  <2>9. ASSUME NEW d \in 1 .. Main, Covered(d) PROVE Covered(d)'
    <3>1. CASE \E v \in Versions : tags[v] >= d /\ ~Bot(tags[v])
      <4>1. PICK v \in Versions : tags[v] >= d /\ ~Bot(tags[v]) BY <3>1
      <4>2. tags[v] \in 1 .. Main /\ tags'[v] = tags[v]
        <5>1. tags[v] \in {0} \cup 1 .. Main BY DEF IInv, TypeOK
        <5> QED BY <4>1, <5>1, <1>1, <2>1 DEF Grows
      <4>3. tags'[v] >= d /\ ~Bot(tags[v])' BY <4>1, <4>2, <2>1 DEF Bot
      <4> QED BY <4>3 DEF Covered
    <3>2. CASE Bot(d) BY <3>2, <2>5 DEF Covered
    <3>3. CASE LoggedIn(d) # {} BY <3>3, <2>7, <2>1, <1>1 DEF Covered
    <3> QED BY <2>9, <3>1, <3>2, <3>3 DEF Covered
  <2>10. LogsBehind'
    <3> SUFFICES ASSUME NEW c \in 1 .. fresh
                 PROVE  history'[c].log \subseteq 1 .. c - 1 /\ (~Bot(c)' => history'[c].log = {})
      BY <2>1 DEF LogsBehind
    <3>1. CASE c \in 1 .. Main BY <3>1, <2>1, <2>5 DEF LogInv, LogsBehind
    <3>2. CASE c = fresh BY <3>2, <2>2, <2>4, <2>6, <1>1
    <3> QED BY <3>1, <3>2, <1>1
  <2>11. ChangesAreLogged'
    <3> SUFFICES ASSUME NEW d \in 1 .. fresh
                 PROVE  /\ Bot(d)' => LoggedIn(d)' = {} /\ history'[d].log # {}
                        /\ \A b, c \in LoggedIn(d)' : b = c
                        /\ Covered(d)'
      BY <2>1 DEF ChangesAreLogged
    <3>1. CASE d = fresh
      BY <3>1, <2>2, <2>4, <2>6, <2>7, <2>8 DEF Covered
    <3>2. CASE d \in p.log
      <4>1. d \in 1 .. Main /\ ~Bot(d) /\ LoggedIn(d) = {} BY <3>2, <2>3, <2>4 DEF LogFits
      <4>2. LoggedIn(d)' = {fresh} BY <3>2, <4>1, <2>7
      <4> QED BY <4>1, <4>2, <2>5 DEF Covered
    <3>3. CASE d \in 1 .. Main /\ d \notin p.log
      <4>1. LoggedIn(d)' = LoggedIn(d) BY <3>3, <2>7
      <4>2. Covered(d)' BY <3>3, <2>3, <2>9, <1>3 DEF LogFits
      <4> QED BY <3>3, <4>1, <4>2, <2>1, <2>5 DEF LogInv, ChangesAreLogged
    <3> QED BY <3>1, <3>2, <3>3, <1>1
  <2>12. NewLogFits' BY <2>1 DEF NewLogFits
  <2> QED BY <2>10, <2>11, <2>12 DEF LogInv
<1> QED BY <1>2, <1>3

LEMMA LogNext == ASSUME IInv, IInv', LogInv, [Next]_vars PROVE LogInv'
<1>1. Main \in Nat BY DEF IInv, TypeOK, Main
<1>2. CASE PushCommit
  <2>1. active' = active BY <1>2 DEF PushCommit
  <2> QED BY <1>2, <2>1, PushedCommit, LogQuietStep
<1>3. CASE PushTag
  <2>1. active' = active /\ history' = history /\ Main' = Main BY <1>3 DEF PushTag, Main
  <2>2. Grows
    <3>1. PICK v \in Versions, c \in 1 .. Main : tags[v] = 0 /\ tags' = [tags EXCEPT ![v] = c]
      BY <1>3 DEF PushTag
    <3> QED BY <2>1, <3>1, <1>1 DEF Grows, IInv, TypeOK
  <2> QED BY <1>1, <2>1, <2>2, LogQuietStep
\* The other steps but Push leave origin alone.
<1>4. ASSUME UNCHANGED remote,
             \/ active' = active \/ active' = None
             \/ \E s \in Steps : /\ active' = [active EXCEPT !.step = s] /\ active # None
                                /\ active.step \in {"gates", "finalize"}
             \/ active'.step \in {"prepare", "check", "release", "upload"}
      PROVE  LogInv'
  <2>1. Grows /\ Main' = Main BY <1>4, RemoteStays DEF IInv, remote, Main
  <2> QED BY <1>1, <1>4, <2>1, LogQuietStep
<1>5. CASE Dispatch \/ Retry
  BY <1>4, <1>5 DEF Dispatch, Retry
<1>6. CASE Start
  <2>1. active'.step = "prepare" /\ UNCHANGED remote BY <1>6 DEF Start
  <2> QED BY <1>4, <2>1
<1>7. CASE GatesPass \/ Finalize
  <2>1. /\ UNCHANGED remote /\ active # None /\ active.step \in {"gates", "finalize"}
        /\ End \/ \E s \in Steps : Goto(s)
    BY <1>7 DEF GatesPass, Finalize, At, Steps
  <2> QED BY <1>4, <2>1 DEF End, Goto
<1>8. CASE Check \/ OpenRelease
  <2>1. UNCHANGED remote /\ (End \/ \E s \in {"release", "upload"} : Goto(s))
    BY <1>8 DEF Check, OpenRelease
  <2>2. \A s \in {"release", "upload"} : Goto(s) => active'.step = s
    <3>1. active \in [request : Request, step : Steps, plan : Plan \cup {None}]
      BY <1>8 DEF Check, OpenRelease, At, IInv, TypeOK
    <3> QED BY <3>1 DEF Goto
  <2> QED BY <1>4, <2>1, <2>2 DEF End
<1>9. CASE Upload \/ Fault
  BY <1>4, <1>9 DEF Upload, Fault, End
<1>10. CASE UNCHANGED vars
  BY <1>4, <1>10 DEF vars
<1> QED BY <1>2, <1>3, <1>5, <1>6, <1>7, <1>8, <1>9, <1>10, PrepareLogs, PushLogs DEF Next, Work

\* No version is bumped for nothing or twice, and each automatic release lists
\* every change before it that is not in an earlier list or behind a tag that a
\* developer pushed.
THEOREM ChangelogIsComplete == Spec => []ChangesAreLogged
<1>1. Init => LogInv
  <2> SUFFICES ASSUME Init PROVE LogInv OBVIOUS
  <2>1. Main = 1 /\ history[1].base = 0 /\ history[1].log = {} BY DEF Init, Main
  <2> QED BY <2>1 DEF Init, LogInv, LogsBehind, ChangesAreLogged, NewLogFits, LoggedIn, Bot
<1>2. IInv /\ IInv' /\ LogInv /\ [Next]_vars => LogInv' BY LogNext
<1>3. LogInv => ChangesAreLogged BY DEF LogInv
<1> QED BY <1>1, <1>2, <1>3, Invariance, PTL DEF Spec
=============================================================================
