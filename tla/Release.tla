------------------------------- MODULE Release -------------------------------
(***************************************************************************)
(* scripts/release.py under .github/workflows/build.yml: prepare (no remote  *)
(* writes), the gates, finalize (commit, then an atomic push of main and the *)
(* tag) and publish.  Runs are serialised by the workflow's concurrency      *)
(* group; developers push commits and tags, dispatch and re-run at any time, *)
(* and a run may die after any step.                                        *)
(*                                                                          *)
(* main is history[1], history[2], ...: it is never force-pushed, so the     *)
(* parent of commit c is c - 1 and the tip is the last one.  A version is    *)
(* its patch number; tag v1.1.n is n.                                       *)
(***************************************************************************)
EXTENDS Integers, Sequences

CONSTANTS
  MaxPatch,       \* the largest patch number (65535 in the code)
  MaxPushes,      \* bound on commits pushed by developers
  MaxHandTags,    \* bound on tags pushed by developers
  MaxRuns,        \* bound on dispatches and re-runs out of curiosity
  MaxFaults,      \* bound on failing gates, dying runners, refused API calls
  NoTag, None,
  Partial         \* a release that is not public yet, or lacks some of its files

ASSUME ReleaseAssumption ==
  /\ {MaxPatch, MaxPushes, MaxHandTags, MaxRuns, MaxFaults} \subseteq Nat
  /\ NoTag \notin Nat

VARIABLES
  history,        \* commits of origin/main
  tags,           \* origin's tags: the commit, or 0
  releases,       \* GitHub releases: the source their files were built from, or Partial
  active,         \* the run in progress
  pending,        \* the run waiting for it
  ended,          \* what can be re-run
  pushes, handTags, runs, faults

remote == <<history, tags>>
queue  == <<pending, ended>>
counts == <<pushes, handTags, runs, faults>>
vars == <<remote, releases, active, queue, counts>>

Versions == 0 .. MaxPatch
Commits  == Nat \ {0}
Main == Len(history)

Source  == [content : Commits, version : Versions]
Commit  == [version  : Versions,            \* AppInfo.h, CMake and app.rc agree
            base     : Commits \cup {0},    \* DTB-Release-Base
            content  : Commits,             \* the code: the commit that changed it last
            release  : BOOLEAN,             \* changes RELEASE_FILES only
            entries  : SUBSET Versions,     \* sections of CHANGELOG.md
            log      : SUBSET Commits]      \* changes its own section lists
Request == [tag : Versions \cup {NoTag}, sha : Commits, publish : BOOLEAN]
Plan    == [mode : {"validate", "tag", "new", "reuse"}, base : Commits,
            head : Commits, version : Versions, log : SUBSET Commits,
            built : Source]                 \* what the gates are run on
Steps   == {"prepare", "gates", "finalize", "push", "check", "release", "upload"}

TypeOK ==
  /\ history \in Seq(Commit) /\ Main # 0
  /\ tags \in [Versions -> {0} \cup 1 .. Main]
  /\ releases \in [Versions -> Source \cup {None, Partial}]
  /\ active = None \/ active \in [request : Request, step : Steps, plan : Plan \cup {None}]
  /\ pending \in Request \cup {None} /\ ended \subseteq Request
  /\ pushes \in 0 .. MaxPushes /\ handTags \in 0 .. MaxHandTags
  /\ runs \in 0 .. MaxRuns /\ faults \in 0 .. MaxFaults

\* Only the bot's own commit names its parent as its base.
Bot(c) == history[c].base # 0 /\ history[c].base = c - 1

SourceOf(c) == [content |-> history[c].content, version |-> history[c].version]

Init ==
  /\ history = <<[version |-> 0, base |-> 0, content |-> 1, release |-> FALSE,
                  entries |-> {0}, log |-> {}]>>
  /\ tags = [v \in Versions |-> IF v = 0 THEN 1 ELSE 0]
  /\ releases = [v \in Versions |-> IF v = 0 THEN [content |-> 1, version |-> 0] ELSE None]
  /\ active = None /\ pending = None /\ ended = {}
  /\ pushes = 0 /\ handTags = 0 /\ runs = 0 /\ faults = 0

-----------------------------------------------------------------------------
\* The concurrency group: one run, one waiting; a newer one replaces the latter.

Enqueue(q) ==
  /\ pending' = q
  /\ ended' = ended \cup ({pending} \ {None})

Start ==
  /\ active = None /\ pending # None
  /\ active' = [request |-> pending, step |-> "prepare", plan |-> None]
  /\ pending' = None
  /\ UNCHANGED <<remote, releases, ended, counts>>

\* A run that succeeds, is refused or dies can be re-run with the commit that triggered it.
End ==
  /\ active' = None
  /\ ended' = ended \cup {active.request}

-----------------------------------------------------------------------------
\* Developers.

Change == [history[Main] EXCEPT !.base = 0, !.content = Main + 1,
                                !.release = FALSE, !.log = {}]

CherryPick(c) == [history[c] EXCEPT !.content = history[Main].content, !.log = {},
                                    !.entries = @ \cup history[Main].entries]

\* A change, which may set the version by hand, with or without a changelog
\* section; a release commit cherry-picked with its message.
NextCommits ==
  {[Change EXCEPT !.version = v] : v \in Versions}
  \cup {[Change EXCEPT !.version = v, !.entries = @ \cup {v}] : v \in Versions}
  \cup {CherryPick(c) : c \in {c \in 1 .. Main : Bot(c)}}

PushCommit ==
  /\ pushes < MaxPushes /\ pushes' = pushes + 1
  /\ \E c \in NextCommits : history' = Append(history, c)
  /\ Enqueue([tag |-> NoTag, sha |-> Main + 1, publish |-> TRUE])
  /\ UNCHANGED <<tags, releases, active, handTags, runs, faults>>

PushTag ==
  /\ handTags < MaxHandTags /\ handTags' = handTags + 1
  /\ \E v \in Versions, c \in 1 .. Main :
       /\ tags[v] = 0
       /\ tags' = [tags EXCEPT ![v] = c]
       /\ Enqueue([tag |-> v, sha |-> c, publish |-> TRUE])
  /\ UNCHANGED <<history, releases, active, pushes, runs, faults>>

Dispatches ==
  {[tag |-> NoTag, sha |-> Main, publish |-> p] : p \in BOOLEAN}
  \cup {[tag |-> v, sha |-> tags[v], publish |-> p] :
          v \in {v \in Versions : tags[v] # 0}, p \in BOOLEAN}

Dispatch ==
  /\ runs < MaxRuns /\ runs' = runs + 1
  /\ \E q \in Dispatches \cup ended : Enqueue(q)
  /\ UNCHANGED <<remote, releases, active, pushes, handTags, faults>>

Unpublished == Bot(Main) /\ releases[history[Main].version] \in {None, Partial}

\* "Re-run the failed run": done until the release that was pushed is published.
Retry ==
  /\ active = None /\ pending = None /\ Unpublished
  /\ \E q \in ended : /\ q.publish /\ q.tag = NoTag
                      /\ q.sha \in {Main, history[Main].base}
                      /\ Enqueue(q)
  /\ UNCHANGED <<remote, releases, active, counts>>

-----------------------------------------------------------------------------
\* prepare.

\* git log from the nearest tag v* (git describe) to the commit.
LogWithoutBase(c) == {d \in 1 .. c - 1 : \A v \in Versions : tags[v] \notin d .. c}  \* mutant
Log(c) == {d \in 1 .. c : \A v \in Versions : tags[v] \notin d .. c}

ReusableUntagged(c, base, v) ==                                    \* mutant
  history[c].base = base /\ c = base + 1 /\ history[c].release /\ tags[v] = 0
Reusable(c, base, v) ==
  /\ history[c].base = base /\ c = base + 1 /\ history[c].release
  /\ v \in Versions /\ tags[v] = c

PlanOf(mode, base, head, v, log) ==
  [mode |-> mode, base |-> base, head |-> head, version |-> v, log |-> log,
   built |-> [content |-> history[head].content, version |-> v]]

TagMatchesAnything(q) == tags[q.tag] = q.sha                       \* mutant
TagMatches(q) == q.tag = history[q.sha].version /\ tags[q.tag] = q.sha

\* notes_from_changelog refuses a version without a section.
TagPlans(q) ==
  IF TagMatches(q) /\ q.tag \in history[q.sha].entries
  THEN {PlanOf("tag", q.sha, q.sha, q.tag, {})}
  ELSE {}

ReusePlans(q, c) ==
  IF history[c].version \in history[c].entries
  THEN {PlanOf("reuse", q.sha, c, history[c].version, {})}
  ELSE {}

\* make_notes refuses an empty log, bump a patch number that is too large.
NewPlans(q, v) ==
  IF v \in Versions /\ tags[v] = 0 /\ Log(q.sha) # {}
  THEN {PlanOf("new", q.sha, q.sha, v, Log(q.sha))}
  ELSE {}

BranchPlans(q) ==
  LET own  == history[q.sha]
      next == own.version + 1
  IN IF Main = q.sha /\ own.base # 0 /\ Reusable(q.sha, own.base, own.version)
     THEN ReusePlans(q, q.sha)
     ELSE IF Main = q.sha THEN NewPlans(q, next)
     ELSE IF Reusable(Main, q.sha, next) /\ history[Main].version = next
     THEN ReusePlans(q, Main) ELSE {}

\* No plan: prepare raises and the run fails.
Plans(q) ==
  IF ~q.publish THEN {PlanOf("validate", q.sha, q.sha, history[q.sha].version, {})}
  ELSE IF q.tag # NoTag THEN TagPlans(q) ELSE BranchPlans(q)

At(step) == active # None /\ active.step = step

Goto(step) == active' = [active EXCEPT !.step = step] /\ UNCHANGED ended

Prepare ==
  /\ At("prepare")
  /\ LET plans == Plans(active.request)
     IN IF plans = {} THEN End
        ELSE /\ \E p \in plans : active' = [active EXCEPT !.plan = p, !.step = "gates"]
             /\ UNCHANGED ended
  /\ UNCHANGED <<remote, releases, pending, counts>>

GatesPass ==
  /\ At("gates")
  /\ IF active.plan.mode = "validate" THEN End ELSE Goto("finalize")
  /\ UNCHANGED <<remote, releases, pending, counts>>

-----------------------------------------------------------------------------
\* finalize.

Unmoved(p) ==
  CASE p.mode = "new"   -> Main = p.base /\ tags[p.version] = 0
    [] p.mode = "tag"   -> tags[p.version] = p.head
    [] p.mode = "reuse" -> tags[p.version] = p.head /\ Main = p.head

Finalize ==
  /\ At("finalize")
  /\ IF ~Unmoved(active.plan) THEN End
     ELSE Goto(IF active.plan.mode = "new" THEN "push" ELSE "check")
  /\ UNCHANGED <<remote, releases, pending, counts>>

ReleaseCommit(p) ==
  [version |-> p.version, base |-> p.base, content |-> p.built.content, release |-> TRUE,
   entries |-> history[p.base].entries \cup {p.version}, log |-> p.log]

\* git refuses to move a tag and to push main anywhere but forward.
PushEach(p) ==                                                     \* mutant
  /\ history' = IF Main = p.base THEN Append(history, ReleaseCommit(p)) ELSE history
  /\ tags' = IF tags[p.version] = 0 THEN [tags EXCEPT ![p.version] = Main + 1] ELSE tags
PushAtomic(p) ==
  IF Main = p.base /\ tags[p.version] = 0
  THEN /\ history' = Append(history, ReleaseCommit(p))
       /\ tags' = [tags EXCEPT ![p.version] = Main + 1]
  ELSE UNCHANGED remote

Push ==
  /\ At("push") /\ PushAtomic(active.plan)
  /\ IF tags' = tags THEN End
     ELSE /\ active' = [active EXCEPT !.step = "check", !.plan.head = Main + 1]
          /\ UNCHANGED ended
  /\ UNCHANGED <<releases, pending, counts>>

-----------------------------------------------------------------------------
\* publish_release.  plan.head is by now its release_sha.

Check ==
  /\ At("check")
  /\ IF tags[active.plan.version] = active.plan.head THEN Goto("release") ELSE End
  /\ UNCHANGED <<remote, releases, pending, counts>>

\* Create the release, or edit the one that is there, whose files stay for now.
Opened(r) == IF r = None THEN Partial ELSE r

OpenRelease ==
  /\ At("release")
  /\ releases' = [releases EXCEPT ![active.plan.version] = Opened(@)]
  /\ Goto("upload")
  /\ UNCHANGED <<remote, pending, counts>>

\* Upload both files, replacing those that are there.
Upload ==
  /\ At("upload")
  /\ releases' = [releases EXCEPT ![active.plan.version] = active.plan.built]
  /\ End
  /\ UNCHANGED <<remote, pending, counts>>

Work == Prepare \/ GatesPass \/ Finalize \/ Push \/ Check \/ OpenRelease \/ Upload

\* A gate fails, the runner dies, a call to GitHub is refused; an upload that dies has
\* uploaded nothing, or replaced only some of the files.
Fault ==
  /\ active # None /\ faults < MaxFaults /\ faults' = faults + 1
  /\ End
  /\ \/ UNCHANGED releases
     \/ At("upload") /\ releases' = [releases EXCEPT ![active.plan.version] = Partial]
  /\ UNCHANGED <<remote, pending, pushes, handTags, runs>>

Next ==
  \/ PushCommit \/ PushTag \/ Dispatch \/ Retry
  \/ Start \/ Work \/ Fault

Spec == Init /\ [][Next]_vars

FairSpec == Spec /\ WF_vars(Start) /\ WF_vars(Work) /\ WF_vars(Retry)

-----------------------------------------------------------------------------
\* What is on GitHub under a version is for a tag, was built from the commit of that tag
\* once its files are there, and the program then reports that version.
ReleasesAreTheirTags ==
  \A v \in Versions : releases[v] # None =>
    /\ tags[v] # 0
    /\ releases[v] # Partial => releases[v] = SourceOf(tags[v]) /\ releases[v].version = v

\* main never holds a release commit without its tag: finalize pushes both or
\* neither, even when a developer takes the tag while the run is building.
ReleaseCommitsAreTagged ==
  \A c \in 1 .. Main : Bot(c) => tags[history[c].version] = c

LoggedIn(d) == {c \in 1 .. Main : d \in history[c].log}

\* A change that need not be in the changelog of a later release: it is in one,
\* or a developer's tag is on it or after it.
Covered(d) ==
  Bot(d) \/ LoggedIn(d) # {} \/ \E v \in Versions : tags[v] >= d /\ ~Bot(tags[v])

\* No version is bumped for nothing or twice: the changelog of automatic
\* releases lists a change at most once and never a release commit, and each
\* release lists all changes before it that are not covered already.
ChangesAreLogged ==
  \A d \in 1 .. Main :
    /\ Bot(d) => LoggedIn(d) = {} /\ history[d].log # {}
    /\ \A b, c \in LoggedIn(d) : b = c
    /\ (\E c \in d .. Main : Bot(c)) => Covered(d)

\* A release commit that was pushed is published with all its files, however often the
\* run dies after the push or before the files are there, or main moves on: re-running
\* reuses the commit, its tag and its release.
PushedIsPublished == Unpublished ~> ~Unpublished
=============================================================================
