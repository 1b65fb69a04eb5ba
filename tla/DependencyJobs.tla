---------------------------- MODULE DependencyJobs ----------------------------
(***************************************************************************)
(* The jobs that refresh the dependency map of a workspace's projects: the *)
(* subscribers that queue them (app/application/subscribers.py), the job   *)
(* and its retries (app/tasks.py), the one transaction that stores a map   *)
(* (app/application/architecture/refresh.py) and the recovery of jobs a    *)
(* dead worker left behind.                                                *)
(*                                                                         *)
(* A project's jobs share a lock, so one at a time is being done, and a    *)
(* queueing lock, so one at a time is waiting.                             *)
(***************************************************************************)
EXTENDS Naturals, FiniteSets

CONSTANTS
  Projects,    \* the projects of the workspace
  Publishers,  \* webhook deliveries and web requests that ask for refreshes
  Runners,     \* threads of worker processes that execute jobs
  Nobody,      \* no project, no runner, no job
  Attempts,    \* INFERENCE_ATTEMPTS
  MaxJobs,     \* bound on the refreshes asked for
  MaxHead,     \* bound on the commits of a project
  Deletable,   \* the projects a user may delete meanwhile
  MaxFaults    \* bound on each kind of fault

Jobs == 1..MaxJobs
Actors == Publishers \cup Runners
Faults == {"crash", "announce", "silence", "database", "publisher", "recovery"}

ASSUME RefreshAssumption ==
  /\ MaxJobs \in Nat /\ MaxHead \in Nat \ {0} /\ Attempts \in Nat \ {0}
  /\ Nobody \notin Projects \cup Runners \cup Jobs
  /\ Publishers \cap Runners = {} /\ IsFiniteSet(Projects)
  /\ Deletable \subseteq Projects
  /\ MaxFaults \in [Faults -> Nat]

VARIABLES
  head,        \* project -> its latest commit on the platform
  heard,       \* project -> the latest commit when a refresh was last asked for
  asked,       \* how many refreshes were asked for
  job,         \* job -> its project and its status in the queue
  owner,       \* job -> the runner its row names
  status,      \* project -> deps_status, or "gone" once it is deleted
  stored,      \* project -> the commit its stored map was read at
  cut,         \* the projects that lost edges and were not mapped again since
  told,        \* job -> how many DependencyInferenceFailed it published
  publishing,  \* actor -> the projects it has still to queue a refresh of
  marked,      \* actor -> the project it marked and has not queued yet
  pc,          \* runner -> where in infer_project_dependencies it is
  at,          \* runner -> the job it executes
  attempt,     \* runner -> its current attempt
  snapshot,    \* runner -> the commit it read
  ending,      \* runner -> the status its job will end in
  stalled,     \* the jobs this pass of the recovery has still to handle
  looked,      \* the job it handles now, and whether it saw a twin
  faults       \* fault -> how often it happened

asking == <<heard, asked, publishing, marked>>
queue == <<job, owner>>
maps == <<status, stored, cut>>
worker == <<pc, at, attempt, snapshot, ending>>
recovery == <<stalled, looked>>
vars == <<head, asking, queue, maps, told, worker, recovery, faults>>

JobStatus == {"none", "todo", "doing", "succeeded", "failed"}
Ended == {"succeeded", "failed"}
DepsStatus == {"none", "pending", "running", "ok", "failed"}
NotLooked == [job |-> Nobody, twin |-> FALSE]

Init ==
  /\ head = [p \in Projects |-> 1]
  /\ heard = [p \in Projects |-> 0]
  /\ asked = 0
  /\ job = [j \in Jobs |-> [project |-> Nobody, status |-> "none"]]
  /\ owner = [j \in Jobs |-> Nobody]
  /\ status = [p \in Projects |-> "none"]
  /\ stored = [p \in Projects |-> 0]
  /\ cut = {}
  /\ told = [j \in Jobs |-> 0]
  /\ publishing = [a \in Actors |-> {}]
  /\ marked = [a \in Actors |-> Nobody]
  /\ pc = [w \in Runners |-> "idle"]
  /\ at = [w \in Runners |-> Nobody]
  /\ attempt = [w \in Runners |-> 0]
  /\ snapshot = [w \in Runners |-> 0]
  /\ ending = [w \in Runners |-> "succeeded"]
  /\ stalled = {}
  /\ looked = NotLooked
  /\ faults = [f \in Faults |-> 0]
-----------------------------------------------------------------------------
JobsOf(p, statuses) ==
  {j \in Jobs : job[j].project = p /\ job[j].status \in statuses}

ProjectAt(w) == job[at[w]].project

\* An update of deps_status, which touches no row once the project is deleted.
Show(p, shown) ==
  status' = IF status[p] = "gone" THEN status ELSE [status EXCEPT ![p] = shown]

Fault(f) ==
  /\ faults[f] < MaxFaults[f]
  /\ faults' = [faults EXCEPT ![f] = @ + 1]

Push(p) ==
  /\ head[p] < MaxHead
  /\ head' = [head EXCEPT ![p] = @ + 1]
  /\ UNCHANGED <<asking, queue, maps, told, worker, recovery, faults>>

DeleteProject(p) ==
  /\ p \in Deletable /\ status[p] # "gone"
  /\ status' = [status EXCEPT ![p] = "gone"]
  /\ cut' = cut \ {p}
  /\ UNCHANGED <<head, asking, queue, stored, told, worker, recovery, faults>>
-----------------------------------------------------------------------------
(***************************************************************************)
(* Asking for a refresh: an event of one project, or the whole map.  Each  *)
(* project is first shown as queued and then queued, unless a job of it is *)
(* waiting already.                                                        *)
(***************************************************************************)

Ask(a) ==
  /\ publishing[a] = {} /\ marked[a] = Nobody
  /\ \E ps \in (SUBSET {p \in Projects : status[p] # "gone"}) \ {{}} :
       /\ asked + Cardinality(ps) <= MaxJobs
       /\ asked' = asked + Cardinality(ps)
       /\ publishing' = [publishing EXCEPT ![a] = ps]
       /\ heard' = [p \in Projects |-> IF p \in ps THEN head[p] ELSE heard[p]]
  /\ UNCHANGED <<head, queue, maps, told, marked, worker, recovery, faults>>

Mark(a) ==
  \E p \in publishing[a] :
    /\ marked[a] = Nobody
    /\ Show(p, "pending")
    /\ publishing' = [publishing EXCEPT ![a] = @ \ {p}]
    /\ marked' = [marked EXCEPT ![a] = p]
    /\ UNCHANGED <<head, heard, asked, queue, stored, cut, told, worker, recovery, faults>>

\* Mutant of Waiting: a job being done counts as one that waits.
WaitingOrRunning(p) == JobsOf(p, {"todo", "doing"}) # {}

\* A job of the project waits, so the queueing lock refuses another.
Waiting(p) == JobsOf(p, {"todo"}) # {}

\* defer: queue a job, or coalesce with the one that waits.
QueueJob(p) ==
  \/ Waiting(p) /\ UNCHANGED job
  \/ /\ ~Waiting(p)
     /\ \E j \in Jobs :
          /\ job[j].status = "none" /\ \A k \in 1..(j - 1) : job[k].status # "none"
          /\ job' = [job EXCEPT ![j] = [project |-> p, status |-> "todo"]]

Defer(a) ==
  /\ marked[a] # Nobody
  /\ marked' = [marked EXCEPT ![a] = Nobody]
  /\ QueueJob(marked[a])
  /\ UNCHANGED <<head, heard, asked, publishing, owner, maps, told, worker, recovery, faults>>

EnqueueRefresh(a) == Mark(a) \/ Defer(a)

\* The web process dies between the two.
PublisherDies(a) ==
  /\ publishing[a] # {} \/ marked[a] # Nobody
  /\ Fault("publisher")
  /\ publishing' = [publishing EXCEPT ![a] = {}]
  /\ marked' = [marked EXCEPT ![a] = Nobody]
  /\ UNCHANGED <<head, heard, asked, queue, maps, told, worker, recovery>>
-----------------------------------------------------------------------------
(***************************************************************************)
(* The job.                                                                *)
(***************************************************************************)

\* The queue hands out a waiting job, none of a project one of whose jobs is
\* being done.
Fetch(w, j) ==
  /\ pc[w] = "idle" /\ job[j].status = "todo"
  /\ JobsOf(job[j].project, {"doing"}) = {}
  /\ job' = [job EXCEPT ![j].status = "doing"]
  /\ owner' = [owner EXCEPT ![j] = w]
  /\ pc' = [pc EXCEPT ![w] = "start"]
  /\ at' = [at EXCEPT ![w] = j]
  /\ UNCHANGED <<head, asking, maps, told, attempt, snapshot, ending, recovery, faults>>

\* A project deleted meanwhile has nothing to map.
Start(w) ==
  /\ pc[w] = "start"
  /\ IF status[ProjectAt(w)] = "gone"
     THEN pc' = [pc EXCEPT ![w] = "finish"] /\ UNCHANGED <<status, attempt>>
     ELSE /\ pc' = [pc EXCEPT ![w] = "infer"]
          /\ attempt' = [attempt EXCEPT ![w] = 1]
          /\ Show(ProjectAt(w), "running")
  /\ UNCHANGED <<head, asking, queue, stored, cut, told, at, snapshot, ending,
                 recovery, faults>>

\* Read the repository at its head, and ask the model for its topology: an
\* answer, or an exception.
Infer(w) ==
  /\ pc[w] = "infer"
  /\ snapshot' = [snapshot EXCEPT ![w] = head[ProjectAt(w)]]
  /\ \E next \in {"store", "caught"} : pc' = [pc EXCEPT ![w] = next]
  /\ UNCHANGED <<head, asking, queue, maps, told, at, attempt, ending, recovery, faults>>

\* Mutant of Store: the edges into the removed components are looked up after
\* their components were removed, so no project seems affected.
StoreQuietly(w) ==
  LET p == ProjectAt(w) IN
  /\ pc[w] = "store" /\ status[p] # "gone"
  /\ pc' = [pc EXCEPT ![w] = "announce"]
  /\ stored' = [stored EXCEPT ![p] = snapshot[w]]
  /\ Show(p, "ok")
  /\ \E affected \in SUBSET {q \in Projects \ {p} : status[q] # "gone"} :
       /\ asked + Cardinality(affected) <= MaxJobs
       /\ asked' = asked + Cardinality(affected)
       /\ cut' = (cut \ {p}) \cup affected
       /\ UNCHANGED publishing
  /\ UNCHANGED <<head, heard, queue, told, marked, at, attempt, snapshot, ending,
                 recovery, faults>>

\* One transaction replaces the map and shows the project as analyzed.  It may
\* remove components, which cuts the edges of other projects into them; those
\* projects are refreshed once it commits.
Store(w) ==
  LET p == ProjectAt(w) IN
  /\ pc[w] = "store" /\ status[p] # "gone"
  /\ pc' = [pc EXCEPT ![w] = "announce"]
  /\ stored' = [stored EXCEPT ![p] = snapshot[w]]
  /\ Show(p, "ok")
  /\ \E affected \in SUBSET {q \in Projects \ {p} : status[q] # "gone"} :
       /\ asked + Cardinality(affected) <= MaxJobs
       /\ asked' = asked + Cardinality(affected)
       /\ cut' = (cut \ {p}) \cup affected
       /\ publishing' = [publishing EXCEPT ![w] = affected]
  /\ UNCHANGED <<head, heard, queue, told, marked, at, attempt, snapshot, ending,
                 recovery, faults>>

\* The transaction is refused: the project is gone, or its roster is stale.
StoreFails(w) ==
  /\ pc[w] = "store"
  /\ pc' = [pc EXCEPT ![w] = "caught"]
  /\ UNCHANGED <<head, asking, queue, maps, told, at, attempt, snapshot, ending,
                 recovery, faults>>

Announce(w) ==
  /\ pc[w] = "announce"
  /\ \/ EnqueueRefresh(w)
     \/ /\ publishing[w] = {} /\ marked[w] = Nobody
        /\ pc' = [pc EXCEPT ![w] = "finish"]
        /\ UNCHANGED <<head, asking, queue, maps, told, at, attempt, snapshot, ending,
                       recovery, faults>>

\* Mutant of Caught: every failed attempt is told, not only the last.
CaughtAndTold(w) ==
  /\ pc[w] = "caught"
  /\ IF attempt[w] = Attempts
     THEN /\ Show(ProjectAt(w), "failed")
          /\ pc' = [pc EXCEPT ![w] = "tell"]
          /\ UNCHANGED <<attempt, told>>
     ELSE /\ attempt' = [attempt EXCEPT ![w] = @ + 1]
          /\ told' = [told EXCEPT ![at[w]] = @ + 1]
          /\ pc' = [pc EXCEPT ![w] = "infer"]
          /\ UNCHANGED status
  /\ UNCHANGED <<head, asking, queue, stored, cut, at, snapshot, ending, recovery, faults>>

\* An attempt failed: sleep and try again, inside the job, or give up.
Caught(w) ==
  /\ pc[w] = "caught"
  /\ IF attempt[w] = Attempts
     THEN /\ Show(ProjectAt(w), "failed")
          /\ pc' = [pc EXCEPT ![w] = "tell"]
          /\ UNCHANGED attempt
     ELSE /\ attempt' = [attempt EXCEPT ![w] = @ + 1]
          /\ pc' = [pc EXCEPT ![w] = "infer"]
          /\ UNCHANGED status
  /\ UNCHANGED <<head, asking, queue, stored, cut, told, at, snapshot, ending,
                 recovery, faults>>

Tell(w) ==
  /\ pc[w] = "tell"
  /\ told' = [told EXCEPT ![at[w]] = @ + 1]
  /\ ending' = [ending EXCEPT ![w] = "failed"]
  /\ pc' = [pc EXCEPT ![w] = "finish"]
  /\ UNCHANGED <<head, asking, queue, maps, at, attempt, snapshot, recovery, faults>>

\* What a runner forgets when its job is over, however it ended.
Forget(w) ==
  /\ pc' = [pc EXCEPT ![w] = "idle"]
  /\ at' = [at EXCEPT ![w] = Nobody]
  /\ attempt' = [attempt EXCEPT ![w] = 0]
  /\ snapshot' = [snapshot EXCEPT ![w] = 0]
  /\ ending' = [ending EXCEPT ![w] = "succeeded"]

\* The queue records how the job ended, unless it already has.
EndJob(j, how) ==
  /\ job' = IF job[j].status \in Ended THEN job ELSE [job EXCEPT ![j].status = how]
  /\ owner' = [owner EXCEPT ![j] = Nobody]

Finish(w) ==
  /\ pc[w] = "finish"
  /\ EndJob(at[w], ending[w])
  /\ Forget(w)
  /\ UNCHANGED <<head, asking, maps, told, recovery, faults>>
-----------------------------------------------------------------------------
(***************************************************************************)
(* Faults of a runner.                                                     *)
(***************************************************************************)

\* The worker process dies; while it queues the affected projects, that is a
\* fault of its own, because nobody else knows them.
Crash(w) ==
  /\ pc[w] # "idle"
  /\ Fault(IF pc[w] = "announce" THEN "announce" ELSE "crash")
  /\ Forget(w)
  /\ publishing' = [publishing EXCEPT ![w] = {}]
  /\ marked' = [marked EXCEPT ![w] = Nobody]
  /\ owner' = [j \in Jobs |-> IF owner[j] = w THEN Nobody ELSE owner[j]]
  /\ UNCHANGED <<head, heard, asked, job, maps, told, recovery>>

\* A statement outside the attempts fails: the job fails and shows nothing.
LoseDatabase(w) ==
  /\ pc[w] \in {"start", "caught", "tell"}
  /\ Fault("database")
  /\ EndJob(at[w], "failed")
  /\ Forget(w)
  /\ UNCHANGED <<head, asking, maps, told, recovery>>

\* Queueing the affected projects fails: the attempt failed, although its map
\* is stored.
AnnounceFails(w) ==
  /\ pc[w] = "announce" /\ (publishing[w] # {} \/ marked[w] # Nobody)
  /\ Fault("announce")
  /\ pc' = [pc EXCEPT ![w] = "caught"]
  /\ publishing' = [publishing EXCEPT ![w] = {}]
  /\ marked' = [marked EXCEPT ![w] = Nobody]
  /\ UNCHANGED <<head, heard, asked, queue, maps, told, at, attempt, snapshot, ending,
                 recovery>>
-----------------------------------------------------------------------------
(***************************************************************************)
(* recover_stalled_jobs.  One pass selects the jobs of silent workers, and *)
(* for each looks for a twin that waits and then acts on what it saw.      *)
(***************************************************************************)

Orphans == {j \in Jobs : job[j].status = "doing" /\ owner[j] = Nobody}
Held == {j \in Jobs : job[j].status = "doing" /\ owner[j] # Nobody}

SelectStalled ==
  /\ stalled = {} /\ Orphans # {}
  /\ stalled' = Orphans
  /\ UNCHANGED <<head, asking, queue, maps, told, worker, looked, faults>>

\* A live worker whose heartbeat does not reach the database looks as silent.
SelectSilent(j) ==
  /\ stalled = {} /\ j \in Held
  /\ Fault("silence")
  /\ stalled' = Orphans \cup {j}
  /\ UNCHANGED <<head, asking, queue, maps, told, worker, looked>>

\* Mutant of LookForTwin: orphans always fail.
AssumeTwin(j) ==
  /\ j \in stalled /\ looked = NotLooked
  /\ looked' = [job |-> j, twin |-> TRUE]
  /\ UNCHANGED <<head, asking, queue, maps, told, worker, stalled, faults>>

LookForTwin(j) ==
  /\ j \in stalled /\ looked = NotLooked
  /\ looked' = [job |-> j, twin |-> Waiting(job[j].project)]
  /\ UNCHANGED <<head, asking, queue, maps, told, worker, stalled, faults>>

\* With a twin the orphan fails, without one it goes back to the queue; the
\* database refuses both for a job that is over, and the second when a twin
\* came up meanwhile.
HandleStalled(j) ==
  /\ looked.job = j
  /\ \/ /\ looked.twin /\ job[j].status \in {"todo", "doing"}
        /\ EndJob(j, "failed")
     \/ /\ ~looked.twin /\ job[j].status = "doing" /\ ~Waiting(job[j].project)
        /\ job' = [job EXCEPT ![j].status = "todo"]
        /\ owner' = [owner EXCEPT ![j] = Nobody]
     \/ /\ IF looked.twin THEN job[j].status \in Ended
           ELSE job[j].status # "doing" \/ Waiting(job[j].project)
        /\ UNCHANGED queue
  /\ stalled' = stalled \ {j}
  /\ looked' = NotLooked
  /\ UNCHANGED <<head, asking, maps, told, worker, faults>>

RecoveryDies ==
  /\ stalled # {}
  /\ Fault("recovery")
  /\ stalled' = {}
  /\ looked' = NotLooked
  /\ UNCHANGED <<head, asking, queue, maps, told, worker>>
-----------------------------------------------------------------------------
Quiet(p) ==
  /\ JobsOf(p, {"todo", "doing"}) = {}
  /\ \A a \in Actors : p \notin publishing[a] /\ marked[a] # p

AtRest ==
  /\ \A p \in Projects : Quiet(p)
  /\ \A w \in Runners : pc[w] = "idle"
  /\ stalled = {}

Rest == AtRest /\ UNCHANGED vars

RunnerStep(w) ==
  \/ Start(w) \/ Infer(w) \/ Store(w) \/ StoreFails(w) \/ Announce(w)
  \/ Caught(w) \/ Tell(w) \/ Finish(w)

RecoveryStep == SelectStalled \/ \E j \in Jobs : LookForTwin(j) \/ HandleStalled(j)

Next ==
  \/ \E p \in Projects : Push(p) \/ DeleteProject(p)
  \/ \E a \in Publishers : Ask(a) \/ EnqueueRefresh(a) \/ PublisherDies(a)
  \/ \E w \in Runners, j \in Jobs : Fetch(w, j)
  \/ \E w \in Runners : RunnerStep(w) \/ Crash(w) \/ LoseDatabase(w) \/ AnnounceFails(w)
  \/ RecoveryStep \/ RecoveryDies
  \/ \E j \in Jobs : SelectSilent(j)
  \/ Rest

Spec == Init /\ [][Next]_vars

\* A live worker goes on with its job and, when idle, takes a job it may take;
\* the recovery keeps running; whoever began to ask for a refresh ends.
Fairness ==
  /\ \A w \in Runners : WF_vars(RunnerStep(w))
  /\ WF_vars(\E w \in Runners, j \in Jobs : Fetch(w, j))
  /\ WF_vars(RecoveryStep)
  /\ \A a \in Publishers : WF_vars(EnqueueRefresh(a))

FairSpec == Spec /\ Fairness
-----------------------------------------------------------------------------
(***************************************************************************)
(* Safety.                                                                 *)
(***************************************************************************)

\* Coalescing loses no push: when nothing of a project is queued or going on
\* and it is shown as analyzed, its map was read at the commit the last
\* request was about, or at a later one.
StoredMapIsCurrent ==
  \A p \in Projects :
    Quiet(p) /\ status[p] = "ok" =>
      \/ stored[p] >= heard[p]
      \/ faults["silence"] > 0 \/ faults["publisher"] > 0 \/ faults["database"] > 0

\* A failure is told once the last attempt failed, not before: a job that
\* succeeded told nobody, and one that failed told its listeners, unless a
\* fault ended one of its executions.
OneAlarmPerFailedJob ==
  LET interrupted == faults["crash"] + faults["announce"] + faults["silence"] IN
  \A j \in Jobs :
    /\ job[j].status = "succeeded" /\ told[j] > 0 => interrupted > 0
    /\ job[j].status = "failed" /\ told[j] = 0 => interrupted + faults["database"] > 0
    /\ told[j] <= 1 + interrupted

\* Projects whose edges pointed at a component that no longer exists are
\* refreshed: none is shown as analyzed, with nothing queued, on a map that
\* lost them, unless a worker died between the commit that cut them and the
\* callback that queues them.
CutEdgesAreMappedAgain ==
  \A p \in Projects :
    Quiet(p) /\ status[p] = "ok" => p \notin cut \/ faults["announce"] > 0
-----------------------------------------------------------------------------
(***************************************************************************)
(* Liveness, under FairSpec.                                               *)
(***************************************************************************)

\* A project shown as queued or running is not shown so for ever: a refresh
\* settles it, whatever dies meanwhile, unless it dies between showing another
\* project as queued and queueing it.
EveryRefreshSettles ==
  \A p \in Projects :
    status[p] \in {"pending", "running"} ~>
      status[p] \notin {"pending", "running"} \/ faults["announce"] > 0

=============================================================================
