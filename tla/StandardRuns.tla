---------------------------- MODULE StandardRuns ----------------------------
(***************************************************************************)
(* The life of the standard runs of one project: the requests and webhook  *)
(* deliveries that queue them (app/application/standard_runs.py), the      *)
(* run_standards job that executes them on a worker (app/tasks.py), the    *)
(* sweep that expires rows nobody finishes, the recovery of jobs a dead    *)
(* worker left behind, and the scoring of each finished check              *)
(* (app/application/scoring).                                              *)
(*                                                                         *)
(* Every actor takes one database statement or one outside call per step,  *)
(* so the steps of two actors interleave wherever the code lets them.      *)
(***************************************************************************)
EXTENDS CommitScoring

CONSTANTS
  Standards,      \* the standards attached to the project
  Branches,       \* the branches runs read
  NoRef,          \* the ref of a run queued without one
  RunBranch,      \* standard -> the branch a run without a ref reads
  AppliesTo,      \* standard -> the branches its filter matches
  Importance,     \* standard -> its importance on the project
  Outcomes,       \* the results the sandbox may return
  Archivable,     \* the standards a user may archive meanwhile
  Requests,       \* concurrent web requests that queue manual runs
  Runners,        \* threads of worker processes that execute jobs
  Sweeper,        \* the periodic expire_stale_standard_runs job
  NoOne,          \* the owner of a job no live worker holds
  MaxJobs,        \* bound on the jobs queued
  MaxHead,        \* bound on the commits of a branch
  MaxFaults,      \* bound on each kind of fault
  MayOutliveCutoff \* whether a row may pass the stale cutoff while its job is
                   \* still queued or running

Jobs == 1..MaxJobs
Execs == Jobs \X Standards       \* one StandardExecution per job and standard
Checks == Jobs \X Branches       \* one CommitCheck per job and branch
Actors == Runners \cup {Sweeper} \* whoever calls score_checks
Faults == {"crash", "silence", "database", "sweep"}

ASSUME ConstantsAssumption ==
  /\ MaxJobs \in Nat /\ MaxHead \in Nat \ {0}
  /\ NoRef \notin Branches /\ NoOne \notin Runners /\ Sweeper \notin Runners
  /\ RunBranch \in [Standards -> Branches]
  /\ AppliesTo \in [Standards -> SUBSET Branches]
  /\ Importance \in [Standards -> Importances]
  /\ Outcomes \subseteq Finished
  /\ Archivable \subseteq Standards
  /\ MaxFaults \in [Faults -> Nat]
  /\ MayOutliveCutoff \in BOOLEAN

VARIABLES
  \* the platform and the workspace
  head,       \* branch -> the number of its latest commit
  archived,   \* the standards archived so far
  \* the database
  job,        \* job -> its status in the queue ("none": not queued yet)
  owner,      \* job -> the runner its row names
  queued,     \* job -> what queued it: kind, ref and commit (0: none)
  row,        \* execution -> its status ("none": no row)
  check,      \* check -> its pinned commit (0: none) and expected standards
  saved,      \* check -> the verdict of its newest CommitScore
  aged,       \* the executions older than the stale cutoff
  \* what left the system
  read,       \* execution -> the commit its newest run read (0: never ran)
  reports,    \* job -> how many StandardRunFinished it published
  timedOut,   \* the executions named by a StandardRunsTimedOut
  \* the actors
  request,    \* request -> the manual run it is about to queue
  pc,         \* runner -> where in run_standards it is
  at,         \* runner -> the job it executes
  left,       \* runner -> the rows it loaded RUNNING and has not handled
  gone,       \* runner -> the standards it loaded as archived
  seen,       \* runner -> branch -> the commit its loaded check is pinned to
  toPin,      \* runner -> the branches whose head it has still to ask for
  ending,     \* runner -> the status its job will end in
  sweepPc,    \* where in expire_stale_runs the sweep is
  stale,      \* the rows the sweep selected
  unscored,   \* actor -> the checks it has still to score
  pending,    \* actor -> the score it decided and has not saved
  faults      \* fault -> how often it happened

platform == <<head, archived>>
queue == <<job, owner, queued>>
history == <<read, reports, timedOut>>
worker == <<pc, at, left, gone, seen, toPin, ending>>
sweep == <<sweepPc, stale>>
scoring == <<unscored, pending>>
vars == <<platform, queue, row, check, saved, aged, history, request, worker,
          sweep, scoring, faults>>

JobStatus == {"none", "todo", "doing", "succeeded", "failed"}
Ended == {"succeeded", "failed"}
Idle == [toRun |-> {}, ref |-> NoRef, sha |-> 0]
NothingPending == [check |-> <<0, NoRef>>, verdict |-> Undecided]
NoJob == 0

TypeOK ==
  /\ head \in [Branches -> 1..MaxHead]
  /\ archived \subseteq Archivable
  /\ job \in [Jobs -> JobStatus]
  /\ owner \in [Jobs -> Runners \cup {NoOne}]
  /\ queued \in [Jobs -> [kind : {"none", "manual", "event"},
                          ref : Branches \cup {NoRef}, sha : 0..MaxHead]]
  /\ row \in [Execs -> RunStatus \cup {"none"}]
  /\ check \in [Checks -> [sha : 0..MaxHead, expected : SUBSET Standards]]
  /\ saved \in [Checks -> Verdicts \cup {Undecided}]
  /\ aged \subseteq Execs
  /\ read \in [Execs -> 0..MaxHead]
  /\ reports \in [Jobs -> Nat]
  /\ timedOut \subseteq Execs
  /\ request \in [Requests -> [toRun : SUBSET Standards,
                               ref : Branches \cup {NoRef}, sha : 0..MaxHead]]
  /\ pc \in [Runners -> {"idle", "load", "pin", "run", "failing", "score", "finish"}]
  /\ at \in [Runners -> Jobs \cup {NoJob}]
  /\ \A w \in Runners : pc[w] # "idle" => at[w] \in Jobs
  /\ left \in [Runners -> SUBSET Standards]
  /\ gone \in [Runners -> SUBSET Standards]
  /\ seen \in [Runners -> [Branches -> 0..MaxHead]]
  /\ toPin \in [Runners -> SUBSET Branches]
  /\ ending \in [Runners -> Ended]
  /\ sweepPc \in {"idle", "expire", "score"}
  /\ stale \subseteq Execs
  /\ unscored \in [Actors -> SUBSET Checks]
  /\ pending \in [Actors -> [check : Checks, verdict : Verdicts] \cup {NothingPending}]
  /\ faults \in [Faults -> Nat]

Init ==
  /\ head = [b \in Branches |-> 1]
  /\ archived = {}
  /\ job = [j \in Jobs |-> "none"]
  /\ owner = [j \in Jobs |-> NoOne]
  /\ queued = [j \in Jobs |-> [kind |-> "none", ref |-> NoRef, sha |-> 0]]
  /\ row = [e \in Execs |-> "none"]
  /\ check = [c \in Checks |-> [sha |-> 0, expected |-> {}]]
  /\ saved = [c \in Checks |-> Undecided]
  /\ aged = {}
  /\ read = [e \in Execs |-> 0]
  /\ reports = [j \in Jobs |-> 0]
  /\ timedOut = {}
  /\ request = [r \in Requests |-> Idle]
  /\ pc = [w \in Runners |-> "idle"]
  /\ at = [w \in Runners |-> NoJob]
  /\ left = [w \in Runners |-> {}]
  /\ gone = [w \in Runners |-> {}]
  /\ seen = [w \in Runners |-> [b \in Branches |-> 0]]
  /\ toPin = [w \in Runners |-> {}]
  /\ ending = [w \in Runners |-> "succeeded"]
  /\ sweepPc = "idle"
  /\ stale = {}
  /\ unscored = [a \in Actors |-> {}]
  /\ pending = [a \in Actors |-> NothingPending]
  /\ faults = [f \in Faults |-> 0]
-----------------------------------------------------------------------------
(***************************************************************************)
(* Helpers.                                                                *)
(***************************************************************************)

\* The branch an execution reads, which is also its check's.
BranchOf(e) == IF queued[e[1]].ref = NoRef THEN RunBranch[e[2]] ELSE queued[e[1]].ref
CheckOf(e) == <<e[1], BranchOf(e)>>

RowsOfJob(j) == {e \in Execs : e[1] = j /\ row[e] # "none"}
RowsOfCheck(c) == {e \in RowsOfJob(c[1]) : CheckOf(e) = c}
ChecksOfJob(j) == {CheckOf(e) : e \in RowsOfJob(j)}

Going(c) == \E e \in RowsOfCheck(c) : row[e] = "running"

\* A row the worker can still be expected to finish.
InFlight(e) == row[e] = "running" /\ e \notin aged

\* The finished runs of the check's expected standards, and what they decide.
FinishedRuns(c) ==
  {[standard |-> e[2], status |-> row[e], importance |-> Importance[e[2]]] :
     e \in {x \in RowsOfCheck(c) : row[x] \in Finished /\ x[2] \in check[c].expected}}

Decision(c) == Decide(check[c].sha, check[c].expected, FinishedRuns(c), Going(c))

\* The standards a check of branch b expects when its event names none.
ExpectedOn == [b \in Branches |-> {s \in Standards \ archived : b \in AppliesTo[s]}]

Fault(f) ==
  /\ faults[f] < MaxFaults[f]
  /\ faults' = [faults EXCEPT ![f] = @ + 1]
-----------------------------------------------------------------------------
(***************************************************************************)
(* The world: branches move and standards are archived.                    *)
(***************************************************************************)

Push(b) ==
  /\ head[b] < MaxHead
  /\ head' = [head EXCEPT ![b] = @ + 1]
  /\ UNCHANGED <<archived, queue, row, check, saved, aged, history, request,
                 worker, sweep, scoring, faults>>

Archive(s) ==
  /\ s \in Archivable \ archived
  /\ archived' = archived \cup {s}
  /\ UNCHANGED <<head, queue, row, check, saved, aged, history, request,
                 worker, sweep, scoring, faults>>
-----------------------------------------------------------------------------
(***************************************************************************)
(* Queueing.  The rows and the job are written in one transaction.         *)
(***************************************************************************)

\* The transaction of enqueue_run: the next job, one RUNNING row per standard
\* to run, one check per branch they read.  expectedOn gives the standards a
\* branch's check expects.
Enqueue(kind, ref, sha, toRun, expectedOn) ==
  \E j \in Jobs :
    /\ job[j] = "none" /\ \A k \in 1..(j - 1) : job[k] # "none"
    /\ job' = [job EXCEPT ![j] = "todo"]
    /\ queued' = [queued EXCEPT ![j] = [kind |-> kind, ref |-> ref, sha |-> sha]]
    /\ row' = [e \in Execs |-> IF e[1] = j /\ e[2] \in toRun THEN "running" ELSE row[e]]
    /\ check' = [c \in Checks |->
         IF /\ c[1] = j
            /\ c[2] \in (IF ref = NoRef THEN {RunBranch[s] : s \in toRun} ELSE {ref})
         THEN [sha |-> sha, expected |-> expectedOn[c[2]]]
         ELSE check[c]]
    /\ UNCHANGED owner

\* What skip_running leaves to run: enqueue_run reads the in-flight rows
\* before its transaction opens.
ToRun(wanted) == wanted \ {e[2] : e \in {x \in Execs : InFlight(x)}}

\* The read half of a manual or coverage-change run: either the standards a
\* user or a subscriber names, each at the branch it names, or every standard
\* of a branch, at that branch and perhaps at a commit (run_on_branch).
StartRequest(r) ==
  /\ request[r] = Idle
  /\ \E ref \in Branches \cup {NoRef}, sha \in 0..MaxHead, wanted \in SUBSET (Standards \ archived) :
       /\ IF ref = NoRef THEN sha = 0 ELSE sha <= head[ref] /\ wanted = ExpectedOn[ref]
       /\ ToRun(wanted) # {}
       /\ request' = [request EXCEPT ![r] = [toRun |-> ToRun(wanted), ref |-> ref, sha |-> sha]]
  /\ \E j \in Jobs : job[j] = "none"
  /\ UNCHANGED <<platform, queue, row, check, saved, aged, history, worker,
                 sweep, scoring, faults>>

\* Its write half.  A request that finds the bound on jobs used up is dropped.
CommitRequest(r) ==
  /\ request[r] # Idle
  /\ request' = [request EXCEPT ![r] = Idle]
  /\ \/ Enqueue("manual", request[r].ref, request[r].sha, request[r].toRun, ExpectedOn)
     \/ /\ \A j \in Jobs : job[j] # "none"
        /\ UNCHANGED <<queue, row, check>>
  /\ UNCHANGED <<platform, saved, aged, history, worker, sweep, scoring, faults>>

\* A webhook delivery: every standard its event matches (by its type and, for a
\* pull request, its target branch) gets its own run, and they are all its
\* check expects.
EnqueueForEvent(b) ==
  /\ \E sha \in 0..head[b], matched \in (SUBSET (Standards \ archived)) \ {{}} :
       Enqueue("event", b, sha, matched, [branch \in Branches |-> matched])
  /\ UNCHANGED <<platform, saved, aged, history, request, worker, sweep,
                 scoring, faults>>
-----------------------------------------------------------------------------
(***************************************************************************)
(* Scoring: score_check reads a check's rows, decides, and then inserts    *)
(* the score.  The newest score is the one that counts.                    *)
(***************************************************************************)

ReadAndDecide(a) ==
  \E c \in unscored[a] :
    /\ pending[a] = NothingPending
    /\ unscored' = [unscored EXCEPT ![a] = @ \ {c}]
    /\ pending' = IF Decision(c) = Undecided THEN pending
                  ELSE [pending EXCEPT ![a] = [check |-> c, verdict |-> Decision(c)]]
    /\ UNCHANGED saved

SaveScore(a) ==
  /\ pending[a] # NothingPending
  /\ saved' = [saved EXCEPT ![pending[a].check] = pending[a].verdict]
  /\ pending' = [pending EXCEPT ![a] = NothingPending]
  /\ UNCHANGED unscored

ScoreChecks(a) == ReadAndDecide(a) \/ SaveScore(a)

Scored(a) == unscored[a] = {} /\ pending[a] = NothingPending
-----------------------------------------------------------------------------
(***************************************************************************)
(* The queue hands a job to a runner: the oldest waiting one, and none     *)
(* while a job of the same lock, that is of this project, is being done.   *)
(***************************************************************************)

Fetch(w, j) ==
  /\ pc[w] = "idle"
  /\ job[j] = "todo"
  /\ \A k \in Jobs : job[k] # "doing" /\ (k < j => job[k] # "todo")
  /\ job' = [job EXCEPT ![j] = "doing"]
  /\ owner' = [owner EXCEPT ![j] = w]
  /\ pc' = [pc EXCEPT ![w] = "load"]
  /\ at' = [at EXCEPT ![w] = j]
  /\ UNCHANGED <<platform, queued, row, check, saved, aged, history, request,
                 left, gone, seen, toPin, ending, sweep, scoring, faults>>

(***************************************************************************)
(* run_standards, statement by statement.                                  *)
(***************************************************************************)

\* Mutant of RowsToRun: rows already settled are run again.
EveryRow(j) == {s \in Standards : row[<<j, s>>] # "none"}

\* The rows to handle: those the runner loads as RUNNING.
RowsToRun(j) == {s \in Standards : row[<<j, s>>] = "running"}

\* The one query of the job: its rows with their standards and checks.  All
\* that follows reads this copy.
LoadRows(w) ==
  /\ pc[w] = "load"
  /\ pc' = [pc EXCEPT ![w] = "pin"]
  /\ left' = [left EXCEPT ![w] = RowsToRun(at[w])]
  /\ gone' = [gone EXCEPT ![w] = archived]
  /\ seen' = [seen EXCEPT ![w] = [b \in Branches |-> check[<<at[w], b>>].sha]]
  /\ toPin' = [toPin EXCEPT ![w] =
       {c[2] : c \in {x \in ChecksOfJob(at[w]) : check[x].sha = 0}}]
  /\ UNCHANGED <<platform, queue, row, check, saved, aged, history, request,
                 at, ending, sweep, scoring, faults>>

\* pin_head_commits for one check: the platform names the branch's head, which
\* pins the row in the table if nobody has yet, or it cannot name one.
PinHead(w) ==
  /\ pc[w] = "pin"
  /\ \E b \in toPin[w] :
       /\ toPin' = [toPin EXCEPT ![w] = @ \ {b}]
       /\ \/ /\ check[<<at[w], b>>].sha = 0
             /\ check' = [check EXCEPT ![<<at[w], b>>].sha = head[b]]
          \/ UNCHANGED check
  /\ UNCHANGED <<platform, queue, row, saved, aged, history, request, pc, at,
                 left, gone, seen, ending, sweep, scoring, faults>>

\* Mutant of BuildConfig: a job that loaded nothing to run returns at once.
BuildConfigOrReturn(w) ==
  /\ pc[w] = "pin" /\ toPin[w] = {}
  /\ pc' = [pc EXCEPT ![w] = IF left[w] = {} THEN "finish" ELSE "run"]
  /\ UNCHANGED <<platform, queue, row, check, saved, aged, history, request,
                 at, left, gone, seen, toPin, ending, sweep, scoring, faults>>

\* build_input_config: the token and the keys of the workspace, once per job.
BuildConfig(w) ==
  /\ pc[w] = "pin" /\ toPin[w] = {}
  /\ pc' = [pc EXCEPT ![w] = "run"]
  /\ UNCHANGED <<platform, queue, row, check, saved, aged, history, request,
                 at, left, gone, seen, toPin, ending, sweep, scoring, faults>>

\* Mutant of ReadAt: the run reads its branch whatever its check is pinned to.
ReadBranch(w, b) == head[b]

\* The commit a run reads: its loaded check's, or whatever its branch holds.
ReadAt(w, b) == IF seen[w][b] # 0 THEN seen[w][b] ELSE head[b]

\* run_execution: run the standard in the sandbox and save the whole row.
RunExecution(w) ==
  /\ pc[w] = "run"
  /\ \E s \in left[w] \ gone[w], result \in Outcomes :
       LET e == <<at[w], s>> IN
       /\ row' = [row EXCEPT ![e] = result]
       /\ read' = [read EXCEPT ![e] = ReadAt(w, BranchOf(e))]
       /\ left' = [left EXCEPT ![w] = @ \ {s}]
  /\ UNCHANGED <<platform, queue, check, saved, aged, reports, timedOut, request,
                 pc, at, gone, seen, toPin, ending, sweep, scoring, faults>>

\* Mutant of Errored: a row gets a status the column does not have.
ErroredAsTimeout(rows) == [e \in Execs |-> IF e \in rows /\ row[e] = "running" THEN "timeout" ELSE row[e]]

\* _fail: rows still RUNNING become ERROR, in one statement.
Errored(rows) == [e \in Execs |-> IF e \in rows /\ row[e] = "running" THEN "error" ELSE row[e]]

\* A standard archived between enqueue and run has nothing left to execute.
FailArchived(w) ==
  /\ pc[w] = "run"
  /\ \E s \in left[w] \cap gone[w] :
       /\ row' = Errored({<<at[w], s>>})
       /\ left' = [left EXCEPT ![w] = @ \ {s}]
  /\ UNCHANGED <<platform, queue, check, saved, aged, history, request, pc, at,
                 gone, seen, toPin, ending, sweep, scoring, faults>>

\* Every row was handled: on to _publish_finished.
EndRun(w) ==
  /\ pc[w] = "run" /\ left[w] = {}
  /\ pc' = [pc EXCEPT ![w] = "score"]
  /\ ending' = [ending EXCEPT ![w] = "succeeded"]
  /\ unscored' = [unscored EXCEPT ![w] = ChecksOfJob(at[w])]
  /\ UNCHANGED <<platform, queue, row, check, saved, aged, history, request, at,
                 left, gone, seen, toPin, sweep, pending, faults>>

\* An exception in the try block: the token, the database, the sandbox client.
Raise(w) ==
  /\ pc[w] \in {"load", "pin", "run"}
  /\ pc' = [pc EXCEPT ![w] = "failing"]
  /\ UNCHANGED <<platform, queue, row, check, saved, aged, history, request, at,
                 left, gone, seen, toPin, ending, sweep, scoring, faults>>

\* Mutant of FailRemaining: the except block reports without scoring.
FailRemainingUnscored(w) ==
  /\ pc[w] = "failing"
  /\ row' = Errored(RowsOfJob(at[w]))
  /\ pc' = [pc EXCEPT ![w] = "score"]
  /\ ending' = [ending EXCEPT ![w] = "failed"]
  /\ UNCHANGED <<platform, queue, check, saved, aged, history, request, at, left,
                 gone, seen, toPin, sweep, scoring, faults>>

\* The except block marks every remaining row and publishes the error.
FailRemaining(w) ==
  /\ pc[w] = "failing"
  /\ row' = Errored(RowsOfJob(at[w]))
  /\ pc' = [pc EXCEPT ![w] = "score"]
  /\ ending' = [ending EXCEPT ![w] = "failed"]
  /\ unscored' = [unscored EXCEPT ![w] = ChecksOfJob(at[w])]
  /\ UNCHANGED <<platform, queue, check, saved, aged, history, request, at, left,
                 gone, seen, toPin, sweep, pending, faults>>

ScoreJob(w) ==
  /\ pc[w] = "score"
  /\ ScoreChecks(w)
  /\ UNCHANGED <<platform, queue, row, check, aged, history, request, worker,
                 sweep, faults>>

\* Mutant of PublishFinished: listeners hear of the run before it is scored.
PublishBeforeScoring(w) ==
  /\ pc[w] = "score"
  /\ reports' = [reports EXCEPT ![at[w]] = @ + 1]
  /\ pc' = [pc EXCEPT ![w] = "finish"]
  /\ UNCHANGED <<platform, queue, row, check, saved, aged, read, timedOut, request,
                 at, left, gone, seen, toPin, ending, sweep, scoring, faults>>

PublishFinished(w) ==
  /\ pc[w] = "score" /\ Scored(w)
  /\ reports' = [reports EXCEPT ![at[w]] = @ + 1]
  /\ pc' = [pc EXCEPT ![w] = "finish"]
  /\ UNCHANGED <<platform, queue, row, check, saved, aged, read, timedOut, request,
                 at, left, gone, seen, toPin, ending, sweep, scoring, faults>>

\* What a runner forgets when its job is over, however it ended.
Forget(w) ==
  /\ pc' = [pc EXCEPT ![w] = "idle"]
  /\ at' = [at EXCEPT ![w] = NoJob]
  /\ left' = [left EXCEPT ![w] = {}]
  /\ gone' = [gone EXCEPT ![w] = {}]
  /\ seen' = [seen EXCEPT ![w] = [b \in Branches |-> 0]]
  /\ toPin' = [toPin EXCEPT ![w] = {}]
  /\ ending' = [ending EXCEPT ![w] = "succeeded"]
  /\ unscored' = [unscored EXCEPT ![w] = {}]
  /\ pending' = [pending EXCEPT ![w] = NothingPending]

\* The queue records how the job ended, unless another runner already did.
EndJob(j, status) ==
  /\ job' = IF job[j] \in Ended THEN job ELSE [job EXCEPT ![j] = status]
  /\ owner' = [owner EXCEPT ![j] = NoOne]
  /\ UNCHANGED queued

Finish(w) ==
  /\ pc[w] = "finish"
  /\ EndJob(at[w], ending[w])
  /\ Forget(w)
  /\ UNCHANGED <<platform, row, check, saved, aged, history, request, sweep, faults>>
-----------------------------------------------------------------------------
(***************************************************************************)
(* Faults of a runner, and the recovery of the jobs they leave.            *)
(***************************************************************************)

\* The worker process dies: its job row stays "doing".
Crash(w) ==
  /\ pc[w] # "idle"
  /\ Fault("crash")
  /\ Forget(w)
  /\ owner' = [j \in Jobs |-> IF owner[j] = w THEN NoOne ELSE owner[j]]
  /\ UNCHANGED <<platform, job, queued, row, check, saved, aged, history, request, sweep>>

\* The database fails _fail or _publish_finished themselves: the exception
\* leaves run_standards and the queue records a failed job.
LoseDatabase(w) ==
  /\ pc[w] \in {"failing", "score"}
  /\ Fault("database")
  /\ EndJob(at[w], "failed")
  /\ Forget(w)
  /\ UNCHANGED <<platform, row, check, saved, aged, history, request, sweep>>

\* recover_stalled_jobs puts the job of a dead worker back in the queue ...
Recover(j) ==
  /\ job[j] = "doing" /\ owner[j] = NoOne
  /\ job' = [job EXCEPT ![j] = "todo"]
  /\ UNCHANGED <<platform, owner, queued, row, check, saved, aged, history, request,
                 worker, sweep, scoring, faults>>

\* ... and that of a live one whose heartbeat stopped reaching the database.
RecoverSilent(j) ==
  /\ job[j] = "doing" /\ owner[j] # NoOne
  /\ Fault("silence")
  /\ job' = [job EXCEPT ![j] = "todo"]
  /\ owner' = [owner EXCEPT ![j] = NoOne]
  /\ UNCHANGED <<platform, queued, row, check, saved, aged, history, request,
                 worker, sweep, scoring>>
-----------------------------------------------------------------------------
(***************************************************************************)
(* The sweep of rows nobody finishes (expire_stale_runs).                  *)
(***************************************************************************)

\* Time passes: a row becomes older than the cutoff.
Age(e) ==
  /\ row[e] = "running" /\ e \notin aged
  /\ MayOutliveCutoff \/ job[e[1]] \in Ended
  /\ aged' = aged \cup {e}
  /\ UNCHANGED <<platform, queue, row, check, saved, history, request, worker,
                 sweep, scoring, faults>>

\* Mutant of StaleRows: only rows whose job is still being done are swept.
StaleRowsOfLiveJobs == {e \in aged : row[e] = "running" /\ job[e[1]] = "doing"}

StaleRows == {e \in aged : row[e] = "running"}

SweepSelect ==
  /\ sweepPc = "idle" /\ StaleRows # {}
  /\ stale' = StaleRows
  /\ sweepPc' = "expire"
  /\ UNCHANGED <<platform, queue, row, check, saved, aged, history, request,
                 worker, scoring, faults>>

\* Mutant of SweepExpire: the update runs in batches of one row, the rest of the
\* pass is about all of them.
SweepExpireBatch ==
  /\ sweepPc = "expire"
  /\ \E e \in stale : row' = Errored({e})
  /\ sweepPc' = "score"
  /\ unscored' = [unscored EXCEPT ![Sweeper] = {CheckOf(e) : e \in stale}]
  /\ UNCHANGED <<platform, queue, check, saved, aged, history, request, worker, stale,
                 pending, faults>>

\* The conditional update.  With nothing changed the sweep is over; otherwise
\* the checks of every selected row are scored.
SweepExpire ==
  /\ sweepPc = "expire"
  /\ row' = Errored(stale)
  /\ IF row' = row
     THEN sweepPc' = "idle" /\ stale' = {} /\ UNCHANGED unscored
     ELSE /\ sweepPc' = "score"
          /\ unscored' = [unscored EXCEPT ![Sweeper] = {CheckOf(e) : e \in stale}]
          /\ UNCHANGED stale
  /\ UNCHANGED <<platform, queue, check, saved, aged, history, request, worker,
                 pending, faults>>

SweepScore ==
  /\ sweepPc = "score"
  /\ ScoreChecks(Sweeper)
  /\ UNCHANGED <<platform, queue, row, check, aged, history, request, worker,
                 sweep, faults>>

SweepPublish ==
  /\ sweepPc = "score" /\ Scored(Sweeper)
  /\ timedOut' = timedOut \cup stale
  /\ sweepPc' = "idle"
  /\ stale' = {}
  /\ UNCHANGED <<platform, queue, row, check, saved, aged, read, reports, request,
                 worker, scoring, faults>>

SweepCrash ==
  /\ sweepPc # "idle"
  /\ Fault("sweep")
  /\ sweepPc' = "idle"
  /\ stale' = {}
  /\ unscored' = [unscored EXCEPT ![Sweeper] = {}]
  /\ pending' = [pending EXCEPT ![Sweeper] = NothingPending]
  /\ UNCHANGED <<platform, queue, row, check, saved, aged, history, request, worker>>
-----------------------------------------------------------------------------
\* No job is queued or being done, no request is half way and the sweep is
\* between two passes: the project waits for its next event, for ever once the
\* bounds are used up.
AtRest ==
  /\ \A j \in Jobs : job[j] \in Ended \cup {"none"}
  /\ \A w \in Runners : pc[w] = "idle"
  /\ \A r \in Requests : request[r] = Idle
  /\ sweepPc = "idle"

Rest == AtRest /\ UNCHANGED vars

RunnerStep(w) ==
  \/ LoadRows(w) \/ PinHead(w) \/ BuildConfig(w)
  \/ RunExecution(w) \/ FailArchived(w) \/ EndRun(w)
  \/ Raise(w) \/ FailRemaining(w)
  \/ ScoreJob(w) \/ PublishFinished(w) \/ Finish(w)

SweepStep == SweepSelect \/ SweepExpire \/ SweepScore \/ SweepPublish

Next ==
  \/ \E b \in Branches : Push(b) \/ EnqueueForEvent(b)
  \/ \E s \in Standards : Archive(s)
  \/ \E r \in Requests : StartRequest(r) \/ CommitRequest(r)
  \/ \E w \in Runners, j \in Jobs : Fetch(w, j)
  \/ \E w \in Runners : RunnerStep(w) \/ Crash(w) \/ LoseDatabase(w)
  \/ \E j \in Jobs : Recover(j) \/ RecoverSilent(j)
  \/ \E e \in Execs : Age(e)
  \/ SweepStep \/ SweepCrash
  \/ Rest

Spec == Init /\ [][Next]_vars

\* A live worker goes on with its job and, when idle, takes the next one; the
\* two periodic jobs keep running; time passes; a request that began ends.
Fairness ==
  /\ \A w \in Runners : WF_vars(RunnerStep(w))
  /\ WF_vars(\E w \in Runners, j \in Jobs : Fetch(w, j))
  /\ \A j \in Jobs : WF_vars(Recover(j))
  /\ \A e \in Execs : WF_vars(Age(e))
  /\ WF_vars(SweepStep)
  /\ \A r \in Requests : WF_vars(CommitRequest(r))

FairSpec == Spec /\ Fairness
-----------------------------------------------------------------------------
(***************************************************************************)
(* Safety.                                                                 *)
(***************************************************************************)

\* A score is the last word on a check: while one of its runs is going, no
\* caller of score_check, job or sweep, has saved one (CheckRun.decide).
NoScoreWhileGoing == \A c \in Checks : saved[c] # Undecided => ~Going(c)

\* run_standards keeps its promise on every path out of it: a job the queue
\* records as over left no row RUNNING, unless the database failed the
\* handler that settles them.
EndedJobLeavesNothingRunning ==
  \A e \in Execs :
    row[e] = "running" /\ job[e[1]] \in Ended => faults["database"] > 0

\* The lock standards:<project> serializes the jobs of a project: two runners
\* are inside run_standards only after a live worker was taken for dead.
OneRunAtATime ==
  \A v, w \in Runners :
    pc[v] # "idle" /\ pc[w] # "idle" => v = w \/ faults["silence"] > 0

\* run_standards is idempotent: once a row has a result, neither a second
\* attempt after a crash nor the sweep changes it.
SettledStaysSettled ==
  [][\A e \in Execs : row[e] \in Finished => row'[e] = row[e]]_vars

\* A job that ended told its listeners, and a job is reported once per attempt
\* at most, so only a crash or a false alarm reports it twice.
ReportedOncePerAttempt ==
  \A j \in Jobs :
    /\ job[j] \in Ended => reports[j] > 0 \/ faults["database"] > 0
    /\ reports[j] <= 1 + faults["crash"] + faults["silence"]

\* A check queued with a commit (a webhook's, or one picked on the project
\* page) is read at that commit by every run, attempt and branch movement.
PinnedRunReadsItsCommit ==
  \A e \in Execs :
    read[e] # 0 /\ queued[e[1]].sha # 0 => read[e] = queued[e[1]].sha

\* Every standard of a check reads the same code, whoever pinned the check.
ChecksReadOneCommit ==
  \A d, e \in Execs :
    read[d] # 0 /\ read[e] # 0 /\ CheckOf(d) = CheckOf(e) => read[d] = read[e]

\* StandardRunsTimedOut tells of runs nobody waits for any more: although it
\* names the rows selected, not those the update changed, none of them is
\* going, and none goes again however many attempts its job has left.
TimedOutRunsAreOver == \A e \in timedOut : row[e] \in Finished
-----------------------------------------------------------------------------
(***************************************************************************)
(* Liveness, under FairSpec.                                               *)
(***************************************************************************)

\* A RUNNING row is a promise somebody keeps: the job, its next attempt or, in
\* the end, the sweep.
EveryRunSettles ==
  \A e \in Execs : row[e] = "running" ~> row[e] # "running"

\* Every check saves a score when it ends, across attempts of its job, unless
\* the database fails the handler that scores it, or the sweep dies between
\* its update and its scoring and the next one finds nothing left to update.
EveryCheckIsScored ==
  \A c \in Checks :
    Decision(c) # Undecided ~>
      saved[c] # Undecided \/ faults["database"] > 0 \/ faults["sweep"] > 0
-----------------------------------------------------------------------------
(***************************************************************************)
(* The refinement of CheckLifecycle: what a reader of the checks sees.     *)
(***************************************************************************)

StageOf(c) ==
  IF RowsOfCheck(c) = {} THEN "none" ELSE IF Going(c) THEN "going" ELSE "over"

OutcomeOf(c) ==
  IF StageOf(c) = "over" THEN Decide(1, check[c].expected, FinishedRuns(c), FALSE)
  ELSE Undecided

stageSeen == [c \in Checks |-> StageOf(c)]
commitSeen == [c \in Checks |-> check[c].sha]
outcomeSeen == [c \in Checks |-> OutcomeOf(c)]
toldSeen == {j \in Jobs : reports[j] > 0}

Lifecycle == INSTANCE CheckLifecycle WITH
  JobOf <- [c \in Checks |-> c[1]],
  Commits <- 1..MaxHead,
  Scores <- Verdicts,
  stage <- stageSeen,
  commit <- commitSeen,
  outcome <- outcomeSeen,
  score <- saved,
  told <- toldSeen

\* The runs of a job, across crashes, second attempts and sweeps, keep the
\* promise of CheckLifecycle: the results of a check, its commit and its score
\* are settled once, in that order, and reported afterwards.
ChecksAreDecidedOnce == Lifecycle!Spec
=============================================================================
