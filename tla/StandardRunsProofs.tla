-------------------------- MODULE StandardRunsProofs --------------------------
(***************************************************************************)
(* Theorems about StandardRuns, for every value of the constants: the      *)
(* types, the rows and jobs, then the runners (run_standards settles every *)
(* row of its job, the lock keeps the jobs of a project apart, a run whose *)
(* commit was given reads that commit), then what becomes of a run and of  *)
(* its check (a result is final, a run reported as timed out is over, a    *)
(* job is reported once per attempt), and that StandardRuns implements     *)
(* CheckLifecycle.                                                         *)
(***************************************************************************)
EXTENDS StandardRuns, FiniteSetTheorems, TLAPS

USE DEF platform, queue, history, worker, sweep, scoring

-----------------------------------------------------------------------------
(***************************************************************************)
(* Types of what the actions compute.                                      *)
(***************************************************************************)

\* An execution belongs to a check of its own job.
LEMMA CheckOfType ==
  ASSUME TypeOK, NEW e \in Execs
  PROVE  CheckOf(e) \in Checks /\ CheckOf(e)[1] = e[1]
  BY ConstantsAssumption DEF TypeOK, CheckOf, BranchOf, Checks, Execs

LEMMA ChecksOfJobType ==
  ASSUME TypeOK, NEW j
  PROVE  ChecksOfJob(j) \subseteq Checks
  BY CheckOfType DEF ChecksOfJob, RowsOfJob

LEMMA DecisionType ==
  ASSUME NEW c
  PROVE  Decision(c) \in Verdicts \cup {Undecided}
  BY DEF Decision, Decide, Verdict, Verdicts

LEMMA ErroredType ==
  ASSUME TypeOK, NEW rows
  PROVE  Errored(rows) \in [Execs -> RunStatus \cup {"none"}]
  BY DEF TypeOK, Errored, RunStatus, Finished

\* One pass of score_check keeps its two variables and the scores typed.
LEMMA ScoreChecksType ==
  ASSUME TypeOK, NEW a \in Actors, ScoreChecks(a)
  PROVE  /\ unscored' \in [Actors -> SUBSET Checks]
         /\ pending' \in [Actors -> [check : Checks, verdict : Verdicts] \cup {NothingPending}]
         /\ saved' \in [Checks -> Verdicts \cup {Undecided}]
<1>1. CASE ReadAndDecide(a)
  <2>1. PICK c \in unscored[a] :
          /\ unscored' = [unscored EXCEPT ![a] = @ \ {c}]
          /\ pending' = IF Decision(c) = Undecided THEN pending
                        ELSE [pending EXCEPT ![a] = [check |-> c, verdict |-> Decision(c)]]
          /\ UNCHANGED saved
    BY <1>1 DEF ReadAndDecide
  <2>2. c \in Checks
    BY <2>1 DEF TypeOK
  <2>. QED
    BY <2>1, <2>2, DecisionType DEF TypeOK
<1>2. CASE SaveScore(a)
  BY <1>2 DEF SaveScore, TypeOK
<1>. QED
  BY <1>1, <1>2 DEF ScoreChecks

-----------------------------------------------------------------------------
(***************************************************************************)
(* Type correctness.                                                       *)
(***************************************************************************)

LEMMA InitType == Init => TypeOK
  BY ConstantsAssumption DEF Init, TypeOK, Checks, JobStatus, RunStatus, Ended, Idle,
     Faults, NoJob

\* A transaction of enqueue_run keeps the queue, the rows and the checks typed.
LEMMA EnqueueType ==
  ASSUME TypeOK, NEW kind \in {"manual", "event"}, NEW ref \in Branches \cup {NoRef},
         NEW sha \in 0..MaxHead, NEW toRun,
         NEW expectedOn \in [Branches -> SUBSET Standards],
         Enqueue(kind, ref, sha, toRun, expectedOn)
  PROVE  /\ job' \in [Jobs -> JobStatus]
         /\ owner' = owner
         /\ queued' \in [Jobs -> [kind : {"none", "manual", "event"},
                                  ref : Branches \cup {NoRef}, sha : 0..MaxHead]]
         /\ row' \in [Execs -> RunStatus \cup {"none"}]
         /\ check' \in [Checks -> [sha : 0..MaxHead, expected : SUBSET Standards]]
  BY DEF TypeOK, Enqueue, JobStatus, RunStatus, Checks

\* However a job ends, its runner and its row in the queue stay typed.
LEMMA ForgetType ==
  ASSUME TypeOK, NEW w \in Runners, Forget(w)
  PROVE  /\ pc' \in [Runners -> {"idle", "load", "pin", "run", "failing", "score", "finish"}]
         /\ at' \in [Runners -> Jobs \cup {NoJob}]
         /\ \A v \in Runners : pc'[v] # "idle" => at'[v] \in Jobs
         /\ left' \in [Runners -> SUBSET Standards]
         /\ gone' \in [Runners -> SUBSET Standards]
         /\ seen' \in [Runners -> [Branches -> 0..MaxHead]]
         /\ toPin' \in [Runners -> SUBSET Branches]
         /\ ending' \in [Runners -> Ended]
         /\ unscored' \in [Actors -> SUBSET Checks]
         /\ pending' \in [Actors -> [check : Checks, verdict : Verdicts] \cup {NothingPending}]
<1>1. [b \in Branches |-> 0] \in [Branches -> 0..MaxHead]
  BY ConstantsAssumption
<1>. QED
  BY <1>1 DEF Forget, TypeOK, Ended

LEMMA EndJobType ==
  ASSUME TypeOK, NEW j, NEW status \in Ended, EndJob(j, status)
  PROVE  /\ job' \in [Jobs -> JobStatus]
         /\ owner' \in [Jobs -> Runners \cup {NoOne}]
         /\ queued' = queued
  BY DEF EndJob, TypeOK, Ended, JobStatus

LEMMA FaultType ==
  ASSUME TypeOK, NEW f \in Faults, Fault(f)
  PROVE  faults' \in [Faults -> Nat]
  BY DEF Fault, TypeOK

LEMMA NextType == TypeOK /\ [Next]_vars => TypeOK'
<1>. SUFFICES ASSUME TypeOK, [Next]_vars PROVE TypeOK'
  OBVIOUS
<1>1. ASSUME NEW b \in Branches, Push(b) PROVE TypeOK'
  BY <1>1, ConstantsAssumption DEF Push, TypeOK
<1>2. ASSUME NEW s \in Standards, Archive(s) PROVE TypeOK'
  BY <1>2 DEF Archive, TypeOK
<1>3. ASSUME NEW r \in Requests, StartRequest(r) PROVE TypeOK'
  BY <1>3 DEF StartRequest, ToRun, TypeOK
<1>4. ASSUME NEW r \in Requests, CommitRequest(r) PROVE TypeOK'
  <2>1. request' \in [Requests -> [toRun : SUBSET Standards,
                                   ref : Branches \cup {NoRef}, sha : 0..MaxHead]]
    BY <1>4, ConstantsAssumption DEF CommitRequest, Idle, TypeOK
  <2>2. CASE Enqueue("manual", request[r].ref, request[r].sha, request[r].toRun, ExpectedOn)
    <3>1. ExpectedOn \in [Branches -> SUBSET Standards]
      BY DEF ExpectedOn
    <3>2. request[r].ref \in Branches \cup {NoRef} /\ request[r].sha \in 0..MaxHead
      BY DEF TypeOK
    <3>3. UNCHANGED <<platform, saved, aged, history, worker, sweep, scoring, faults>>
      BY <1>4 DEF CommitRequest
    <3>. QED
      BY <2>1, <2>2, <3>1, <3>2, <3>3, EnqueueType DEF TypeOK
  <2>3. CASE UNCHANGED <<queue, row, check>>
    BY <1>4, <2>1, <2>3 DEF CommitRequest, TypeOK
  <2>. QED
    BY <1>4, <2>2, <2>3 DEF CommitRequest
<1>5. ASSUME NEW b \in Branches, EnqueueForEvent(b) PROVE TypeOK'
  <2>1. PICK sha \in 0..head[b], matched \in (SUBSET (Standards \ archived)) \ {{}} :
          Enqueue("event", b, sha, matched, [branch \in Branches |-> matched])
    BY <1>5 DEF EnqueueForEvent
  <2>2. sha \in 0..MaxHead
    BY ConstantsAssumption DEF TypeOK
  <2>3. [branch \in Branches |-> matched] \in [Branches -> SUBSET Standards]
    OBVIOUS
  <2>4. UNCHANGED <<platform, saved, aged, history, request, worker, sweep, scoring, faults>>
    BY <1>5 DEF EnqueueForEvent
  <2>. QED
    BY <2>1, <2>2, <2>3, <2>4, EnqueueType DEF TypeOK
<1>6. ASSUME NEW w \in Runners, NEW j \in Jobs, Fetch(w, j) PROVE TypeOK'
  BY <1>6 DEF Fetch, TypeOK, JobStatus
<1>7. ASSUME NEW w \in Runners, LoadRows(w) PROVE TypeOK'
  <2>1. at[w] \in Jobs
    BY <1>7 DEF LoadRows, TypeOK
  <2>2. seen' \in [Runners -> [Branches -> 0..MaxHead]]
    BY <1>7, <2>1 DEF LoadRows, TypeOK, Checks
  <2>3. toPin' \in [Runners -> SUBSET Branches]
    BY <1>7, ChecksOfJobType DEF LoadRows, TypeOK, Checks
  <2>4. left' \in [Runners -> SUBSET Standards]
    BY <1>7 DEF LoadRows, RowsToRun, TypeOK
  <2>5. gone' \in [Runners -> SUBSET Standards]
    BY <1>7, ConstantsAssumption DEF LoadRows, TypeOK
  <2>. QED
    BY <1>7, <2>2, <2>3, <2>4, <2>5 DEF LoadRows, TypeOK
<1>8. ASSUME NEW w \in Runners, PinHead(w) PROVE TypeOK'
  <2>1. PICK b \in toPin[w] :
          /\ toPin' = [toPin EXCEPT ![w] = @ \ {b}]
          /\ \/ check' = [check EXCEPT ![<<at[w], b>>].sha = head[b]]
             \/ UNCHANGED check
    BY <1>8 DEF PinHead
  <2>2. head[b] \in 0..MaxHead
    BY ConstantsAssumption DEF TypeOK
  <2>3. check' \in [Checks -> [sha : 0..MaxHead, expected : SUBSET Standards]]
    <3>. DEFINE c == <<at[w], b>>
    <3>1. CASE UNCHANGED check
      BY <3>1 DEF TypeOK
    <3>2. CASE check' = [check EXCEPT ![c].sha = head[b]]
      <4>1. c \in Checks
        BY <1>8 DEF PinHead, TypeOK, Checks
      <4>2. check[c] \in [sha : 0..MaxHead, expected : SUBSET Standards]
        BY <4>1 DEF TypeOK
      <4>3. [check[c] EXCEPT !.sha = head[b]]
               \in [sha : 0..MaxHead, expected : SUBSET Standards]
        BY <4>2, <2>2
      <4>. QED
        BY <3>2, <4>3 DEF TypeOK
    <3>. QED
      BY <2>1, <3>1, <3>2
  <2>. QED
    BY <1>8, <2>1, <2>3 DEF PinHead, TypeOK
<1>9. ASSUME NEW w \in Runners, BuildConfig(w) PROVE TypeOK'
  BY <1>9 DEF BuildConfig, TypeOK
<1>10. ASSUME NEW w \in Runners, RunExecution(w) PROVE TypeOK'
  <2>1. PICK s \in left[w] \ gone[w], result \in Outcomes :
          /\ row' = [row EXCEPT ![<<at[w], s>>] = result]
          /\ read' = [read EXCEPT ![<<at[w], s>>] = ReadAt(w, BranchOf(<<at[w], s>>))]
          /\ left' = [left EXCEPT ![w] = @ \ {s}]
    BY <1>10 DEF RunExecution
  <2>2. row' \in [Execs -> RunStatus \cup {"none"}]
    BY <2>1, ConstantsAssumption DEF TypeOK, RunStatus
  <2>3. <<at[w], s>> \in Execs
    BY <1>10 DEF RunExecution, TypeOK, Execs
  <2>4. BranchOf(<<at[w], s>>) \in Branches
    BY <2>3, CheckOfType DEF CheckOf, Checks
  <2>5. ReadAt(w, BranchOf(<<at[w], s>>)) \in 0..MaxHead
    BY <2>4, ConstantsAssumption DEF ReadAt, TypeOK
  <2>6. read' \in [Execs -> 0..MaxHead]
    BY <2>1, <2>5 DEF TypeOK
  <2>. QED
    BY <1>10, <2>1, <2>2, <2>6 DEF RunExecution, TypeOK
<1>11. ASSUME NEW w \in Runners, FailArchived(w) PROVE TypeOK'
  BY <1>11, ErroredType DEF FailArchived, TypeOK
<1>12. ASSUME NEW w \in Runners, EndRun(w) PROVE TypeOK'
  BY <1>12, ChecksOfJobType DEF EndRun, TypeOK, Ended, Actors
<1>13. ASSUME NEW w \in Runners, Raise(w) PROVE TypeOK'
  BY <1>13 DEF Raise, TypeOK
<1>14. ASSUME NEW w \in Runners, FailRemaining(w) PROVE TypeOK'
  BY <1>14, ErroredType, ChecksOfJobType DEF FailRemaining, TypeOK, Ended, Actors
<1>15. ASSUME NEW w \in Runners, ScoreJob(w) PROVE TypeOK'
  BY <1>15, ScoreChecksType DEF ScoreJob, TypeOK, Actors
<1>16. ASSUME NEW w \in Runners, PublishFinished(w) PROVE TypeOK'
  BY <1>16 DEF PublishFinished, TypeOK
<1>17. ASSUME NEW w \in Runners, Finish(w) PROVE TypeOK'
  BY <1>17, ForgetType, EndJobType DEF Finish, TypeOK
<1>18. ASSUME NEW w \in Runners, Crash(w) PROVE TypeOK'
  BY <1>18, ForgetType, FaultType DEF Crash, TypeOK, Faults
<1>19. ASSUME NEW w \in Runners, LoseDatabase(w) PROVE TypeOK'
  BY <1>19, ForgetType, EndJobType, FaultType DEF LoseDatabase, TypeOK, Ended, Faults
<1>20. ASSUME NEW j \in Jobs, Recover(j) PROVE TypeOK'
  BY <1>20 DEF Recover, TypeOK, JobStatus
<1>21. ASSUME NEW j \in Jobs, RecoverSilent(j) PROVE TypeOK'
  BY <1>21 DEF RecoverSilent, Fault, TypeOK, JobStatus, Faults
<1>22. ASSUME NEW e \in Execs, Age(e) PROVE TypeOK'
  BY <1>22 DEF Age, TypeOK
<1>23. CASE SweepSelect
  BY <1>23 DEF SweepSelect, StaleRows, TypeOK
<1>24. CASE SweepExpire
  BY <1>24, ErroredType, CheckOfType DEF SweepExpire, TypeOK, Actors
<1>25. CASE SweepScore
  BY <1>25, ScoreChecksType DEF SweepScore, TypeOK, Actors
<1>26. CASE SweepPublish
  BY <1>26 DEF SweepPublish, TypeOK
<1>27. CASE SweepCrash
  BY <1>27 DEF SweepCrash, Fault, TypeOK, Actors, Faults
<1>28. CASE UNCHANGED vars
  BY <1>28 DEF vars, TypeOK
<1>. QED
  BY <1>1, <1>2, <1>3, <1>4, <1>5, <1>6, <1>7, <1>8, <1>9, <1>10, <1>11, <1>12,
     <1>13, <1>14, <1>15, <1>16, <1>17, <1>18, <1>19, <1>20, <1>21, <1>22, <1>23,
     <1>24, <1>25, <1>26, <1>27, <1>28
     DEF Next, RunnerStep, SweepStep, Rest

\* Every variable keeps its type whatever the project, the workers and the
\* faults: no handler writes a status, a commit or a score outside its domain.
THEOREM TypeCorrect == Spec => []TypeOK
<1>. QED
  BY InitType, NextType, PTL DEF Spec

-----------------------------------------------------------------------------
(***************************************************************************)
(* What a step may do to the rows, the checks and the scores.  A step that *)
(* queues job j touches nothing of another job; any other step leaves the  *)
(* queued jobs and their expectations alone and starts no run.  Scores     *)
(* change only in score_check, which reads rows and writes none.           *)
(***************************************************************************)

Queues(j) ==
  /\ job[j] = "none" /\ job'[j] = "todo"
  /\ \A k \in Jobs \ {j} : job'[k] = job[k] /\ queued'[k] = queued[k]
  /\ \A e \in Execs : e[1] # j => row'[e] = row[e]
  /\ \A c \in Checks : c[1] # j => check'[c] = check[c]
  /\ UNCHANGED <<read, worker>>

OnlySettles ==
  /\ UNCHANGED queued
  /\ \A j \in Jobs : job[j] = "none" <=> job'[j] = "none"
  /\ \A e \in Execs :
       /\ row'[e] = "running" => row[e] = "running"
       /\ job[e[1]] = "none" => row'[e] = row[e] /\ read'[e] = read[e]
  /\ \A c \in Checks : check'[c].expected = check[c].expected
  /\ \A w \in Runners : pc'[w] # "idle" =>
       \/ pc[w] # "idle" /\ at'[w] = at[w]
       \/ at'[w] \in Jobs /\ job[at'[w]] # "none"

KeepsScores ==
  /\ UNCHANGED saved
  /\ \A a \in Actors : pending'[a] \in {pending[a], NothingPending}

ScoresOnly(a) == ScoreChecks(a) /\ UNCHANGED <<job, queued, row, check>>

\* A job nobody queued has no rows, no expectations and no scores, and no
\* runner executes it.
FreshJobs ==
  /\ \A j \in Jobs : job[j] = "none" =>
       /\ \A s \in Standards : row[<<j, s>>] = "none" /\ read[<<j, s>>] = 0
       /\ \A b \in Branches : saved[<<j, b>>] = Undecided /\ check[<<j, b>>].expected = {}
  /\ \A w \in Runners : pc[w] # "idle" => job[at[w]] # "none"

\* A score that was decided and is not saved yet is the last word already.
PendingIsLast ==
  \A a \in Actors : pending[a] # NothingPending =>
     job[pending[a].check[1]] # "none" /\ ~Going(pending[a].check)

ScoreInv == TypeOK /\ FreshJobs /\ PendingIsLast /\ NoScoreWhileGoing

-----------------------------------------------------------------------------
\* A check is going exactly when one of the executions it groups is RUNNING.
LEMMA GoingMeans ==
  ASSUME NEW c
  PROVE  Going(c) <=> \E e \in Execs : CheckOf(e) = c /\ row[e] = "running"
  BY DEF Going, RowsOfCheck, RowsOfJob, CheckOf

LEMMA ErroredSettles ==
  ASSUME TypeOK, NEW rows, NEW e \in Execs
  PROVE  /\ Errored(rows)[e] \in {row[e], "error"}
         /\ Errored(rows)[e] = "running" => row[e] = "running" /\ e \notin rows
         /\ row[e] = "none" <=> Errored(rows)[e] = "none"
  BY DEF Errored, TypeOK, RunStatus, Finished

\* The transaction of enqueue_run is the step that queues a job.
LEMMA EnqueueQueues ==
  ASSUME TypeOK, NEW kind, NEW ref \in Branches \cup {NoRef}, NEW sha, NEW toRun,
         NEW expectedOn, Enqueue(kind, ref, sha, toRun, expectedOn),
         UNCHANGED <<read, worker>>
  PROVE  \E j \in Jobs : Queues(j)
<1>1. PICK j \in Jobs :
        /\ job[j] = "none"
        /\ job' = [job EXCEPT ![j] = "todo"]
        /\ queued' = [queued EXCEPT ![j] = [kind |-> kind, ref |-> ref, sha |-> sha]]
        /\ row' = [e \in Execs |-> IF e[1] = j /\ e[2] \in toRun THEN "running" ELSE row[e]]
        /\ check' = [c \in Checks |->
             IF /\ c[1] = j
                /\ c[2] \in (IF ref = NoRef THEN {RunBranch[s] : s \in toRun} ELSE {ref})
             THEN [sha |-> sha, expected |-> expectedOn[c[2]]]
             ELSE check[c]]
  BY DEF Enqueue
<1>2. Queues(j)
  BY <1>1 DEF Queues, TypeOK
<1>. QED
  BY <1>2

LEMMA EndJobKeepsQueued ==
  ASSUME TypeOK, NEW j \in Jobs, NEW status \in Ended, EndJob(j, status), job[j] # "none"
  PROVE  /\ UNCHANGED queued
         /\ \A k \in Jobs : job[k] = "none" <=> job'[k] = "none"
  BY DEF EndJob, TypeOK, Ended

LEMMA ForgetKeepsScores ==
  ASSUME TypeOK, NEW w \in Runners, Forget(w)
  PROVE  \A a \in Actors : pending'[a] \in {pending[a], NothingPending}
  BY DEF Forget, TypeOK

\* Pinning a check sets the commit of that check, if it has none, and no more.
LEMMA PinHeadSetsOneCommit ==
  ASSUME TypeOK, NEW w \in Runners, PinHead(w)
  PROVE  /\ at[w] \in Jobs
         /\ \A c \in Checks :
              /\ check'[c].expected = check[c].expected
              /\ check[c].sha # 0 \/ c[1] # at[w] => check'[c].sha = check[c].sha
<1>1. PICK b \in toPin[w] :
        \/ /\ check[<<at[w], b>>].sha = 0
           /\ check' = [check EXCEPT ![<<at[w], b>>].sha = head[b]]
        \/ UNCHANGED check
  BY DEF PinHead
<1>. DEFINE c == <<at[w], b>>
<1>2. at[w] \in Jobs /\ c \in Checks
  BY <1>1 DEF PinHead, TypeOK, Checks
<1>3. CASE check[c].sha = 0 /\ check' = [check EXCEPT ![c].sha = head[b]]
  <2>1. check'[c] = [check[c] EXCEPT !.sha = head[b]]
    BY <1>2, <1>3 DEF TypeOK
  <2>2. check[c] \in [sha : 0..MaxHead, expected : SUBSET Standards]
    BY <1>2 DEF TypeOK
  <2>3. check'[c].expected = check[c].expected
    BY <2>1, <2>2
  <2>4. \A d \in Checks \ {c} : check'[d] = check[d]
    BY <1>3 DEF TypeOK
  <2>. QED
    BY <1>2, <1>3, <2>3, <2>4
<1>. QED
  BY <1>1, <1>2, <1>3

LEMMA StepFrame ==
  ASSUME TypeOK, FreshJobs, [Next]_vars
  PROVE  /\ OnlySettles \/ \E j \in Jobs : Queues(j)
         /\ KeepsScores \/ \E a \in Actors : ScoresOnly(a)
<1>. DEFINE Goal == /\ OnlySettles \/ \E j \in Jobs : Queues(j)
                    /\ KeepsScores \/ \E a \in Actors : ScoresOnly(a)
<1>1. ASSUME NEW b \in Branches, Push(b) PROVE Goal
  BY <1>1 DEF Push, OnlySettles, KeepsScores
<1>2. ASSUME NEW s \in Standards, Archive(s) PROVE Goal
  BY <1>2 DEF Archive, OnlySettles, KeepsScores
<1>3. ASSUME NEW r \in Requests, StartRequest(r) PROVE Goal
  BY <1>3 DEF StartRequest, OnlySettles, KeepsScores
<1>4. ASSUME NEW r \in Requests, CommitRequest(r) PROVE Goal
  <2>1. KeepsScores
    BY <1>4 DEF CommitRequest, KeepsScores
  <2>2. request[r].ref \in Branches \cup {NoRef}
    BY DEF TypeOK
  <2>3. CASE Enqueue("manual", request[r].ref, request[r].sha, request[r].toRun, ExpectedOn)
    BY <1>4, <2>1, <2>2, <2>3, EnqueueQueues DEF CommitRequest
  <2>4. CASE UNCHANGED <<queue, row, check>>
    BY <1>4, <2>1, <2>4 DEF CommitRequest, OnlySettles
  <2>. QED
    BY <1>4, <2>3, <2>4 DEF CommitRequest
<1>5. ASSUME NEW b \in Branches, EnqueueForEvent(b) PROVE Goal
  <2>1. KeepsScores
    BY <1>5 DEF EnqueueForEvent, KeepsScores
  <2>. QED
    BY <1>5, <2>1, EnqueueQueues DEF EnqueueForEvent
<1>6. ASSUME NEW w \in Runners, NEW j \in Jobs, Fetch(w, j) PROVE Goal
  BY <1>6 DEF Fetch, TypeOK, OnlySettles, KeepsScores
<1>7. ASSUME NEW w \in Runners, LoadRows(w) PROVE Goal
  BY <1>7 DEF LoadRows, TypeOK, OnlySettles, KeepsScores
<1>8. ASSUME NEW w \in Runners, PinHead(w) PROVE Goal
  BY <1>8, PinHeadSetsOneCommit DEF PinHead, TypeOK, OnlySettles, KeepsScores
<1>9. ASSUME NEW w \in Runners, BuildConfig(w) PROVE Goal
  BY <1>9 DEF BuildConfig, TypeOK, OnlySettles, KeepsScores
<1>10. ASSUME NEW w \in Runners, RunExecution(w) PROVE Goal
  <2>1. job[at[w]] # "none"
    BY <1>10 DEF RunExecution, FreshJobs
  <2>2. "running" \notin Outcomes
    BY ConstantsAssumption DEF Finished
  <2>. QED
    BY <1>10, <2>1, <2>2 DEF RunExecution, TypeOK, OnlySettles, KeepsScores
<1>11. ASSUME NEW w \in Runners, FailArchived(w) PROVE Goal
  BY <1>11, ErroredSettles DEF FailArchived, TypeOK, FreshJobs, Execs, OnlySettles, KeepsScores
<1>12. ASSUME NEW w \in Runners, EndRun(w) PROVE Goal
  BY <1>12 DEF EndRun, TypeOK, OnlySettles, KeepsScores
<1>13. ASSUME NEW w \in Runners, Raise(w) PROVE Goal
  BY <1>13 DEF Raise, TypeOK, OnlySettles, KeepsScores
<1>14. ASSUME NEW w \in Runners, FailRemaining(w) PROVE Goal
  BY <1>14, ErroredSettles DEF FailRemaining, TypeOK, FreshJobs, Execs, OnlySettles, KeepsScores
<1>15. ASSUME NEW w \in Runners, ScoreJob(w) PROVE Goal
  BY <1>15 DEF ScoreJob, OnlySettles, ScoresOnly, Actors
<1>16. ASSUME NEW w \in Runners, PublishFinished(w) PROVE Goal
  BY <1>16 DEF PublishFinished, TypeOK, OnlySettles, KeepsScores
<1>17. ASSUME NEW w \in Runners, Finish(w) PROVE Goal
  BY <1>17, ForgetKeepsScores, EndJobKeepsQueued
     DEF Finish, Forget, TypeOK, FreshJobs, OnlySettles, KeepsScores
<1>18. ASSUME NEW w \in Runners, Crash(w) PROVE Goal
  BY <1>18, ForgetKeepsScores DEF Crash, Forget, TypeOK, OnlySettles, KeepsScores
<1>19. ASSUME NEW w \in Runners, LoseDatabase(w) PROVE Goal
  BY <1>19, ForgetKeepsScores, EndJobKeepsQueued
     DEF LoseDatabase, Forget, TypeOK, Ended, FreshJobs, OnlySettles, KeepsScores
<1>20. ASSUME NEW j \in Jobs, Recover(j) PROVE Goal
  BY <1>20 DEF Recover, TypeOK, OnlySettles, KeepsScores
<1>21. ASSUME NEW j \in Jobs, RecoverSilent(j) PROVE Goal
  BY <1>21 DEF RecoverSilent, TypeOK, OnlySettles, KeepsScores
<1>22. ASSUME NEW e \in Execs, Age(e) PROVE Goal
  BY <1>22 DEF Age, OnlySettles, KeepsScores
<1>23. CASE SweepSelect
  BY <1>23 DEF SweepSelect, OnlySettles, KeepsScores
<1>24. CASE SweepExpire
  BY <1>24, ErroredSettles DEF SweepExpire, FreshJobs, Execs, OnlySettles, KeepsScores
<1>25. CASE SweepScore
  BY <1>25 DEF SweepScore, OnlySettles, ScoresOnly, Actors
<1>26. CASE SweepPublish
  BY <1>26 DEF SweepPublish, OnlySettles, KeepsScores
<1>27. CASE SweepCrash
  BY <1>27 DEF SweepCrash, TypeOK, OnlySettles, KeepsScores
<1>28. CASE UNCHANGED vars
  BY <1>28 DEF vars, OnlySettles, KeepsScores
<1>. QED
  BY <1>1, <1>2, <1>3, <1>4, <1>5, <1>6, <1>7, <1>8, <1>9, <1>10, <1>11, <1>12,
     <1>13, <1>14, <1>15, <1>16, <1>17, <1>18, <1>19, <1>20, <1>21, <1>22, <1>23,
     <1>24, <1>25, <1>26, <1>27, <1>28
     DEF Next, RunnerStep, SweepStep, Rest

-----------------------------------------------------------------------------
(***************************************************************************)
(* No score while a run is going.                                          *)
(***************************************************************************)

LEMMA ScoreInit == Init => ScoreInv
<1>. SUFFICES ASSUME Init PROVE FreshJobs /\ PendingIsLast /\ NoScoreWhileGoing
  BY InitType DEF ScoreInv
<1>1. FreshJobs
  BY DEF Init, FreshJobs, Execs, Checks
<1>2. PendingIsLast /\ NoScoreWhileGoing
  BY DEF Init, PendingIsLast, NoScoreWhileGoing
<1>. QED
  BY <1>1, <1>2

LEMMA FreshJobsStep ==
  ASSUME ScoreInv, [Next]_vars
  PROVE  FreshJobs'
<1>. USE DEF ScoreInv
<1>1. ASSUME NEW j \in Jobs, job'[j] = "none" PROVE job[j] = "none"
  BY <1>1, StepFrame DEF OnlySettles, Queues
<1>2. ASSUME NEW j \in Jobs, job'[j] = "none", NEW s \in Standards
      PROVE  row'[<<j, s>>] = "none" /\ read'[<<j, s>>] = 0
  <2>1. row[<<j, s>>] = "none" /\ read[<<j, s>>] = 0
    BY <1>1, <1>2 DEF FreshJobs
  <2>2. <<j, s>> \in Execs /\ <<j, s>>[1] = j
    BY DEF Execs
  <2>. QED
    BY <1>1, <1>2, <2>1, <2>2, StepFrame DEF OnlySettles, Queues
<1>3. ASSUME NEW j \in Jobs, job'[j] = "none", NEW b \in Branches
      PROVE  check'[<<j, b>>].expected = {}
  <2>1. <<j, b>> \in Checks /\ <<j, b>>[1] = j
    BY DEF Checks
  <2>. QED
    BY <1>1, <1>3, <2>1, StepFrame DEF OnlySettles, Queues, FreshJobs
<1>4. ASSUME NEW j \in Jobs, job'[j] = "none", NEW b \in Branches
      PROVE  saved'[<<j, b>>] = Undecided
  <2>1. saved[<<j, b>>] = Undecided
    BY <1>1, <1>4 DEF FreshJobs
  <2>2. ASSUME NEW a \in Actors, SaveScore(a) PROVE saved'[<<j, b>>] = saved[<<j, b>>]
    BY <1>1, <1>4, <2>2 DEF SaveScore, PendingIsLast, TypeOK
  <2>. QED
    BY <2>1, <2>2, StepFrame DEF KeepsScores, ScoresOnly, ScoreChecks, ReadAndDecide
<1>5. ASSUME NEW w \in Runners, pc'[w] # "idle"
      PROVE  job'[at'[w]] # "none"
  <2>1. CASE OnlySettles
    <3>1. at'[w] \in Jobs /\ job[at'[w]] # "none"
      BY <1>5, <2>1 DEF OnlySettles, FreshJobs, TypeOK
    <3>. QED
      BY <2>1, <3>1 DEF OnlySettles
  <2>2. CASE \E j \in Jobs : Queues(j)
    BY <1>5, <2>2 DEF Queues, FreshJobs, TypeOK
  <2>. QED
    BY <2>1, <2>2, StepFrame
<1>. QED
  BY <1>2, <1>3, <1>4, <1>5 DEF FreshJobs

\* No step starts a run of a check that has been queued before.
LEMMA GoingOnlyEnds ==
  ASSUME ScoreInv, [Next]_vars, NEW c \in Checks, job[c[1]] # "none", ~Going(c)
  PROVE  ~Going(c)'
<1>. USE DEF ScoreInv
<1>1. SUFFICES ASSUME NEW e \in Execs, CheckOf(e)' = c, row'[e] = "running"
               PROVE  FALSE
  BY DEF Going, RowsOfCheck, RowsOfJob
<1>2. e[1] = c[1] /\ e[1] \in Jobs
  BY <1>1 DEF CheckOf, Execs
<1>3. CASE OnlySettles
  BY <1>1, <1>3, GoingMeans DEF OnlySettles, CheckOf, BranchOf
<1>4. ASSUME NEW j \in Jobs, Queues(j) PROVE FALSE
  <2>1. e[1] # j
    BY <1>2, <1>4 DEF Queues
  <2>. QED
    BY <1>1, <1>2, <1>4, <2>1, GoingMeans DEF Queues, CheckOf, BranchOf
<1>. QED
  BY <1>3, <1>4, StepFrame

\* A decision is taken only on a queued check none of whose runs is going.
LEMMA DecidedMeans ==
  ASSUME FreshJobs, NEW c \in Checks, Decision(c) # Undecided
  PROVE  job[c[1]] # "none" /\ ~Going(c)
<1>1. check[c].expected # {} /\ ~Going(c)
  BY DEF Decision, Decide
<1>2. c[1] \in Jobs /\ c[2] \in Branches /\ c = <<c[1], c[2]>>
  BY DEF Checks
<1>. QED
  BY <1>1, <1>2 DEF FreshJobs

LEMMA QueuedStaysQueued ==
  ASSUME ScoreInv, [Next]_vars, NEW j \in Jobs, job[j] # "none"
  PROVE  job'[j] # "none"
  BY StepFrame DEF ScoreInv, OnlySettles, Queues

LEMMA PendingIsLastStep ==
  ASSUME ScoreInv, [Next]_vars
  PROVE  PendingIsLast'
<1>. USE DEF ScoreInv
<1>. SUFFICES ASSUME NEW a \in Actors, pending'[a] # NothingPending
              PROVE  (job[pending[a].check[1]] # "none" /\ ~Going(pending[a].check))'
  BY DEF PendingIsLast
<1>1. \/ pending'[a] = pending[a]
      \/ \E c \in Checks : /\ Decision(c) # Undecided
                           /\ pending'[a] = [check |-> c, verdict |-> Decision(c)]
  BY StepFrame DEF KeepsScores, ScoresOnly, ScoreChecks, ReadAndDecide, SaveScore, TypeOK
<1>2. PICK c \in Checks : pending'[a].check = c /\ job[c[1]] # "none" /\ ~Going(c)
  <2>1. CASE pending'[a] = pending[a]
    <3>1. pending[a] # NothingPending
      BY <2>1
    <3>2. pending[a].check \in Checks
      BY <3>1 DEF TypeOK
    <3>. QED
      BY <2>1, <3>1, <3>2 DEF PendingIsLast
  <2>2. ASSUME NEW c \in Checks, Decision(c) # Undecided,
               pending'[a] = [check |-> c, verdict |-> Decision(c)]
        PROVE  pending'[a].check = c /\ job[c[1]] # "none" /\ ~Going(c)
    BY <2>2, DecidedMeans
  <2>. QED
    BY <1>1, <2>1, <2>2
<1>3. c[1] \in Jobs
  BY DEF Checks
<1>4. job'[c[1]] # "none"
  BY <1>2, <1>3, QueuedStaysQueued
<1>5. ~Going(c)'
  BY <1>2, GoingOnlyEnds
<1>. QED
  BY <1>2, <1>4, <1>5

LEMMA NoScoreWhileGoingStep ==
  ASSUME ScoreInv, [Next]_vars
  PROVE  NoScoreWhileGoing'
<1>. USE DEF ScoreInv
<1>. SUFFICES ASSUME NEW c \in Checks, saved'[c] # Undecided
              PROVE  ~Going(c)'
  BY DEF NoScoreWhileGoing
<1>1. saved[c] # Undecided \/ \E a \in Actors : pending[a] # NothingPending /\ pending[a].check = c
  BY StepFrame DEF KeepsScores, ScoresOnly, ScoreChecks, ReadAndDecide, SaveScore, TypeOK
<1>2. job[c[1]] # "none" /\ ~Going(c)
  <2>1. c[1] \in Jobs /\ c[2] \in Branches /\ c = <<c[1], c[2]>>
    BY DEF Checks
  <2>. QED
    BY <1>1, <2>1 DEF NoScoreWhileGoing, FreshJobs, PendingIsLast
<1>. QED
  BY <1>2, GoingOnlyEnds

LEMMA ScoreInvariant == Spec => []ScoreInv
<1>1. ScoreInv /\ [Next]_vars => ScoreInv'
  BY NextType, FreshJobsStep, PendingIsLastStep, NoScoreWhileGoingStep DEF ScoreInv
<1>. QED
  BY <1>1, ScoreInit, PTL DEF Spec

\* A saved score is the last word on its check: whoever saved it, the job, its
\* next attempt or the sweep, no run of the check is going, now or later.
THEOREM NoScoreWhileGoingHolds == Spec => []NoScoreWhileGoing
<1>1. ScoreInv => NoScoreWhileGoing
  BY DEF ScoreInv
<1>. QED
  BY <1>1, ScoreInvariant, PTL

\* What a runner has not handled yet covers every row of its job still RUNNING.
LeftCoversRunning ==
  \A w \in Runners :
    /\ pc[w] \in {"pin", "run"} =>
         \A s \in Standards : row[<<at[w], s>>] = "running" => s \in left[w]
    /\ pc[w] \in {"score", "finish"} =>
         \A s \in Standards : row[<<at[w], s>>] # "running"

EndInv == LeftCoversRunning /\ EndedJobLeavesNothingRunning

\* Without a false alarm, a job being done is the only one, and the runner its
\* row names executes it.
LockIsHeld ==
  faults["silence"] = 0 =>
    /\ \A w \in Runners : pc[w] # "idle" => job[at[w]] = "doing" /\ owner[at[w]] = w
    /\ \A j, k \in Jobs : job[j] = "doing" /\ job[k] = "doing" => j = k

\* A commit given when the job was queued is its checks' commit, and what a
\* runner remembers of them.
PinsAreKept ==
  /\ \A e \in Execs : row[e] # "none" /\ queued[e[1]].sha # 0 =>
       check[CheckOf(e)].sha = queued[e[1]].sha
  /\ \A w \in Runners : pc[w] \in {"pin", "run"} => \A s \in left[w] :
       /\ row[<<at[w], s>>] # "none"
       /\ queued[at[w]].sha # 0 =>
            seen[w][BranchOf(<<at[w], s>>)] = queued[at[w]].sha

PinInv == PinsAreKept /\ PinnedRunReadsItsCommit
-----------------------------------------------------------------------------
(***************************************************************************)
(* The steps that matter to a runner: the others leave the queue, the      *)
(* rows, the commits and the runners alone.                                *)
(***************************************************************************)

Elsewhere ==
  /\ UNCHANGED <<job, owner, queued, row, check, read, worker>>
  /\ \A f \in {"crash", "silence", "database"} : faults'[f] = faults[f]

RunnerMoves(w) ==
  \/ \E j \in Jobs : Fetch(w, j)
  \/ LoadRows(w) \/ PinHead(w) \/ BuildConfig(w)
  \/ RunExecution(w) \/ FailArchived(w) \/ EndRun(w)
  \/ Raise(w) \/ FailRemaining(w) \/ PublishFinished(w) \/ Finish(w)
  \/ Crash(w) \/ LoseDatabase(w)

\* A request that is half way has something to run.
RequestsRun == \A r \in Requests : request[r] # Idle => request[r].toRun # {}

Queueing ==
  /\ \E kind \in {"manual", "event"}, ref \in Branches \cup {NoRef}, sha \in 0..MaxHead,
        toRun \in SUBSET Standards, expectedOn \in [Branches -> SUBSET Standards] :
       Enqueue(kind, ref, sha, toRun, expectedOn) /\ (RequestsRun => toRun # {})
  /\ UNCHANGED <<read, worker, saved, reports, faults>>

LEMMA StepKinds ==
  ASSUME TypeOK, [Next]_vars
  PROVE  \/ Elsewhere
         \/ Queueing
         \/ \E w \in Runners : RunnerMoves(w)
         \/ \E j \in Jobs : Recover(j) \/ RecoverSilent(j)
         \/ SweepExpire
<1>. DEFINE Other == Elsewhere \/ Queueing
<1>1. ASSUME NEW b \in Branches, Push(b) PROVE Other
  BY <1>1 DEF Push, Elsewhere
<1>2. ASSUME NEW s \in Standards, Archive(s) PROVE Other
  BY <1>2 DEF Archive, Elsewhere
<1>3. ASSUME NEW r \in Requests, StartRequest(r) PROVE Other
  BY <1>3 DEF StartRequest, Elsewhere
<1>4. ASSUME NEW r \in Requests, CommitRequest(r) PROVE Other
  <2>1. /\ request[r].ref \in Branches \cup {NoRef} /\ request[r].sha \in 0..MaxHead
        /\ request[r].toRun \in SUBSET Standards
        /\ ExpectedOn \in [Branches -> SUBSET Standards]
    BY DEF TypeOK, ExpectedOn
  <2>2. CASE Enqueue("manual", request[r].ref, request[r].sha, request[r].toRun, ExpectedOn)
    <3>1. UNCHANGED <<read, worker, saved, reports, faults>> /\ request[r] # Idle
      BY <1>4 DEF CommitRequest
    <3>. QED
      BY <2>1, <2>2, <3>1 DEF Queueing, RequestsRun
  <2>3. CASE UNCHANGED <<queue, row, check>>
    BY <1>4, <2>3 DEF CommitRequest, Elsewhere
  <2>. QED
    BY <1>4, <2>2, <2>3 DEF CommitRequest
<1>5. ASSUME NEW b \in Branches, EnqueueForEvent(b) PROVE Other
  <2>1. PICK sha \in 0..head[b], matched \in (SUBSET (Standards \ archived)) \ {{}} :
          Enqueue("event", b, sha, matched, [branch \in Branches |-> matched])
    BY <1>5 DEF EnqueueForEvent
  <2>2. sha \in 0..MaxHead /\ matched \in SUBSET Standards
    BY ConstantsAssumption DEF TypeOK
  <2>3. [branch \in Branches |-> matched] \in [Branches -> SUBSET Standards]
    BY <2>2
  <2>4. Queueing
    <3>1. UNCHANGED <<read, worker, saved, reports, faults>>
      BY <1>5 DEF EnqueueForEvent
    <3>2. matched # {}
      OBVIOUS
    <3>. QED
      BY <2>1, <2>2, <2>3, <3>1, <3>2 DEF Queueing
  <2>. QED
    BY <2>4
<1>6. ASSUME NEW w \in Runners, ScoreJob(w) PROVE Other
  BY <1>6 DEF ScoreJob, Elsewhere
<1>7. ASSUME NEW e \in Execs, Age(e) PROVE Other
  BY <1>7 DEF Age, Elsewhere
<1>8. ASSUME SweepSelect \/ SweepScore \/ SweepPublish PROVE Other
  BY <1>8 DEF SweepSelect, SweepScore, SweepPublish, Elsewhere
<1>9. CASE SweepCrash
  BY <1>9 DEF SweepCrash, Fault, TypeOK, Faults, Elsewhere
<1>10. CASE UNCHANGED vars
  BY <1>10 DEF vars, Elsewhere
<1>. QED
  BY <1>1, <1>2, <1>3, <1>4, <1>5, <1>6, <1>7, <1>8, <1>9, <1>10
     DEF Next, RunnerStep, SweepStep, Rest, RunnerMoves
-----------------------------------------------------------------------------
(***************************************************************************)
(* The lock.                                                               *)
(***************************************************************************)

\* A fault is counted.
LEMMA FaultCounts ==
  ASSUME TypeOK, NEW f \in Faults, Fault(f)
  PROVE  faults'[f] > 0 /\ \A g \in Faults \ {f} : faults'[g] = faults[g]
  BY DEF Fault, TypeOK

LEMMA LockStep ==
  ASSUME TypeOK, LockIsHeld, [Next]_vars
  PROVE  LockIsHeld'
<1>. SUFFICES ASSUME faults'["silence"] = 0
              PROVE  /\ \A w \in Runners : pc'[w] # "idle" => job'[at'[w]] = "doing" /\ owner'[at'[w]] = w
                     /\ \A j, k \in Jobs : job'[j] = "doing" /\ job'[k] = "doing" => j = k
  BY DEF LockIsHeld
<1>. DEFINE Goal == /\ \A w \in Runners : pc'[w] # "idle" => job'[at'[w]] = "doing" /\ owner'[at'[w]] = w
                    /\ \A j, k \in Jobs : job'[j] = "doing" /\ job'[k] = "doing" => j = k
            Was == /\ \A w \in Runners : pc[w] # "idle" => job[at[w]] = "doing" /\ owner[at[w]] = w
                   /\ \A j, k \in Jobs : job[j] = "doing" /\ job[k] = "doing" => j = k
<1>0. ASSUME faults["silence"] = 0 PROVE Was
  BY <1>0 DEF LockIsHeld
<1>1. CASE Elsewhere
  BY <1>0, <1>1 DEF Elsewhere
<1>2. CASE Queueing
  BY <1>0, <1>2 DEF Queueing, Enqueue, TypeOK
<1>3. ASSUME NEW w \in Runners, NEW j \in Jobs, Fetch(w, j) PROVE Goal
  BY <1>0, <1>3 DEF Fetch, TypeOK
<1>4. ASSUME NEW w \in Runners,
             \/ LoadRows(w) \/ PinHead(w) \/ BuildConfig(w)
             \/ RunExecution(w) \/ FailArchived(w) \/ EndRun(w)
             \/ Raise(w) \/ FailRemaining(w) \/ PublishFinished(w)
      PROVE  Goal
  <2>1. UNCHANGED <<job, owner, at, faults>> /\ \A v \in Runners : pc'[v] # "idle" => pc[v] # "idle"
    BY <1>4 DEF LoadRows, PinHead, BuildConfig, RunExecution, FailArchived, EndRun,
       Raise, FailRemaining, PublishFinished, TypeOK
  <2>. QED
    BY <1>0, <2>1
<1>5. ASSUME NEW w \in Runners, Forget(w), UNCHANGED job,
             owner' = [j \in Jobs |-> IF owner[j] = w THEN NoOne ELSE owner[j]],
             faults'["silence"] = faults["silence"]
      PROVE  Goal
  BY <1>0, <1>5 DEF Forget, TypeOK
<1>6. ASSUME NEW w \in Runners, pc[w] # "idle", Forget(w), NEW status \in Ended,
             EndJob(at[w], status), faults'["silence"] = faults["silence"]
      PROVE  Goal
  <2>1. at[w] \in Jobs /\ job[at[w]] = "doing"
    BY <1>0, <1>6 DEF TypeOK
  <2>2. \A v \in Runners : v # w => pc[v] = "idle"
    BY <1>0, <1>6 DEF TypeOK
  <2>3. \A v \in Runners : pc'[v] = "idle"
    BY <1>6, <2>2 DEF Forget, TypeOK
  <2>4. \A k \in Jobs : job'[k] = "doing" => job[k] = "doing"
    BY <1>6 DEF EndJob, TypeOK, Ended
  <2>. QED
    BY <1>0, <1>6, <2>3, <2>4
<1>7. ASSUME NEW w \in Runners, Crash(w) \/ Finish(w) \/ LoseDatabase(w) PROVE Goal
  <2>1. CASE Crash(w)
    BY <1>5, <2>1, FaultCounts DEF Crash, Faults
  <2>2. CASE Finish(w)
    BY <1>6, <2>2 DEF Finish, TypeOK
  <2>3. CASE LoseDatabase(w)
    BY <1>6, <2>3, FaultCounts DEF LoseDatabase, Ended, Faults
  <2>. QED
    BY <1>7, <2>1, <2>2, <2>3
<1>8. ASSUME NEW j \in Jobs, Recover(j) PROVE Goal
  BY <1>0, <1>8, ConstantsAssumption DEF Recover, TypeOK
<1>9. ASSUME NEW j \in Jobs, RecoverSilent(j) PROVE Goal
  BY <1>9, FaultCounts DEF RecoverSilent, Faults
<1>10. CASE SweepExpire
  BY <1>0, <1>10 DEF SweepExpire
<1>. QED
  BY <1>1, <1>2, <1>3, <1>4, <1>7, <1>8, <1>9, <1>10, StepKinds DEF RunnerMoves

\* The lock of a project's jobs does what its name says: as long as no live
\* worker is taken for dead, two runners are never inside run_standards at once.
THEOREM OneRunAtATimeHolds == Spec => []OneRunAtATime
<1>1. Init => LockIsHeld
  BY DEF Init, LockIsHeld
<1>2. TypeOK /\ LockIsHeld => OneRunAtATime
  <2>. SUFFICES ASSUME TypeOK, LockIsHeld, faults["silence"] = 0, NEW v \in Runners,
                       NEW w \in Runners, pc[v] # "idle", pc[w] # "idle"
                PROVE  v = w
    BY DEF OneRunAtATime, TypeOK, Faults
  <2>. QED
    BY DEF LockIsHeld, TypeOK
<1>3. TypeOK /\ LockIsHeld /\ [Next]_vars => LockIsHeld'
  BY LockStep
<1>. QED
  BY <1>1, <1>2, <1>3, TypeCorrect, PTL DEF Spec
-----------------------------------------------------------------------------
(***************************************************************************)
(* Every row of a job that ended was settled.                              *)
(***************************************************************************)

\* The rows of a job no longer matter to a runner that forgets it.
LEMMA LeftStep ==
  ASSUME TypeOK, FreshJobs, LeftCoversRunning, [Next]_vars
  PROVE  LeftCoversRunning'
<1>. DEFINE Covers(w) ==
       /\ pc[w] \in {"pin", "run"} =>
            \A s \in Standards : row[<<at[w], s>>] = "running" => s \in left[w]
       /\ pc[w] \in {"score", "finish"} =>
            \A s \in Standards : row[<<at[w], s>>] # "running"
<1>. SUFFICES ASSUME NEW v \in Runners, pc'[v] # "idle" PROVE Covers(v)'
  BY DEF LeftCoversRunning
<1>0. Covers(v)
  BY DEF LeftCoversRunning
\* A step that leaves v alone starts none of its rows.
<1>1. ASSUME pc'[v] = pc[v], at'[v] = at[v], left'[v] = left[v], OnlySettles
      PROVE  Covers(v)'
  <2>1. at[v] \in Jobs
    BY <1>1 DEF TypeOK
  <2>2. \A s \in Standards : row'[<<at[v], s>>] = "running" => row[<<at[v], s>>] = "running"
    BY <1>1, <2>1 DEF OnlySettles, Execs
  <2>. QED
    BY <1>0, <1>1, <2>2
<1>2. CASE Elsewhere
  BY <1>0, <1>2 DEF Elsewhere
<1>3. ASSUME NEW j \in Jobs, Queues(j) PROVE Covers(v)'
  <2>1. at[v] \in Jobs /\ at[v] # j
    BY <1>3 DEF Queues, TypeOK, FreshJobs
  <2>2. \A s \in Standards : row'[<<at[v], s>>] = row[<<at[v], s>>]
    BY <1>3, <2>1 DEF Queues, Execs
  <2>. QED
    BY <1>0, <1>3, <2>2 DEF Queues
<1>4. ASSUME NEW w \in Runners, RunnerMoves(w), w # v PROVE Covers(v)'
  <2>1. pc'[v] = pc[v] /\ at'[v] = at[v] /\ left'[v] = left[v]
    <3>1. ASSUME NEW j \in Jobs, Fetch(w, j) PROVE pc'[v] = pc[v] /\ at'[v] = at[v] /\ left'[v] = left[v]
      BY <1>4, <3>1 DEF Fetch, TypeOK
    <3>2. CASE LoadRows(w) \/ PinHead(w) \/ BuildConfig(w)
      BY <1>4, <3>2 DEF LoadRows, PinHead, BuildConfig, TypeOK
    <3>3. CASE RunExecution(w) \/ FailArchived(w)
      BY <1>4, <3>3 DEF RunExecution, FailArchived, TypeOK
    <3>4. CASE EndRun(w) \/ Raise(w) \/ FailRemaining(w) \/ PublishFinished(w)
      BY <1>4, <3>4 DEF EndRun, Raise, FailRemaining, PublishFinished, TypeOK
    <3>5. CASE Finish(w) \/ Crash(w) \/ LoseDatabase(w)
      BY <1>4, <3>5 DEF Finish, Crash, LoseDatabase, Forget, TypeOK
    <3>. QED
      BY <1>4, <3>1, <3>2, <3>3, <3>4, <3>5 DEF RunnerMoves
  <2>2. OnlySettles \/ UNCHANGED row
    BY <1>4, StepFrame DEF Queues, RunnerMoves, Fetch, LoadRows, PinHead, BuildConfig,
       RunExecution, FailArchived, EndRun, Raise, FailRemaining, PublishFinished,
       Finish, Crash, LoseDatabase, EndJob
  <2>. QED
    BY <1>0, <1>1, <2>1, <2>2
<1>5. ASSUME RunnerMoves(v) PROVE Covers(v)'
  <2>1. at'[v] \in Jobs
    BY <1>5, NextType DEF TypeOK
  <2>2. ASSUME NEW j \in Jobs, Fetch(v, j) PROVE Covers(v)'
    BY <2>2 DEF Fetch, TypeOK
  <2>3. CASE LoadRows(v)
    BY <2>3 DEF LoadRows, RowsToRun, TypeOK
  <2>4. CASE PinHead(v) \/ BuildConfig(v)
    BY <1>0, <2>4 DEF PinHead, BuildConfig, TypeOK
  <2>5. CASE RunExecution(v)
    <3>1. "running" \notin Outcomes
      BY ConstantsAssumption DEF Finished
    <3>. QED
      BY <1>0, <2>1, <2>5, <3>1 DEF RunExecution, TypeOK, Execs
  <2>6. CASE FailArchived(v)
    <3>1. PICK s \in left[v] \cap gone[v] :
            row' = Errored({<<at[v], s>>}) /\ left' = [left EXCEPT ![v] = @ \ {s}]
      BY <2>6 DEF FailArchived
    <3>2. pc[v] = "run" /\ pc'[v] = "run" /\ at'[v] = at[v] /\ left'[v] = left[v] \ {s}
      BY <2>6, <3>1 DEF FailArchived, TypeOK
    <3>3. ASSUME NEW t \in Standards, row'[<<at[v], t>>] = "running"
          PROVE  t \in left[v] \ {s}
      BY <1>0, <2>1, <3>1, <3>2, <3>3, ErroredSettles DEF Execs
    <3>. QED
      BY <3>2, <3>3
  <2>7. CASE EndRun(v)
    BY <1>0, <2>7 DEF EndRun, TypeOK
  <2>8. CASE Raise(v)
    BY <2>8 DEF Raise, TypeOK
  <2>9. CASE FailRemaining(v)
    <3>1. row' = Errored(RowsOfJob(at[v])) /\ pc'[v] = "score" /\ at'[v] = at[v]
      BY <2>9 DEF FailRemaining, TypeOK
    <3>2. ASSUME NEW s \in Standards PROVE row'[<<at[v], s>>] # "running"
      BY <2>1, <3>1, ErroredSettles DEF Execs, RowsOfJob
    <3>. QED
      BY <3>1, <3>2
  <2>10. CASE PublishFinished(v)
    BY <1>0, <2>10 DEF PublishFinished, TypeOK
  <2>11. CASE Finish(v) \/ Crash(v) \/ LoseDatabase(v)
    BY <2>11 DEF Finish, Crash, LoseDatabase, Forget, TypeOK
  <2>. QED
    BY <1>5, <2>2, <2>3, <2>4, <2>5, <2>6, <2>7, <2>8, <2>9, <2>10, <2>11 DEF RunnerMoves
<1>6. ASSUME NEW j \in Jobs, Recover(j) \/ RecoverSilent(j) PROVE Covers(v)'
  BY <1>0, <1>6 DEF Recover, RecoverSilent
<1>7. CASE SweepExpire
  <2>1. OnlySettles
    BY <1>7, StepFrame DEF SweepExpire, Queues
  <2>. QED
    BY <1>1, <1>7, <2>1 DEF SweepExpire
<1>8. CASE Queueing
  BY <1>3, <1>8, EnqueueQueues DEF Queueing
<1>. QED
  BY <1>2, <1>4, <1>5, <1>6, <1>7, <1>8, StepKinds

\* Only run_standards records that a job is over.
LEMMA EndedStep ==
  ASSUME TypeOK, FreshJobs, LeftCoversRunning, EndedJobLeavesNothingRunning, [Next]_vars
  PROVE  EndedJobLeavesNothingRunning'
<1>. SUFFICES ASSUME NEW e \in Execs, row'[e] = "running", job'[e[1]] \in Ended,
                     ~(faults'["database"] > 0)
              PROVE  FALSE
  BY DEF EndedJobLeavesNothingRunning
<1>. DEFINE Before == /\ row[e] = "running" => job[e[1]] \notin Ended
                      /\ e[1] \in Jobs /\ e = <<e[1], e[2]>> /\ e[2] \in Standards
<1>0. ASSUME faults'["database"] = faults["database"] PROVE Before
  BY <1>0 DEF EndedJobLeavesNothingRunning, Execs
<1>1. CASE Elsewhere
  BY <1>0, <1>1 DEF Elsewhere
<1>2. CASE Queueing
  <2>1. PICK j \in Jobs : Queues(j)
    BY <1>2, EnqueueQueues DEF Queueing
  <2>2. faults' = faults
    BY <1>2 DEF Queueing
  <2>. QED
    BY <1>0, <2>1, <2>2 DEF Queues, Ended
<1>3. ASSUME NEW w \in Runners, NEW j \in Jobs, Fetch(w, j) PROVE FALSE
  BY <1>0, <1>3 DEF Fetch, TypeOK, Ended
<1>4. ASSUME NEW w \in Runners,
             \/ LoadRows(w) \/ PinHead(w) \/ BuildConfig(w)
             \/ RunExecution(w) \/ FailArchived(w) \/ EndRun(w)
             \/ Raise(w) \/ FailRemaining(w) \/ PublishFinished(w) \/ Crash(w)
      PROVE  FALSE
  <2>1. UNCHANGED job /\ faults'["database"] = faults["database"]
    BY <1>4, FaultCounts DEF LoadRows, PinHead, BuildConfig, RunExecution, FailArchived,
       EndRun, Raise, FailRemaining, PublishFinished, Crash, Faults
  <2>2. OnlySettles \/ UNCHANGED row
    BY <1>4, StepFrame DEF Queues, LoadRows, PinHead, BuildConfig, RunExecution,
       FailArchived, EndRun, Raise, FailRemaining, PublishFinished, Crash
  <2>. QED
    BY <1>0, <2>1, <2>2 DEF OnlySettles
<1>5. ASSUME NEW w \in Runners, Finish(w) PROVE FALSE
  <2>1. /\ pc[w] = "finish" /\ UNCHANGED <<row, faults>> /\ EndJob(at[w], ending[w])
    BY <1>5 DEF Finish
  <2>2. e[1] = at[w]
    BY <1>0, <2>1 DEF EndJob, TypeOK
  <2>3. row[e] # "running"
    BY <1>0, <2>1, <2>2 DEF LeftCoversRunning
  <2>. QED
    BY <2>1, <2>3
<1>6. ASSUME NEW w \in Runners, LoseDatabase(w) PROVE FALSE
  BY <1>6, FaultCounts DEF LoseDatabase, Faults
<1>7. ASSUME NEW j \in Jobs, Recover(j) PROVE FALSE
  BY <1>0, <1>7 DEF Recover, TypeOK, Ended
<1>8. ASSUME NEW j \in Jobs, RecoverSilent(j) PROVE FALSE
  BY <1>0, <1>8, FaultCounts DEF RecoverSilent, TypeOK, Ended, Faults
<1>9. CASE SweepExpire
  <2>1. OnlySettles
    BY <1>9, StepFrame DEF SweepExpire, Queues
  <2>. QED
    BY <1>0, <1>9, <2>1 DEF SweepExpire, OnlySettles
<1>. QED
  BY <1>1, <1>2, <1>3, <1>4, <1>5, <1>6, <1>7, <1>8, <1>9, StepKinds DEF RunnerMoves

\* run_standards keeps its promise on every path out of it, whatever crashes,
\* recoveries and second runners come in between: a job the queue records as
\* over left no row RUNNING, unless the database failed its last handler.
THEOREM EndedJobLeavesNothingRunningHolds == Spec => []EndedJobLeavesNothingRunning
<1>1. Init => EndInv
  BY DEF Init, EndInv, LeftCoversRunning, EndedJobLeavesNothingRunning
<1>2. ScoreInv /\ EndInv /\ [Next]_vars => EndInv'
  BY LeftStep, EndedStep DEF ScoreInv, EndInv
<1>3. EndInv => EndedJobLeavesNothingRunning
  BY DEF EndInv
<1>. QED
  BY <1>1, <1>2, <1>3, ScoreInvariant, PTL DEF Spec
-----------------------------------------------------------------------------
(***************************************************************************)
(* A run whose commit was given reads that commit.                         *)
(***************************************************************************)

\* A row stays in its job and its check once it is there, and the commit of a
\* check is set once.
LEMMA ChecksAreStable ==
  ASSUME ScoreInv, [Next]_vars, NEW e \in Execs, row[e] # "none"
  PROVE  /\ job[e[1]] # "none" /\ queued'[e[1]] = queued[e[1]]
         /\ BranchOf(e)' = BranchOf(e) /\ CheckOf(e)' = CheckOf(e)
         /\ check[CheckOf(e)].sha # 0 => check'[CheckOf(e)].sha = check[CheckOf(e)].sha
<1>. USE DEF ScoreInv
<1>1. e[1] \in Jobs /\ e[2] \in Standards /\ e = <<e[1], e[2]>>
  BY DEF Execs
<1>2. job[e[1]] # "none"
  BY <1>1 DEF FreshJobs
<1>3. queued'[e[1]] = queued[e[1]]
  BY <1>1, <1>2, StepFrame DEF OnlySettles, Queues
<1>4. BranchOf(e)' = BranchOf(e) /\ CheckOf(e)' = CheckOf(e)
  BY <1>3 DEF BranchOf, CheckOf
<1>. DEFINE c == CheckOf(e)
<1>5. c \in Checks /\ c[1] = e[1]
  BY CheckOfType
<1>6. ASSUME check[c].sha # 0 PROVE check'[c].sha = check[c].sha
  <2>1. ASSUME NEW w \in Runners, PinHead(w) PROVE check'[c].sha = check[c].sha
    BY <1>5, <1>6, <2>1, PinHeadSetsOneCommit
  <2>2. ASSUME NEW j \in Jobs, Queues(j) PROVE check'[c].sha = check[c].sha
    BY <1>2, <1>5, <2>2 DEF Queues
  <2>3. CASE UNCHANGED check
    BY <2>3
  <2>4. ASSUME NEW w \in Runners, RunnerMoves(w), ~PinHead(w) PROVE UNCHANGED check
    BY <2>4 DEF RunnerMoves, Fetch, LoadRows, BuildConfig, RunExecution, FailArchived,
       EndRun, Raise, FailRemaining, PublishFinished, Finish, Crash, LoseDatabase
  <2>. QED
    BY <2>1, <2>2, <2>3, <2>4, StepKinds, EnqueueQueues
       DEF Elsewhere, Queueing, Recover, RecoverSilent, SweepExpire
<1>. QED
  BY <1>2, <1>3, <1>4, <1>6

\* The checks of a queued job are pinned to the commit the job was given.
LEMMA EnqueuePins ==
  ASSUME TypeOK, Queueing, NEW e \in Execs, row[e] = "none", row'[e] # "none"
  PROVE  check'[CheckOf(e)'].sha = queued'[e[1]].sha
<1>1. PICK kind \in {"manual", "event"}, ref \in Branches \cup {NoRef}, sha \in 0..MaxHead,
           toRun \in SUBSET Standards, expectedOn \in [Branches -> SUBSET Standards] :
        Enqueue(kind, ref, sha, toRun, expectedOn)
  BY DEF Queueing
<1>2. PICK j \in Jobs :
        /\ queued' = [queued EXCEPT ![j] = [kind |-> kind, ref |-> ref, sha |-> sha]]
        /\ row' = [x \in Execs |-> IF x[1] = j /\ x[2] \in toRun THEN "running" ELSE row[x]]
        /\ check' = [c \in Checks |->
             IF /\ c[1] = j
                /\ c[2] \in (IF ref = NoRef THEN {RunBranch[s] : s \in toRun} ELSE {ref})
             THEN [sha |-> sha, expected |-> expectedOn[c[2]]]
             ELSE check[c]]
  BY <1>1 DEF Enqueue
<1>3. e[1] = j /\ e[2] \in toRun /\ e[2] \in Standards
  BY <1>2 DEF Execs
<1>4. queued'[j] = [kind |-> kind, ref |-> ref, sha |-> sha]
  BY <1>2 DEF TypeOK
<1>5. CheckOf(e)' = <<j, IF ref = NoRef THEN RunBranch[e[2]] ELSE ref>>
  BY <1>3, <1>4 DEF CheckOf, BranchOf
<1>6. CheckOf(e)' \in Checks
  BY <1>3, <1>5, ConstantsAssumption DEF Checks
<1>. QED
  BY <1>2, <1>3, <1>4, <1>5, <1>6

\* Only enqueue_run creates rows.
LEMMA RowsAppear ==
  ASSUME ScoreInv, [Next]_vars, NEW e \in Execs, row[e] = "none", row'[e] # "none",
         \A w \in Runners : pc[w] = "run" => \A s \in left[w] : row[<<at[w], s>>] # "none"
  PROVE  Queueing
<1>. USE DEF ScoreInv
<1>1. ASSUME NEW rows, row' = Errored(rows) PROVE FALSE
  BY <1>1, ErroredSettles
<1>2. CASE UNCHANGED row
  BY <1>2
<1>3. ASSUME NEW w \in Runners, RunExecution(w) PROVE FALSE
  BY <1>3 DEF RunExecution, TypeOK
<1>4. ASSUME NEW w \in Runners, RunnerMoves(w), ~RunExecution(w)
      PROVE  UNCHANGED row \/ \E rows : row' = Errored(rows)
  BY <1>4 DEF RunnerMoves, Fetch, LoadRows, PinHead, BuildConfig, FailArchived,
     EndRun, Raise, FailRemaining, PublishFinished, Finish, Crash, LoseDatabase
<1>. QED
  BY <1>1, <1>2, <1>3, <1>4, StepKinds DEF Elsewhere, Recover, RecoverSilent, SweepExpire

\* Rows are never deleted.
LEMMA RowsRemain ==
  ASSUME ScoreInv, [Next]_vars, NEW e \in Execs, row[e] # "none"
  PROVE  row'[e] # "none"
<1>. USE DEF ScoreInv
<1>1. ASSUME NEW rows, row' = Errored(rows) PROVE row'[e] # "none"
  BY <1>1, ErroredSettles
<1>2. ASSUME NEW w \in Runners, RunExecution(w) PROVE row'[e] # "none"
  BY <1>2, ConstantsAssumption DEF RunExecution, TypeOK, Finished
<1>3. ASSUME NEW w \in Runners, RunnerMoves(w), ~RunExecution(w)
      PROVE  UNCHANGED row \/ \E rows : row' = Errored(rows)
  BY <1>3 DEF RunnerMoves, Fetch, LoadRows, PinHead, BuildConfig, FailArchived,
     EndRun, Raise, FailRemaining, PublishFinished, Finish, Crash, LoseDatabase
<1>4. CASE Queueing
  <2>1. PICK j \in Jobs : Queues(j)
    BY <1>4, EnqueueQueues DEF Queueing
  <2>2. e[1] # j
    BY <2>1, ChecksAreStable DEF Queues
  <2>. QED
    BY <2>1, <2>2 DEF Queues
<1>. QED
  BY <1>1, <1>2, <1>3, <1>4, StepKinds DEF Elsewhere, Recover, RecoverSilent, SweepExpire

\* What a runner holds of its job it loaded: a step adds nothing to it.
LEMMA LoadedStep ==
  ASSUME TypeOK, [Next]_vars, NEW w \in Runners, pc'[w] \in {"pin", "run"}, NEW s \in left'[w]
  PROVE  \/ LoadRows(w)
         \/ /\ pc[w] \in {"pin", "run"} /\ s \in left[w]
            /\ at'[w] = at[w] /\ seen'[w] = seen[w]
<1>1. ASSUME NEW v \in Runners, NEW j \in Jobs, Fetch(v, j)
      PROVE  pc[w] \in {"pin", "run"} /\ s \in left[w] /\ at'[w] = at[w] /\ seen'[w] = seen[w]
  BY <1>1 DEF Fetch, TypeOK
<1>2. ASSUME NEW v \in Runners, PinHead(v) \/ BuildConfig(v) \/ RunExecution(v) \/ FailArchived(v)
      PROVE  pc[w] \in {"pin", "run"} /\ s \in left[w] /\ at'[w] = at[w] /\ seen'[w] = seen[w]
  <2>1. CASE PinHead(v) \/ BuildConfig(v)
    BY <2>1 DEF PinHead, BuildConfig, TypeOK
  <2>2. CASE RunExecution(v)
    BY <2>2 DEF RunExecution, TypeOK
  <2>3. CASE FailArchived(v)
    BY <2>3 DEF FailArchived, TypeOK
  <2>. QED
    BY <1>2, <2>1, <2>2, <2>3
<1>3. ASSUME NEW v \in Runners, EndRun(v) \/ Raise(v) \/ FailRemaining(v) \/ PublishFinished(v)
      PROVE  pc[w] \in {"pin", "run"} /\ s \in left[w] /\ at'[w] = at[w] /\ seen'[w] = seen[w]
  BY <1>3 DEF EndRun, Raise, FailRemaining, PublishFinished, TypeOK
<1>4. ASSUME NEW v \in Runners, Finish(v) \/ Crash(v) \/ LoseDatabase(v)
      PROVE  pc[w] \in {"pin", "run"} /\ s \in left[w] /\ at'[w] = at[w] /\ seen'[w] = seen[w]
  BY <1>4 DEF Finish, Crash, LoseDatabase, Forget, TypeOK
<1>5. ASSUME NEW v \in Runners, LoadRows(v), v # w
      PROVE  pc[w] \in {"pin", "run"} /\ s \in left[w] /\ at'[w] = at[w] /\ seen'[w] = seen[w]
  BY <1>5 DEF LoadRows, TypeOK
<1>6. ASSUME UNCHANGED worker
      PROVE  pc[w] \in {"pin", "run"} /\ s \in left[w] /\ at'[w] = at[w] /\ seen'[w] = seen[w]
  BY <1>6
<1>. QED
  BY <1>1, <1>2, <1>3, <1>4, <1>5, <1>6, StepKinds
     DEF RunnerMoves, Elsewhere, Queueing, Recover, RecoverSilent, SweepExpire

LEMMA PinsStep ==
  ASSUME ScoreInv, PinsAreKept, [Next]_vars
  PROVE  PinsAreKept'
<1>. USE DEF ScoreInv
<1>1. ASSUME NEW e \in Execs, row'[e] # "none", queued'[e[1]].sha # 0
      PROVE  check'[CheckOf(e)'].sha = queued'[e[1]].sha
  <2>1. CASE row[e] # "none"
    BY <1>1, <2>1, ChecksAreStable DEF PinsAreKept
  <2>2. CASE row[e] = "none"
    <3>1. Queueing
      BY <1>1, <2>2, RowsAppear DEF PinsAreKept
    <3>. QED
      BY <1>1, <2>2, <3>1, EnqueuePins
  <2>. QED
    BY <2>1, <2>2
<1>2. ASSUME NEW w \in Runners, pc'[w] \in {"pin", "run"}, NEW s \in left'[w]
      PROVE  /\ row'[<<at'[w], s>>] # "none"
             /\ queued'[at'[w]].sha # 0 =>
                  seen'[w][BranchOf(<<at[w], s>>)'] = queued'[at'[w]].sha
  <2>1. \/ LoadRows(w)
        \/ /\ pc[w] \in {"pin", "run"} /\ s \in left[w]
           /\ at'[w] = at[w] /\ seen'[w] = seen[w]
    BY <1>2, LoadedStep
  <2>2. at'[w] \in Jobs /\ s \in Standards
    BY <1>2, NextType DEF TypeOK
  <2>. DEFINE e == <<at[w], s>>
  <2>3. CASE LoadRows(w)
    <3>1. /\ at'[w] = at[w] /\ e \in Execs /\ row[e] = "running" /\ UNCHANGED <<row, queued>>
          /\ seen'[w] = [b \in Branches |-> check[<<at[w], b>>].sha]
      BY <1>2, <2>2, <2>3 DEF LoadRows, RowsToRun, TypeOK, Execs
    <3>2. CheckOf(e) = <<at[w], BranchOf(e)>> /\ BranchOf(e) \in Branches
      BY <3>1, CheckOfType DEF CheckOf, Checks
    <3>3. BranchOf(e)' = BranchOf(e)
      BY <3>1, ChecksAreStable
    <3>. QED
      BY <3>1, <3>2, <3>3 DEF PinsAreKept
  <2>4. CASE /\ pc[w] \in {"pin", "run"} /\ s \in left[w]
             /\ at'[w] = at[w] /\ seen'[w] = seen[w]
    <3>1. e \in Execs /\ row[e] # "none"
      BY <2>2, <2>4 DEF PinsAreKept, Execs
    <3>2. BranchOf(e)' = BranchOf(e) /\ queued'[at[w]] = queued[at[w]] /\ row'[e] # "none"
      BY <2>4, <3>1, ChecksAreStable, RowsRemain
    <3>. QED
      BY <2>4, <3>2 DEF PinsAreKept
  <2>. QED
    BY <2>1, <2>3, <2>4
<1>. QED
  BY <1>1, <1>2 DEF PinsAreKept

LEMMA ReadStep ==
  ASSUME ScoreInv, PinInv, [Next]_vars
  PROVE  PinnedRunReadsItsCommit'
<1>. USE DEF ScoreInv, PinInv
<1>. SUFFICES ASSUME NEW e \in Execs, read'[e] # 0, queued'[e[1]].sha # 0
              PROVE  read'[e] = queued'[e[1]].sha
  BY DEF PinnedRunReadsItsCommit
<1>1. CASE read'[e] = read[e]
  <2>1. e[1] \in Jobs /\ e[2] \in Standards /\ e = <<e[1], e[2]>>
    BY DEF Execs
  <2>2. job[e[1]] # "none"
    BY <1>1, <2>1 DEF FreshJobs
  <2>3. queued'[e[1]] = queued[e[1]]
    BY <2>1, <2>2, StepFrame DEF OnlySettles, Queues
  <2>. QED
    BY <1>1, <2>3 DEF PinnedRunReadsItsCommit
<1>2. ASSUME NEW w \in Runners, RunExecution(w), read'[e] # read[e]
      PROVE  read'[e] = queued'[e[1]].sha
  <2>1. PICK s \in left[w] \ gone[w] :
          read' = [read EXCEPT ![<<at[w], s>>] = ReadAt(w, BranchOf(<<at[w], s>>))]
    BY <1>2 DEF RunExecution
  <2>2. e = <<at[w], s>> /\ read'[e] = ReadAt(w, BranchOf(e))
    BY <1>2, <2>1 DEF TypeOK
  <2>3. pc[w] = "run" /\ UNCHANGED queued /\ e[1] = at[w]
    BY <1>2, <2>2 DEF RunExecution
  <2>4. seen[w][BranchOf(e)] = queued[at[w]].sha
    BY <2>2, <2>3 DEF PinsAreKept
  <2>. QED
    BY <2>2, <2>3, <2>4 DEF ReadAt
<1>3. ASSUME NEW w \in Runners, RunnerMoves(w), ~RunExecution(w) PROVE UNCHANGED read
  BY <1>3 DEF RunnerMoves, Fetch, LoadRows, PinHead, BuildConfig, FailArchived,
     EndRun, Raise, FailRemaining, PublishFinished, Finish, Crash, LoseDatabase
<1>. QED
  BY <1>1, <1>2, <1>3, StepKinds
     DEF Elsewhere, Queueing, Recover, RecoverSilent, SweepExpire

\* The commit a run was queued with is the commit it reads, however the branch
\* moves, and on every attempt.
THEOREM PinnedRunReadsItsCommitHolds == Spec => []PinnedRunReadsItsCommit
<1>1. Init => PinInv
  BY DEF Init, PinInv, PinsAreKept, PinnedRunReadsItsCommit
<1>2. ScoreInv /\ PinInv /\ [Next]_vars => PinInv'
  BY PinsStep, ReadStep DEF PinInv
<1>3. PinInv => PinnedRunReadsItsCommit
  BY DEF PinInv
<1>. QED
  BY <1>1, <1>2, <1>3, ScoreInvariant, PTL DEF Spec

-----------------------------------------------------------------------------
(***************************************************************************)
(* A result stays a result.                                                *)
(***************************************************************************)

\* A step of a runner other than the run itself settles rows and starts none.
LEMMA OnlyRunsWriteResults ==
  ASSUME TypeOK, NEW w \in Runners, RunnerMoves(w), ~RunExecution(w)
  PROVE  UNCHANGED row \/ \E rows : row' = Errored(rows)
  BY DEF RunnerMoves, Fetch, LoadRows, PinHead, BuildConfig, FailArchived,
     EndRun, Raise, FailRemaining, PublishFinished, Finish, Crash, LoseDatabase

\* What a run of the sandbox writes, and where.
LEMMA RunWritesOneRow ==
  ASSUME TypeOK, NEW w \in Runners, RunExecution(w)
  PROVE  \E s \in left[w] :
           /\ pc[w] = "run" /\ at[w] \in Jobs /\ <<at[w], s>> \in Execs
           /\ row'[<<at[w], s>>] \in Finished
           /\ \A e \in Execs \ {<<at[w], s>>} : row'[e] = row[e]
           /\ left'[w] = left[w] \ {s}
<1>1. PICK s \in left[w], result \in Outcomes :
        /\ row' = [row EXCEPT ![<<at[w], s>>] = result]
        /\ left' = [left EXCEPT ![w] = @ \ {s}]
  BY DEF RunExecution
<1>2. pc[w] = "run" /\ at[w] \in Jobs /\ s \in Standards
  BY <1>1 DEF RunExecution, TypeOK
<1>. QED
  BY <1>1, <1>2, ConstantsAssumption DEF TypeOK, Execs

\* A row that is there stays there, and a finished one stays finished.
LEMMA FinishedStays ==
  ASSUME ScoreInv, [Next]_vars, NEW e \in Execs, row[e] \in Finished \cup {"running"}
  PROVE  /\ row'[e] \in Finished \cup {"running"}
         /\ row[e] \in Finished => row'[e] \in Finished
<1>. USE DEF ScoreInv, Finished
<1>1. ASSUME NEW rows, row' = Errored(rows) PROVE row'[e] \in {row[e], "error"}
  BY <1>1, ErroredSettles
<1>2. ASSUME NEW w \in Runners, RunExecution(w) PROVE row'[e] = row[e] \/ row'[e] \in Finished
  BY <1>2, RunWritesOneRow
<1>3. CASE Queueing
  <2>1. PICK j \in Jobs : Queues(j)
    BY <1>3, EnqueueQueues DEF Queueing
  <2>2. e[1] # j
    BY <2>1, ChecksAreStable DEF Queues
  <2>. QED
    BY <2>1, <2>2 DEF Queues
<1>. QED
  BY <1>1, <1>2, <1>3, OnlyRunsWriteResults, StepKinds
     DEF Elsewhere, Recover, RecoverSilent, SweepExpire

\* Who touches what the sweep selected and what was told of it.
LEMMA OnlyTheSweep ==
  ASSUME [Next]_vars
  PROVE  \/ UNCHANGED <<sweep, timedOut>>
         \/ SweepSelect \/ SweepExpire \/ SweepPublish \/ SweepCrash
<1>. DEFINE Kept == UNCHANGED <<sweep, timedOut>>
<1>1. ASSUME NEW w \in Runners, NEW j \in Jobs, Fetch(w, j) PROVE Kept
  BY <1>1 DEF Fetch
<1>2. ASSUME NEW w \in Runners, RunnerStep(w) PROVE Kept
  BY <1>2 DEF RunnerStep, LoadRows, PinHead, BuildConfig, RunExecution, FailArchived,
     EndRun, Raise, FailRemaining, ScoreJob, PublishFinished, Finish
<1>3. ASSUME NEW w \in Runners, Crash(w) \/ LoseDatabase(w) PROVE Kept
  BY <1>3 DEF Crash, LoseDatabase
<1>4. ASSUME NEW b \in Branches, Push(b) \/ EnqueueForEvent(b) PROVE Kept
  BY <1>4 DEF Push, EnqueueForEvent
<1>5. ASSUME NEW r \in Requests, StartRequest(r) \/ CommitRequest(r) PROVE Kept
  BY <1>5 DEF StartRequest, CommitRequest
<1>6. ASSUME NEW j \in Jobs, Recover(j) \/ RecoverSilent(j) PROVE Kept
  BY <1>6 DEF Recover, RecoverSilent
<1>. QED
  BY <1>1, <1>2, <1>3, <1>4, <1>5, <1>6
     DEF Next, Archive, Age, SweepStep, SweepScore, Rest, vars

\* The sweep selected rows that had been started, and those it is about to
\* report are finished.
SweptRowsEnd ==
  /\ \A e \in stale : row[e] \in Finished \cup {"running"}
  /\ sweepPc = "score" => \A e \in stale : row[e] \in Finished

LEMMA SweptRowsStep ==
  ASSUME ScoreInv, SweptRowsEnd, [Next]_vars
  PROVE  SweptRowsEnd'
<1>. USE DEF ScoreInv
<1>1. ASSUME UNCHANGED sweep PROVE SweptRowsEnd'
  BY <1>1, FinishedStays DEF SweptRowsEnd, TypeOK
<1>2. CASE SweepSelect
  BY <1>2 DEF SweepSelect, StaleRows, SweptRowsEnd, TypeOK
<1>3. CASE SweepExpire
  <2>1. CASE stale' = {} /\ sweepPc' = "idle"
    BY <2>1 DEF SweptRowsEnd
  <2>2. CASE stale' = stale
    <3>1. ASSUME NEW e \in stale PROVE row'[e] \in Finished
      <4>1. row' = Errored(stale) /\ e \in Execs
        BY <1>3 DEF SweepExpire, TypeOK
      <4>2. row[e] \in Finished \cup {"running"}
        BY DEF SweptRowsEnd
      <4>. QED
        BY <4>1, <4>2, ErroredSettles, FinishedStays DEF Finished
    <3>. QED
      BY <2>2, <3>1 DEF SweptRowsEnd
  <2>. QED
    BY <1>3, <2>1, <2>2 DEF SweepExpire
<1>4. CASE SweepPublish \/ SweepCrash
  BY <1>4 DEF SweepPublish, SweepCrash, SweptRowsEnd
<1>. QED
  BY <1>1, <1>2, <1>3, <1>4, OnlyTheSweep

LEMMA TimedOutStep ==
  ASSUME ScoreInv, SweptRowsEnd, TimedOutRunsAreOver, [Next]_vars
  PROVE  TimedOutRunsAreOver'
<1>. USE DEF ScoreInv
<1>1. ASSUME NEW e \in timedOut PROVE row'[e] \in Finished
  BY FinishedStays DEF TimedOutRunsAreOver, TypeOK
<1>2. CASE UNCHANGED timedOut
  BY <1>1, <1>2 DEF TimedOutRunsAreOver
<1>3. CASE SweepPublish
  BY <1>1, <1>3 DEF SweepPublish, SweptRowsEnd, TimedOutRunsAreOver
<1>. QED
  BY <1>2, <1>3, OnlyTheSweep DEF SweepSelect, SweepExpire, SweepCrash

\* Nobody is told that a run timed out while it may still go on or come back:
\* although the event names the rows the sweep selected and not those its update
\* changed, all of them are finished, whoever finished them, and stay so.
THEOREM TimedOutRunsAreOverHolds == Spec => []TimedOutRunsAreOver
<1>1. Init => SweptRowsEnd /\ TimedOutRunsAreOver
  BY DEF Init, SweptRowsEnd, TimedOutRunsAreOver
<1>2. ScoreInv /\ SweptRowsEnd /\ [Next]_vars => SweptRowsEnd'
  BY SweptRowsStep
<1>3. ScoreInv /\ SweptRowsEnd /\ TimedOutRunsAreOver /\ [Next]_vars => TimedOutRunsAreOver'
  BY TimedOutStep
<1>. QED
  BY <1>1, <1>2, <1>3, ScoreInvariant, PTL DEF Spec
-----------------------------------------------------------------------------
(***************************************************************************)
(* A result is final when no live worker is taken for dead and no row      *)
(* passes the stale cutoff while its job still has to run it.              *)
(***************************************************************************)

NoFalseAlarms == MaxFaults["silence"] = 0 /\ ~MayOutliveCutoff

SettleInv ==
  /\ faults["silence"] = 0
  /\ \A e \in aged \cup stale : job[e[1]] \in Ended
  /\ \A w \in Runners : pc[w] \in {"pin", "run"} =>
       \A s \in left[w] : row[<<at[w], s>>] = "running"

\* A job that is over stays over.
LEMMA EndedStays ==
  ASSUME TypeOK, [Next]_vars, NEW j \in Jobs, job[j] \in Ended
  PROVE  job'[j] = job[j]
<1>1. CASE Queueing
  BY <1>1 DEF Queueing, Enqueue, TypeOK, Ended
<1>2. ASSUME NEW w \in Runners, NEW k \in Jobs, Fetch(w, k) PROVE job'[j] = job[j]
  BY <1>2 DEF Fetch, TypeOK, Ended
<1>3. ASSUME NEW w \in Runners, Finish(w) \/ LoseDatabase(w) PROVE job'[j] = job[j]
  BY <1>3 DEF Finish, LoseDatabase, EndJob, TypeOK
<1>4. ASSUME NEW w \in Runners, RunnerMoves(w), ~(Finish(w) \/ LoseDatabase(w)),
             \A k \in Jobs : ~Fetch(w, k)
      PROVE  UNCHANGED job
  BY <1>4 DEF RunnerMoves, LoadRows, PinHead, BuildConfig, RunExecution, FailArchived,
     EndRun, Raise, FailRemaining, PublishFinished, Crash
<1>5. ASSUME NEW k \in Jobs, Recover(k) \/ RecoverSilent(k) PROVE job'[j] = job[j]
  BY <1>5 DEF Recover, RecoverSilent, TypeOK, Ended
<1>. QED
  BY <1>1, <1>2, <1>3, <1>4, <1>5, StepKinds DEF Elsewhere, SweepExpire

LEMMA NoSilence ==
  ASSUME TypeOK, [Next]_vars, MaxFaults["silence"] = 0, faults["silence"] = 0
  PROVE  faults'["silence"] = 0
<1>1. ASSUME NEW w \in Runners, RunnerMoves(w) PROVE faults'["silence"] = faults["silence"]
  BY <1>1, FaultCounts DEF RunnerMoves, Fetch, LoadRows, PinHead, BuildConfig,
     RunExecution, FailArchived, EndRun, Raise, FailRemaining, PublishFinished, Finish,
     Crash, LoseDatabase, Faults
<1>. QED
  BY <1>1, StepKinds DEF Elsewhere, Queueing, Recover, RecoverSilent, Fault, SweepExpire

LEMMA AgedStep ==
  ASSUME TypeOK, SettleInv, NoFalseAlarms, [Next]_vars, NEW e \in aged' \cup stale'
  PROVE  job'[e[1]] \in Ended
<1>1. UNCHANGED aged \/ \E d \in Execs : Age(d)
  <2>1. ASSUME NEW w \in Runners, NEW j \in Jobs, Fetch(w, j) PROVE UNCHANGED aged
    BY <2>1 DEF Fetch
  <2>2. ASSUME NEW w \in Runners, RunnerStep(w) PROVE UNCHANGED aged
    BY <2>2 DEF RunnerStep, LoadRows, PinHead, BuildConfig, RunExecution, FailArchived,
       EndRun, Raise, FailRemaining, ScoreJob, PublishFinished, Finish
  <2>3. ASSUME NEW w \in Runners, Crash(w) \/ LoseDatabase(w) PROVE UNCHANGED aged
    BY <2>3 DEF Crash, LoseDatabase
  <2>4. ASSUME NEW b \in Branches, Push(b) \/ EnqueueForEvent(b) PROVE UNCHANGED aged
    BY <2>4 DEF Push, EnqueueForEvent
  <2>5. ASSUME NEW r \in Requests, StartRequest(r) \/ CommitRequest(r) PROVE UNCHANGED aged
    BY <2>5 DEF StartRequest, CommitRequest
  <2>6. ASSUME NEW j \in Jobs, Recover(j) \/ RecoverSilent(j) PROVE UNCHANGED aged
    BY <2>6 DEF Recover, RecoverSilent
  <2>. QED
    BY <2>1, <2>2, <2>3, <2>4, <2>5, <2>6
       DEF Next, Archive, SweepStep, SweepSelect, SweepExpire, SweepScore, SweepPublish,
           SweepCrash, Rest, vars
<1>2. e \in aged \cup stale \/ (e \in Execs /\ job[e[1]] \in Ended)
  <2>1. stale' \subseteq aged \cup stale
    BY OnlyTheSweep DEF SweepSelect, StaleRows, SweepExpire, SweepPublish, SweepCrash
  <2>. QED
    BY <1>1, <2>1 DEF Age, NoFalseAlarms, TypeOK
<1>3. e \in Execs /\ job[e[1]] \in Ended
  BY <1>2 DEF SettleInv, TypeOK
<1>4. e[1] \in Jobs
  BY <1>3 DEF Execs
<1>. QED
  BY <1>3, <1>4, EndedStays

LEMMA LeftIsRunningStep ==
  ASSUME ScoreInv, LockIsHeld, SettleInv, [Next]_vars, faults'["silence"] = 0,
         NEW w \in Runners, pc'[w] \in {"pin", "run"}, NEW s \in left'[w]
  PROVE  row'[<<at'[w], s>>] = "running"
<1>. USE DEF ScoreInv
<1>1. CASE LoadRows(w)
  BY <1>1 DEF LoadRows, RowsToRun, TypeOK
<1>2. CASE /\ pc[w] \in {"pin", "run"} /\ s \in left[w] /\ at'[w] = at[w]
  <2>. DEFINE e == <<at[w], s>>
  <2>1. e \in Execs /\ e[1] = at[w] /\ row[e] = "running"
    BY <1>2 DEF TypeOK, Execs, SettleInv
  <2>2. job[at[w]] = "doing" /\ owner[at[w]] = w
    BY <1>2 DEF LockIsHeld, SettleInv
  <2>3. ASSUME NEW v \in Runners, v # w, pc[v] # "idle" PROVE at[v] # at[w]
    BY <2>2, <2>3 DEF LockIsHeld, SettleInv
  <2>4. CASE Queueing
    <3>1. PICK j \in Jobs : Queues(j)
      BY <2>4, EnqueueQueues DEF Queueing
    <3>. QED
      BY <1>2, <2>1, <2>2, <3>1 DEF Queues
  <2>5. ASSUME NEW v \in Runners, RunExecution(v) PROVE row'[e] = row[e]
    BY <1>2, <2>1, <2>3, <2>5, RunWritesOneRow
  <2>6. ASSUME NEW v \in Runners, RunnerMoves(v), ~RunExecution(v) PROVE row'[e] = row[e]
    <3>1. UNCHANGED row \/ FailArchived(v) \/ FailRemaining(v)
      BY <2>6 DEF RunnerMoves, Fetch, LoadRows, PinHead, BuildConfig, EndRun, Raise,
         PublishFinished, Finish, Crash, LoseDatabase
    <3>2. CASE FailArchived(v)
      <4>1. PICK t \in left[v] : row' = Errored({<<at[v], t>>}) /\ left' = [left EXCEPT ![v] = @ \ {t}]
        BY <3>2 DEF FailArchived
      <4>2. e \notin {<<at[v], t>>}
        BY <1>2, <2>3, <3>2, <4>1 DEF FailArchived, TypeOK
      <4>. QED
        BY <2>1, <4>1, <4>2 DEF Errored
    <3>3. CASE FailRemaining(v)
      <4>1. at[v] # at[w] /\ row' = Errored(RowsOfJob(at[v]))
        BY <1>2, <2>3, <3>3 DEF FailRemaining, TypeOK
      <4>. QED
        BY <2>1, <4>1 DEF Errored, RowsOfJob
    <3>. QED
      BY <3>1, <3>2, <3>3
  <2>7. CASE SweepExpire
    <3>1. e \notin stale
      BY <2>1, <2>2 DEF SettleInv, Ended
    <3>. QED
      BY <2>1, <2>7, <3>1 DEF SweepExpire, Errored
  <2>. QED
    BY <1>2, <2>1, <2>4, <2>5, <2>6, <2>7, StepKinds DEF Elsewhere, Recover, RecoverSilent
<1>. QED
  BY <1>1, <1>2, LoadedStep

LEMMA SettleInvariant ==
  ASSUME NoFalseAlarms
  PROVE  Spec => [](ScoreInv /\ LockIsHeld /\ SettleInv)
<1>1. Init => LockIsHeld /\ SettleInv
  BY DEF Init, LockIsHeld, SettleInv, Faults
<1>2. ScoreInv /\ LockIsHeld /\ SettleInv /\ [Next]_vars => LockIsHeld' /\ SettleInv'
  <2>. SUFFICES ASSUME ScoreInv, LockIsHeld, SettleInv, [Next]_vars
                PROVE  LockIsHeld' /\ SettleInv'
    OBVIOUS
  <2>1. faults'["silence"] = 0
    BY NoSilence DEF SettleInv, NoFalseAlarms, ScoreInv
  <2>. QED
    BY <2>1, LockStep, AgedStep, LeftIsRunningStep DEF SettleInv, ScoreInv
<1>. QED
  BY <1>1, <1>2, ScoreInvariant, PTL DEF Spec

\* A row that is there keeps its result, or gets its first.
LEMMA ResultsAreFinal ==
  ASSUME ScoreInv, SettleInv, [Next]_vars, NEW e \in Execs, row[e] # "none"
  PROVE  row'[e] = row[e] \/ (row[e] = "running" /\ row'[e] \in Finished)
<1>. USE DEF ScoreInv
<1>1. ASSUME NEW rows, row' = Errored(rows)
      PROVE  row'[e] = row[e] \/ (row[e] = "running" /\ row'[e] \in Finished)
  BY <1>1 DEF Errored, Finished
<1>2. ASSUME NEW w \in Runners, RunExecution(w)
      PROVE  row'[e] = row[e] \/ (row[e] = "running" /\ row'[e] \in Finished)
  <2>1. PICK s \in left[w] :
          /\ pc[w] = "run" /\ row'[<<at[w], s>>] \in Finished
          /\ \A d \in Execs \ {<<at[w], s>>} : row'[d] = row[d]
    BY <1>2, RunWritesOneRow
  <2>2. row[<<at[w], s>>] = "running"
    BY <2>1 DEF SettleInv
  <2>. QED
    BY <2>1, <2>2
<1>3. CASE Queueing
  <2>1. PICK j \in Jobs : Queues(j)
    BY <1>3, EnqueueQueues DEF Queueing
  <2>2. e[1] # j
    BY <2>1, ChecksAreStable DEF Queues
  <2>. QED
    BY <2>1, <2>2 DEF Queues
<1>. QED
  BY <1>1, <1>2, <1>3, OnlyRunsWriteResults, StepKinds
     DEF Elsewhere, Recover, RecoverSilent, SweepExpire

\* run_standards is idempotent and the sweep conditional: a second attempt after
\* a crash, or a sweep beside it, never changes a result that is there, as long
\* as the heartbeat is heard and the stale cutoff exceeds what a job takes.
THEOREM SettledStaysSettledHolds ==
  ASSUME NoFalseAlarms
  PROVE  Spec => SettledStaysSettled
<1>1. ScoreInv /\ LockIsHeld /\ SettleInv /\ [Next]_vars
      => [\A e \in Execs : row[e] \in Finished => row'[e] = row[e]]_vars
  BY ResultsAreFinal DEF Finished
<1>. QED
  BY <1>1, SettleInvariant, PTL DEF Spec, SettledStaysSettled
-----------------------------------------------------------------------------
(***************************************************************************)
(* The refinement of CheckLifecycle.                                       *)
(***************************************************************************)

\* What a check expects was queued with it.
ExpectedIsRun == \A c \in Checks : check[c].expected # {} => RowsOfCheck(c) # {}

\* A runner asks for the heads of checks of its job.
PinsOwnChecks ==
  \A w \in Runners : pc[w] = "pin" =>
    \A b \in toPin[w] : <<at[w], b>> \in ChecksOfJob(at[w])

\* A score, saved or about to be, is what the check decides now.
ScoresAreDecisions ==
  /\ \A a \in Actors : pending[a] # NothingPending =>
       pending[a].verdict = Decision(pending[a].check)
  /\ \A c \in Checks : saved[c] # Undecided => saved[c] = Decision(c)

\* A runner that scores its job has each check that decides something still to
\* score, about to be saved, or saved.
NoCheckIsForgotten ==
  \A w \in Runners : pc[w] = "score" =>
    \A c \in Checks : c[1] = at[w] /\ Decision(c) # Undecided =>
      c \in unscored[w] \/ pending[w].check = c \/ saved[c] = Decision(c)

LifecycleInv ==
  /\ RequestsRun /\ ExpectedIsRun /\ PinsOwnChecks
  /\ ScoresAreDecisions /\ NoCheckIsForgotten

\* The rows of a check, whoever grouped them.
LEMMA RowsOfCheckAre ==
  ASSUME NEW c, NEW e
  PROVE  e \in RowsOfCheck(c) <=> e \in Execs /\ CheckOf(e) = c /\ row[e] # "none"
  BY DEF RowsOfCheck, RowsOfJob, CheckOf

\* A check none of whose rows a step touches keeps what its runs came to.
LEMMA UntouchedCheck ==
  ASSUME NEW c \in Checks, queued'[c[1]] = queued[c[1]],
         check'[c].expected = check[c].expected,
         \A e \in Execs : CheckOf(e) = c => row'[e] = row[e]
  PROVE  /\ RowsOfCheck(c)' = RowsOfCheck(c)
         /\ Going(c)' <=> Going(c)
         /\ FinishedRuns(c)' = FinishedRuns(c)
         /\ StageOf(c)' = StageOf(c) /\ OutcomeOf(c)' = OutcomeOf(c)
<1>1. ASSUME NEW e \in Execs PROVE CheckOf(e)' = c <=> CheckOf(e) = c
  BY DEF CheckOf, BranchOf
<1>2. RowsOfCheck(c)' = RowsOfCheck(c)
  <2>1. ASSUME NEW e PROVE e \in RowsOfCheck(c)' <=> e \in RowsOfCheck(c)
    BY <1>1 DEF RowsOfCheck, RowsOfJob, CheckOf
  <2>. QED
    BY <2>1
<1>3. \A e \in RowsOfCheck(c) : row'[e] = row[e]
  BY RowsOfCheckAre
<1>4. Going(c)' <=> Going(c)
  BY <1>2, <1>3 DEF Going
<1>5. FinishedRuns(c)' = FinishedRuns(c)
  BY <1>2, <1>3 DEF FinishedRuns
<1>6. StageOf(c)' = StageOf(c)
  BY <1>2, <1>4 DEF StageOf
<1>. QED
  BY <1>2, <1>4, <1>5, <1>6 DEF OutcomeOf

LEMMA OutcomeType ==
  ASSUME NEW c
  PROVE  OutcomeOf(c) \in Verdicts \cup {Undecided}
  BY DEF OutcomeOf, Decide, Verdict, Verdicts

\* A queued job gets no further rows.
LEMMA NoLateRows ==
  ASSUME ScoreInv, SettleInv, [Next]_vars, NEW e \in Execs, job[e[1]] # "none",
         row[e] = "none"
  PROVE  row'[e] = "none"
<1>. USE DEF ScoreInv
<1>. SUFFICES ASSUME row'[e] # "none" PROVE FALSE
  OBVIOUS
<1>1. Queueing
  BY RowsAppear DEF SettleInv
<1>2. PICK j \in Jobs : Queues(j)
  BY <1>1, EnqueueQueues DEF Queueing
<1>. QED
  BY <1>2 DEF Queues

\* What a check decided it decides for ever.
LEMMA DecisionStays ==
  ASSUME ScoreInv, SettleInv, ExpectedIsRun, [Next]_vars, NEW c \in Checks,
         Decision(c) # Undecided
  PROVE  Decision(c)' = Decision(c)
<1>. USE DEF ScoreInv
<1>1. check[c].sha # 0 /\ check[c].expected # {} /\ ~Going(c)
  BY DEF Decision, Decide
<1>2. job[c[1]] # "none" /\ c[1] \in Jobs
  BY DecidedMeans DEF Checks
<1>3. queued'[c[1]] = queued[c[1]] /\ check'[c].expected = check[c].expected
  BY <1>2, StepFrame DEF OnlySettles, Queues
<1>4. PICK d \in Execs : CheckOf(d) = c /\ row[d] # "none"
  BY <1>1, RowsOfCheckAre DEF ExpectedIsRun
<1>5. check'[c].sha = check[c].sha
  BY <1>1, <1>4, ChecksAreStable
<1>6. ASSUME NEW e \in Execs, CheckOf(e) = c PROVE row'[e] = row[e]
  <2>1. e[1] = c[1] /\ row[e] # "running"
    BY <1>1, <1>6, GoingMeans DEF CheckOf
  <2>. QED
    BY <1>2, <2>1, NoLateRows, ResultsAreFinal
<1>7. (Going(c)' <=> Going(c)) /\ FinishedRuns(c)' = FinishedRuns(c)
  BY <1>3, <1>6, UntouchedCheck
<1>. QED
  BY <1>3, <1>5, <1>7 DEF Decision, Decide

\* The checks of a job queued with ref to run toRun.
NewChecks(j, ref, toRun) == {<<j, IF ref = NoRef THEN RunBranch[s] ELSE ref>> : s \in toRun}

\* What a transaction of enqueue_run puts where.
QueuedAs(j, ref, sha, toRun, expectedOn) ==
  /\ toRun # {} /\ NewChecks(j, ref, toRun) \subseteq Checks
  /\ job[j] = "none"
  /\ Queues(j)
  /\ queued'[j].ref = ref
  /\ row' = [e \in Execs |-> IF e[1] = j /\ e[2] \in toRun THEN "running" ELSE row[e]]
  /\ check' = [c \in Checks |-> IF c \in NewChecks(j, ref, toRun)
                 THEN [sha |-> sha, expected |-> expectedOn[c[2]]] ELSE check[c]]

LEMMA QueueingMakes ==
  ASSUME TypeOK, Queueing, RequestsRun
  PROVE  \E j \in Jobs, ref \in Branches \cup {NoRef}, sha \in 0..MaxHead,
            toRun \in SUBSET Standards, expectedOn \in [Branches -> SUBSET Standards] :
           QueuedAs(j, ref, sha, toRun, expectedOn)
<1>1. PICK kind \in {"manual", "event"}, ref \in Branches \cup {NoRef}, sha \in 0..MaxHead,
           toRun \in SUBSET Standards, expectedOn \in [Branches -> SUBSET Standards] :
        Enqueue(kind, ref, sha, toRun, expectedOn) /\ toRun # {}
  BY DEF Queueing
<1>2. PICK j \in Jobs :
        /\ job[j] = "none"
        /\ job' = [job EXCEPT ![j] = "todo"]
        /\ queued' = [queued EXCEPT ![j] = [kind |-> kind, ref |-> ref, sha |-> sha]]
        /\ row' = [x \in Execs |-> IF x[1] = j /\ x[2] \in toRun THEN "running" ELSE row[x]]
        /\ check' = [c \in Checks |->
             IF /\ c[1] = j
                /\ c[2] \in (IF ref = NoRef THEN {RunBranch[s] : s \in toRun} ELSE {ref})
             THEN [sha |-> sha, expected |-> expectedOn[c[2]]]
             ELSE check[c]]
  BY <1>1 DEF Enqueue
<1>. DEFINE S == NewChecks(j, ref, toRun)
<1>3. S \subseteq Checks
  BY ConstantsAssumption DEF NewChecks, Checks
<1>4. ASSUME NEW c \in Checks
      PROVE  c \in S <=> /\ c[1] = j
                         /\ c[2] \in (IF ref = NoRef THEN {RunBranch[s] : s \in toRun} ELSE {ref})
  <2>1. c = <<c[1], c[2]>>
    BY DEF Checks
  <2>. QED
    BY <1>1, <2>1 DEF NewChecks
<1>5. check' = [c \in Checks |-> IF c \in S THEN [sha |-> sha, expected |-> expectedOn[c[2]]]
                                ELSE check[c]]
  BY <1>2, <1>4
<1>6. queued'[j].ref = ref
  BY <1>2 DEF TypeOK
<1>7. Queues(j)
  <2>1. UNCHANGED <<read, worker>>
    BY DEF Queueing
  <2>2. \A e \in Execs : e[1] # j => row'[e] = row[e]
    BY <1>2
  <2>3. \A c \in Checks : c[1] # j => check'[c] = check[c]
    BY <1>2
  <2>. QED
    BY <1>2, <2>1, <2>2, <2>3 DEF Queues, TypeOK
<1>8. QueuedAs(j, ref, sha, toRun, expectedOn)
  BY <1>1, <1>2, <1>3, <1>5, <1>6, <1>7 DEF QueuedAs
<1>. QED
  BY <1>8

\* Queueing leaves the checks of other jobs alone, and gives the job's checks,
\* and no others of it, runs that are going.
LEMMA QueuedChecks ==
  ASSUME ScoreInv, NEW j \in Jobs, NEW ref \in Branches \cup {NoRef}, NEW sha,
         NEW toRun \in SUBSET Standards, NEW expectedOn,
         QueuedAs(j, ref, sha, toRun, expectedOn), NEW c \in Checks
  PROVE  /\ c \in NewChecks(j, ref, toRun) => /\ StageOf(c)' = "going" /\ RowsOfCheck(c)' # {}
                        /\ StageOf(c) = "none" /\ c[1] = j
         /\ c \notin NewChecks(j, ref, toRun) => StageOf(c)' = StageOf(c) /\ OutcomeOf(c)' = OutcomeOf(c)
                          /\ RowsOfCheck(c)' = RowsOfCheck(c)
         /\ c[1] = j => StageOf(c) = "none"
<1>. USE DEF ScoreInv, QueuedAs
<1>. DEFINE S == NewChecks(j, ref, toRun)
<1>0. ASSUME NEW e \in Execs, e[1] = j PROVE row[e] = "none"
  <2>1. e = <<j, e[2]>> /\ e[2] \in Standards
    BY <1>0 DEF Execs
  <2>. QED
    BY <2>1 DEF FreshJobs
<1>1. c[1] = j => RowsOfCheck(c) = {}
  BY <1>0, RowsOfCheckAre DEF CheckOf
<1>2. ASSUME NEW e \in Execs, e[1] = j
      PROVE  CheckOf(e)' = <<j, IF ref = NoRef THEN RunBranch[e[2]] ELSE ref>>
  BY <1>2 DEF CheckOf, BranchOf
<1>3. ASSUME c \in S
      PROVE  StageOf(c)' = "going" /\ RowsOfCheck(c)' # {} /\ c[1] = j
  <2>1. PICK s \in toRun : c = <<j, IF ref = NoRef THEN RunBranch[s] ELSE ref>>
    BY <1>3 DEF NewChecks
  <2>2. <<j, s>> \in Execs /\ row'[<<j, s>>] = "running" /\ CheckOf(<<j, s>>)' = c
    BY <1>2, <2>1 DEF Execs
  <2>3. <<j, s>> \in RowsOfCheck(c)'
    BY <2>1, <2>2 DEF RowsOfCheck, RowsOfJob
  <2>. QED
    BY <2>1, <2>2, <2>3 DEF StageOf, Going
<1>4. ASSUME c \notin S, c[1] = j
      PROVE  RowsOfCheck(c)' = {}
  <2>. SUFFICES ASSUME NEW e \in RowsOfCheck(c)' PROVE FALSE
    OBVIOUS
  <2>1. e \in Execs /\ row'[e] # "none" /\ CheckOf(e)' = c /\ e[1] = j
    BY <1>4 DEF RowsOfCheck, RowsOfJob
  <2>2. e[2] \in toRun
    BY <1>0, <2>1
  <2>. QED
    BY <1>2, <1>4, <2>1, <2>2 DEF NewChecks
<1>5. ASSUME c[1] # j
      PROVE  /\ StageOf(c)' = StageOf(c) /\ OutcomeOf(c)' = OutcomeOf(c)
             /\ RowsOfCheck(c)' = RowsOfCheck(c) /\ c \notin S
  <2>1. c \notin S
    BY <1>5 DEF NewChecks
  <2>2. c[1] \in Jobs
    BY DEF Checks
  <2>3. queued'[c[1]] = queued[c[1]] /\ check'[c].expected = check[c].expected
    BY <1>5, <2>1, <2>2 DEF Queues
  <2>4. ASSUME NEW e \in Execs, CheckOf(e) = c PROVE row'[e] = row[e]
    BY <1>5, <2>4 DEF CheckOf
  <2>. QED
    BY <2>1, <2>3, <2>4, UntouchedCheck
<1>6. c[1] = j => StageOf(c) = "none"
  BY <1>1 DEF StageOf
<1>7. ASSUME c \notin S, c[1] = j
      PROVE  /\ StageOf(c)' = StageOf(c) /\ OutcomeOf(c)' = OutcomeOf(c)
             /\ RowsOfCheck(c)' = RowsOfCheck(c)
  BY <1>1, <1>4, <1>7 DEF StageOf, OutcomeOf
<1>. QED
  BY <1>3, <1>5, <1>6, <1>7
-----------------------------------------------------------------------------
(***************************************************************************)
(* LifecycleInv is inductive.                                              *)
(***************************************************************************)

LEMMA SettlesOrQueues ==
  ASSUME ScoreInv, [Next]_vars
  PROVE  OnlySettles \/ Queueing
<1>. USE DEF ScoreInv
<1>. SUFFICES ASSUME NEW j \in Jobs, Queues(j), ~Queueing PROVE FALSE
  BY StepFrame
<1>1. ASSUME NEW w \in Runners, RunnerMoves(w) PROVE FALSE
  <2>1. ASSUME NEW k \in Jobs, Fetch(w, k) PROVE FALSE
    BY <2>1 DEF Queues, Fetch, TypeOK
  <2>2. CASE Finish(w) \/ LoseDatabase(w)
    BY <2>2 DEF Queues, Finish, LoseDatabase, Forget, TypeOK
  <2>3. CASE UNCHANGED job
    BY <2>3 DEF Queues
  <2>. QED
    BY <1>1, <2>1, <2>2, <2>3 DEF RunnerMoves, LoadRows, PinHead, BuildConfig,
       RunExecution, FailArchived, EndRun, Raise, FailRemaining, PublishFinished, Crash
<1>. QED
  BY <1>1, StepKinds DEF Elsewhere, Recover, RecoverSilent, SweepExpire, Queues, TypeOK

LEMMA RequestsStep ==
  ASSUME TypeOK, RequestsRun, [Next]_vars
  PROVE  RequestsRun'
<1>1. ASSUME NEW r \in Requests, StartRequest(r) PROVE RequestsRun'
  <2>1. PICK ref \in Branches \cup {NoRef}, sha \in 0..MaxHead,
             wanted \in SUBSET (Standards \ archived) :
          /\ ToRun(wanted) # {}
          /\ request' = [request EXCEPT ![r] = [toRun |-> ToRun(wanted), ref |-> ref, sha |-> sha]]
    BY <1>1 DEF StartRequest
  <2>. QED
    BY <2>1 DEF RequestsRun, TypeOK
<1>2. ASSUME NEW r \in Requests, CommitRequest(r) PROVE RequestsRun'
  BY <1>2 DEF CommitRequest, RequestsRun, TypeOK
<1>3. ASSUME NEW w \in Runners, NEW j \in Jobs, Fetch(w, j) PROVE UNCHANGED request
  BY <1>3 DEF Fetch
<1>4. ASSUME NEW w \in Runners, RunnerStep(w) PROVE UNCHANGED request
  BY <1>4 DEF RunnerStep, LoadRows, PinHead, BuildConfig, RunExecution, FailArchived,
     EndRun, Raise, FailRemaining, ScoreJob, PublishFinished, Finish
<1>5. ASSUME NEW w \in Runners, Crash(w) \/ LoseDatabase(w) PROVE UNCHANGED request
  BY <1>5 DEF Crash, LoseDatabase
<1>6. ASSUME NEW b \in Branches, Push(b) \/ EnqueueForEvent(b) PROVE UNCHANGED request
  BY <1>6 DEF Push, EnqueueForEvent
<1>7. ASSUME NEW j \in Jobs, Recover(j) \/ RecoverSilent(j) PROVE UNCHANGED request
  BY <1>7 DEF Recover, RecoverSilent
<1>. QED
  BY <1>1, <1>2, <1>3, <1>4, <1>5, <1>6, <1>7
     DEF Next, Archive, Age, SweepStep, SweepSelect, SweepExpire, SweepScore,
         SweepPublish, SweepCrash, Rest, vars, RequestsRun

LEMMA ExpectedStep ==
  ASSUME ScoreInv, RequestsRun, ExpectedIsRun, [Next]_vars
  PROVE  ExpectedIsRun'
<1>. USE DEF ScoreInv
<1>. SUFFICES ASSUME NEW c \in Checks, check'[c].expected # {}
              PROVE  RowsOfCheck(c)' # {}
  BY DEF ExpectedIsRun
<1>1. CASE Queueing
  <2>1. PICK j \in Jobs, ref \in Branches \cup {NoRef}, sha \in 0..MaxHead,
             toRun \in SUBSET Standards, expectedOn \in [Branches -> SUBSET Standards] :
          QueuedAs(j, ref, sha, toRun, expectedOn)
    BY <1>1, QueueingMakes
  <2>2. CASE c \in NewChecks(j, ref, toRun)
    BY <2>1, <2>2, QueuedChecks
  <2>3. CASE c \notin NewChecks(j, ref, toRun)
    <3>1. RowsOfCheck(c)' = RowsOfCheck(c)
      BY <2>1, <2>3, QueuedChecks
    <3>2. check'[c] = check[c]
      BY <2>1, <2>3 DEF QueuedAs
    <3>. QED
      BY <3>1, <3>2 DEF ExpectedIsRun
  <2>. QED
    BY <2>2, <2>3
<1>2. CASE OnlySettles
  <2>1. PICK e \in Execs : CheckOf(e) = c /\ row[e] # "none"
    BY <1>2, RowsOfCheckAre DEF OnlySettles, ExpectedIsRun
  <2>2. row'[e] # "none" /\ CheckOf(e)' = c
    BY <2>1, RowsRemain, ChecksAreStable
  <2>3. e \in RowsOfCheck(c)'
    BY <2>2 DEF RowsOfCheck, RowsOfJob, CheckOf
  <2>. QED
    BY <2>3
<1>. QED
  BY <1>1, <1>2, SettlesOrQueues

\* What a runner is about to ask the platform for, it loaded.
LEMMA ToPinStep ==
  ASSUME TypeOK, [Next]_vars, NEW w \in Runners, pc'[w] = "pin", NEW b \in toPin'[w]
  PROVE  \/ LoadRows(w)
         \/ pc[w] = "pin" /\ b \in toPin[w] /\ at'[w] = at[w]
<1>. DEFINE Same == pc[w] = "pin" /\ b \in toPin[w] /\ at'[w] = at[w]
<1>1. ASSUME NEW v \in Runners, NEW j \in Jobs, Fetch(v, j) PROVE Same
  BY <1>1 DEF Fetch, TypeOK
<1>2. ASSUME NEW v \in Runners, LoadRows(v), v # w PROVE Same
  BY <1>2 DEF LoadRows, TypeOK
<1>3. ASSUME NEW v \in Runners, PinHead(v) \/ BuildConfig(v) PROVE Same
  BY ZenonT(60), <1>3 DEF PinHead, BuildConfig, TypeOK
<1>4. ASSUME NEW v \in Runners, RunExecution(v) \/ FailArchived(v) PROVE Same
  BY <1>4 DEF RunExecution, FailArchived
<1>5. ASSUME NEW v \in Runners, EndRun(v) \/ Raise(v) \/ FailRemaining(v) \/ PublishFinished(v)
      PROVE  Same
  BY <1>5 DEF EndRun, Raise, FailRemaining, PublishFinished, TypeOK
<1>6. ASSUME NEW v \in Runners, Finish(v) \/ Crash(v) \/ LoseDatabase(v) PROVE Same
  BY <1>6 DEF Finish, Crash, LoseDatabase, Forget, TypeOK
<1>. QED
  BY <1>1, <1>2, <1>3, <1>4, <1>5, <1>6, StepKinds
     DEF RunnerMoves, Elsewhere, Queueing, Recover, RecoverSilent, SweepExpire

LEMMA PinsOwnStep ==
  ASSUME ScoreInv, PinsOwnChecks, [Next]_vars
  PROVE  PinsOwnChecks'
<1>. USE DEF ScoreInv
<1>. SUFFICES ASSUME NEW w \in Runners, pc'[w] = "pin", NEW b \in toPin'[w]
              PROVE  (<<at[w], b>> \in ChecksOfJob(at[w]))'
  BY DEF PinsOwnChecks
<1>1. at'[w] = at[w] /\ <<at[w], b>> \in ChecksOfJob(at[w])
  <2>1. CASE LoadRows(w)
    <3>1. at'[w] = at[w] /\ \E c \in ChecksOfJob(at[w]) : b = c[2]
      BY <2>1 DEF LoadRows, TypeOK
    <3>2. PICK c \in ChecksOfJob(at[w]) : b = c[2]
      BY <3>1
    <3>3. c = <<at[w], b>>
      BY <3>2 DEF ChecksOfJob, RowsOfJob, CheckOf
    <3>. QED
      BY <3>1, <3>2, <3>3
  <2>. QED
    BY <2>1, ToPinStep DEF PinsOwnChecks
<1>2. PICK e \in RowsOfJob(at[w]) : CheckOf(e) = <<at[w], b>>
  BY <1>1 DEF ChecksOfJob
<1>3. e \in Execs /\ e[1] = at[w] /\ row'[e] # "none" /\ CheckOf(e)' = <<at[w], b>>
  BY <1>2, RowsRemain, ChecksAreStable DEF RowsOfJob
<1>4. e \in RowsOfJob(at[w])'
  BY <1>1, <1>3 DEF RowsOfJob
<1>. QED
  BY <1>1, <1>3, <1>4 DEF ChecksOfJob

LEMMA ScoresStep ==
  ASSUME ScoreInv, SettleInv, ExpectedIsRun, ScoresAreDecisions, [Next]_vars
  PROVE  ScoresAreDecisions'
<1>. USE DEF ScoreInv
<1>1. ASSUME NEW a \in Actors, pending[a] # NothingPending
      PROVE  pending[a].check \in Checks /\ pending[a].verdict # Undecided
  BY <1>1 DEF TypeOK, Verdicts, Undecided
<1>2. ASSUME NEW a \in Actors, pending'[a] # NothingPending
      PROVE  (pending[a].verdict = Decision(pending[a].check))'
  <2>1. CASE pending'[a] = pending[a]
    BY <1>1, <1>2, <2>1, DecisionStays DEF ScoresAreDecisions
  <2>2. CASE \E d \in Actors : ScoreChecks(d)
    <3>1. PICK d \in Actors : ScoreChecks(d)
      BY <2>2
    <3>2. CASE ReadAndDecide(d) /\ pending'[a] # pending[a]
      <4>1. PICK c \in unscored[d] :
              pending' = IF Decision(c) = Undecided THEN pending
                         ELSE [pending EXCEPT ![d] = [check |-> c, verdict |-> Decision(c)]]
        BY <3>2 DEF ReadAndDecide
      <4>2. c \in Checks /\ Decision(c) # Undecided /\ pending'[a] = [check |-> c, verdict |-> Decision(c)]
        BY <3>2, <4>1 DEF TypeOK
      <4>. QED
        BY <4>2, DecisionStays
    <3>3. CASE SaveScore(d) /\ pending'[a] # pending[a]
      BY <1>2, <3>3 DEF SaveScore, TypeOK
    <3>. QED
      BY <2>1, <3>1, <3>2, <3>3 DEF ScoreChecks
  <2>. QED
    BY <1>2, <2>1, <2>2, StepFrame DEF KeepsScores, ScoresOnly
<1>3. ASSUME NEW c \in Checks, saved'[c] # Undecided
      PROVE  saved'[c] = Decision(c)'
  <2>1. saved'[c] = saved[c] \/ \E a \in Actors : SaveScore(a) /\ pending[a].check = c
    BY StepFrame DEF KeepsScores, ScoresOnly, ScoreChecks, ReadAndDecide, SaveScore, TypeOK
  <2>2. CASE saved'[c] = saved[c]
    BY <1>3, <2>2, DecisionStays DEF ScoresAreDecisions
  <2>3. ASSUME NEW a \in Actors, SaveScore(a), pending[a].check = c PROVE saved'[c] = Decision(c)'
    <3>1. pending[a] # NothingPending /\ saved'[c] = pending[a].verdict
      BY <2>3 DEF SaveScore, TypeOK
    <3>. QED
      BY <1>1, <2>3, <3>1, DecisionStays DEF ScoresAreDecisions
  <2>. QED
    BY <2>1, <2>2, <2>3
<1>. QED
  BY <1>2, <1>3 DEF ScoresAreDecisions

\* A runner that scores a job began with all its checks, and goes on one by one.
LEMMA ScoringStep ==
  ASSUME TypeOK, [Next]_vars, NEW w \in Runners, pc'[w] = "score"
  PROVE  \/ EndRun(w) \/ FailRemaining(w)
         \/ /\ pc[w] = "score" /\ at'[w] = at[w]
            /\ \/ unscored'[w] = unscored[w] /\ pending'[w] = pending[w]
               \/ ScoreChecks(w)
<1>. DEFINE Same == /\ pc[w] = "score" /\ at'[w] = at[w]
                    /\ unscored'[w] = unscored[w] /\ pending'[w] = pending[w]
<1>0. w \in Actors /\ w # Sweeper
  BY ConstantsAssumption DEF Actors
<1>1. ASSUME NEW v \in Runners, NEW j \in Jobs, Fetch(v, j) PROVE Same
  BY <1>1 DEF Fetch, TypeOK
<1>2. ASSUME NEW v \in Runners, LoadRows(v) \/ PinHead(v) \/ BuildConfig(v) PROVE Same
  BY <1>2 DEF LoadRows, PinHead, BuildConfig, TypeOK
<1>3. ASSUME NEW v \in Runners, RunExecution(v) \/ FailArchived(v) PROVE Same
  BY <1>3 DEF RunExecution, FailArchived
<1>4. ASSUME NEW v \in Runners, EndRun(v) \/ FailRemaining(v), v # w PROVE Same
  BY <1>0, <1>4 DEF EndRun, FailRemaining, TypeOK
<1>5. ASSUME NEW v \in Runners, Raise(v) \/ PublishFinished(v) PROVE Same
  BY <1>5 DEF Raise, PublishFinished, TypeOK
<1>6. ASSUME NEW v \in Runners, Finish(v) \/ Crash(v) \/ LoseDatabase(v) PROVE Same
  BY <1>0, <1>6 DEF Finish, Crash, LoseDatabase, Forget, TypeOK
<1>7. ASSUME NEW v \in Runners, ScoreJob(v), v # w PROVE Same
  BY <1>0, <1>7 DEF ScoreJob, ScoreChecks, ReadAndDecide, SaveScore, TypeOK, Actors
<1>8. CASE ScoreJob(w)
  BY <1>8 DEF ScoreJob
<1>9. CASE SweepSelect \/ SweepExpire \/ SweepScore \/ SweepPublish \/ SweepCrash
  BY <1>0, <1>9 DEF SweepSelect, SweepExpire, SweepScore, SweepPublish, SweepCrash,
     ScoreChecks, ReadAndDecide, SaveScore, TypeOK, Actors
<1>10. ASSUME NEW b \in Branches, Push(b) \/ EnqueueForEvent(b) PROVE Same
  BY <1>10 DEF Push, EnqueueForEvent
<1>11. ASSUME NEW r \in Requests, StartRequest(r) \/ CommitRequest(r) PROVE Same
  BY <1>11 DEF StartRequest, CommitRequest
<1>12. ASSUME NEW j \in Jobs, Recover(j) \/ RecoverSilent(j) PROVE Same
  BY <1>12 DEF Recover, RecoverSilent
<1>. QED
  BY <1>1, <1>2, <1>3, <1>4, <1>5, <1>6, <1>7, <1>8, <1>9, <1>10, <1>11, <1>12
     DEF Next, RunnerStep, Archive, Age, SweepStep, Rest, vars

\* Nobody pins a check of a job somebody else scores.
LEMMA CommitsAreSettled ==
  ASSUME ScoreInv, LockIsHeld, SettleInv, PinsOwnChecks, [Next]_vars,
         NEW w \in Runners, pc[w] = "score", NEW c \in Checks, c[1] = at[w]
  PROVE  check'[c] = check[c]
<1>. USE DEF ScoreInv
<1>1. at[w] \in Jobs /\ job[at[w]] # "none"
  BY DEF TypeOK, FreshJobs
<1>2. CASE Queueing
  <2>1. PICK j \in Jobs : Queues(j)
    BY <1>2, EnqueueQueues DEF Queueing
  <2>. QED
    BY <1>1, <2>1 DEF Queues
<1>3. ASSUME NEW v \in Runners, PinHead(v) PROVE check'[c] = check[c]
  <2>1. PICK b \in toPin[v] :
          check' = check \/ check' = [check EXCEPT ![<<at[v], b>>].sha = head[b]]
    BY <1>3 DEF PinHead
  <2>2. at[v] # at[w]
    BY <1>3 DEF PinHead, LockIsHeld, SettleInv
  <2>3. <<at[v], b>> # c
    BY <2>2
  <2>. QED
    BY <2>1, <2>3 DEF TypeOK
<1>4. ASSUME NEW v \in Runners, RunnerMoves(v), ~PinHead(v) PROVE UNCHANGED check
  BY <1>4 DEF RunnerMoves, Fetch, LoadRows, BuildConfig, RunExecution, FailArchived,
     EndRun, Raise, FailRemaining, PublishFinished, Finish, Crash, LoseDatabase
<1>. QED
  BY <1>2, <1>3, <1>4, StepKinds DEF Elsewhere, Recover, RecoverSilent, SweepExpire

\* What the checks of a job decide is settled when its runner scores them.
LEMMA ScoredJobsAreOver ==
  ASSUME ScoreInv, LockIsHeld, SettleInv, LeftCoversRunning, PinsOwnChecks, [Next]_vars,
         NEW w \in Runners, pc[w] = "score", NEW c \in Checks, c[1] = at[w]
  PROVE  Decision(c)' = Decision(c)
<1>. USE DEF ScoreInv
<1>1. check'[c] = check[c]
  BY CommitsAreSettled
<1>2. at[w] \in Jobs /\ job[at[w]] # "none"
  BY DEF TypeOK, FreshJobs
<1>3. queued'[c[1]] = queued[c[1]]
  BY <1>2, StepFrame DEF OnlySettles, Queues
<1>4. ASSUME NEW e \in Execs, CheckOf(e) = c PROVE row'[e] = row[e]
  <2>1. e[1] = at[w] /\ e = <<at[w], e[2]>> /\ e[2] \in Standards
    BY <1>4 DEF CheckOf, Execs
  <2>2. row[e] # "running"
    BY <2>1 DEF LeftCoversRunning
  <2>. QED
    BY <1>2, <2>1, <2>2, NoLateRows, ResultsAreFinal
<1>. QED
  BY <1>1, <1>3, <1>4, UntouchedCheck DEF Decision, Decide

LEMMA ForgottenStep ==
  ASSUME ScoreInv, LockIsHeld, SettleInv, LeftCoversRunning, LifecycleInv, [Next]_vars
  PROVE  NoCheckIsForgotten'
<1>. USE DEF ScoreInv, LifecycleInv
<1>. SUFFICES ASSUME NEW w \in Runners, pc'[w] = "score",
                     NEW c \in Checks, c[1] = at'[w], Decision(c)' # Undecided
              PROVE  \/ c \in unscored'[w] \/ pending'[w].check = c
                     \/ saved'[c] = Decision(c)'
  BY DEF NoCheckIsForgotten
<1>0. w \in Actors /\ w # Sweeper
  BY ConstantsAssumption DEF Actors
<1>1. CASE EndRun(w) \/ FailRemaining(w)
  <2>1. unscored'[w] = ChecksOfJob(at[w]) /\ at'[w] = at[w] /\ UNCHANGED <<check, queued>>
    BY <1>0, <1>1 DEF EndRun, FailRemaining, TypeOK
  <2>2. check[c].expected # {}
    BY <2>1 DEF Decision, Decide
  <2>3. PICK e \in Execs : CheckOf(e) = c /\ row[e] # "none"
    BY <2>2, RowsOfCheckAre DEF ExpectedIsRun
  <2>4. e \in RowsOfJob(at[w])
    BY <2>1, <2>3 DEF RowsOfJob, CheckOf
  <2>. QED
    BY <2>1, <2>3, <2>4 DEF ChecksOfJob
<1>2. CASE pc[w] = "score" /\ at'[w] = at[w]
  <2>1. Decision(c)' = Decision(c)
    BY <1>2, ScoredJobsAreOver
  <2>2. saved'[c] = saved[c] \/ saved'[c] = Decision(c)
    <3>1. saved'[c] = saved[c] \/ \E a \in Actors : SaveScore(a) /\ pending[a].check = c
      BY StepFrame DEF KeepsScores, ScoresOnly, ScoreChecks, ReadAndDecide, SaveScore, TypeOK
    <3>2. ASSUME NEW a \in Actors, SaveScore(a), pending[a].check = c PROVE saved'[c] = Decision(c)
      BY <3>2 DEF SaveScore, TypeOK, ScoresAreDecisions
    <3>. QED
      BY <3>1, <3>2
  <2>3. c \in unscored[w] \/ pending[w].check = c \/ saved[c] = Decision(c)
    BY <1>2, <2>1 DEF NoCheckIsForgotten
  <2>4. CASE unscored'[w] = unscored[w] /\ pending'[w] = pending[w]
    BY <2>1, <2>2, <2>3, <2>4
  <2>5. CASE ReadAndDecide(w)
    <3>1. PICK d \in unscored[w] :
            /\ pending[w] = NothingPending
            /\ unscored' = [unscored EXCEPT ![w] = @ \ {d}]
            /\ pending' = IF Decision(d) = Undecided THEN pending
                          ELSE [pending EXCEPT ![w] = [check |-> d, verdict |-> Decision(d)]]
      BY <2>5 DEF ReadAndDecide
    <3>2. pending[w].check # c
      BY <3>1 DEF NothingPending, Checks, Jobs
    <3>3. CASE c = d
      BY <1>0, <2>1, <3>1, <3>3 DEF TypeOK
    <3>4. CASE c # d
      BY <1>0, <2>1, <2>2, <2>3, <3>1, <3>2, <3>4 DEF TypeOK
    <3>. QED
      BY <3>3, <3>4
  <2>6. CASE SaveScore(w)
    <3>1. UNCHANGED unscored /\ pending[w].check = c => saved'[c] = Decision(c)
      BY <1>0, <2>6 DEF SaveScore, TypeOK, ScoresAreDecisions
    <3>. QED
      BY <2>1, <2>2, <2>3, <2>6, <3>1 DEF SaveScore
  <2>. QED
    BY <1>1, <1>2, <2>4, <2>5, <2>6, ScoringStep DEF ScoreChecks
<1>. QED
  BY <1>1, <1>2, ScoringStep

LEMMA LifecycleInvariant ==
  ASSUME NoFalseAlarms
  PROVE  Spec => [](/\ ScoreInv /\ LockIsHeld /\ SettleInv
                    /\ LeftCoversRunning /\ LifecycleInv)
<1>1. Init => LeftCoversRunning /\ LifecycleInv
  <2>. SUFFICES ASSUME Init PROVE LeftCoversRunning /\ LifecycleInv
    OBVIOUS
  <2>1. LeftCoversRunning /\ RequestsRun /\ ExpectedIsRun /\ PinsOwnChecks /\ NoCheckIsForgotten
    BY DEF Init, LeftCoversRunning, RequestsRun, ExpectedIsRun, PinsOwnChecks, NoCheckIsForgotten
  <2>2. ScoresAreDecisions
    BY DEF Init, ScoresAreDecisions
  <2>. QED
    BY <2>1, <2>2 DEF LifecycleInv
<1>2. ASSUME ScoreInv, LockIsHeld, SettleInv, LeftCoversRunning, LifecycleInv, [Next]_vars
      PROVE  LeftCoversRunning' /\ LifecycleInv'
  BY <1>2, LeftStep, RequestsStep, ExpectedStep, PinsOwnStep, ScoresStep, ForgottenStep
     DEF ScoreInv, LifecycleInv
<1>. QED
  BY <1>1, <1>2, SettleInvariant, PTL DEF Spec
-----------------------------------------------------------------------------
(***************************************************************************)
(* Every step of a run is a step of CheckLifecycle, or invisible there.    *)
(***************************************************************************)

RowsSettle ==
  \A e \in Execs : row'[e] = row[e] \/ (row[e] = "running" /\ row'[e] \in Finished)

LEMMA OnlyQueueingStartsRuns ==
  ASSUME ScoreInv, SettleInv, [Next]_vars, ~Queueing
  PROVE  RowsSettle
<1>. USE DEF ScoreInv
<1>. SUFFICES ASSUME NEW e \in Execs, row[e] = "none" PROVE row'[e] = "none"
  BY ResultsAreFinal DEF RowsSettle
<1>. QED
  BY SettlesOrQueues, NoLateRows DEF OnlySettles

\* Results come in: the checks whose last run they end are over.
LEMMA ResultsEndChecks ==
  ASSUME TypeOK, RowsSettle, UNCHANGED <<queued, check, saved, reports>>
  PROVE  [Lifecycle!Next]_(Lifecycle!vars)
<1>. DEFINE S == {c \in Checks : Going(c) /\ ~Going(c)'}
<1>1. ASSUME NEW c \in Checks
      PROVE  /\ RowsOfCheck(c)' = RowsOfCheck(c)
             /\ Going(c)' => Going(c)
  <2>1. ASSUME NEW e \in Execs PROVE CheckOf(e)' = CheckOf(e) /\ (row'[e] = "none" <=> row[e] = "none")
    BY DEF CheckOf, BranchOf, RowsSettle, Finished
  <2>2. RowsOfCheck(c)' = RowsOfCheck(c)
    BY <2>1 DEF RowsOfCheck, RowsOfJob
  <2>3. ASSUME NEW e \in RowsOfCheck(c), row'[e] = "running" PROVE row[e] = "running"
    BY <2>3, RowsOfCheckAre DEF RowsSettle, Finished
  <2>. QED
    BY <2>2, <2>3 DEF Going
<1>2. ASSUME NEW c \in S PROVE StageOf(c) = "going" /\ StageOf(c)' = "over"
  BY <1>1 DEF StageOf, Going
<1>3. ASSUME NEW c \in Checks, c \notin S
      PROVE  StageOf(c)' = StageOf(c) /\ OutcomeOf(c)' = OutcomeOf(c)
  <2>1. StageOf(c)' = StageOf(c)
    BY <1>1, <1>3 DEF StageOf
  <2>2. CASE StageOf(c) # "over"
    BY <2>1, <2>2 DEF OutcomeOf
  <2>3. CASE StageOf(c) = "over"
    <3>1. ASSUME NEW e \in Execs, CheckOf(e) = c PROVE row'[e] = row[e]
      <4>1. row[e] # "running"
        BY <2>3, <3>1, GoingMeans DEF StageOf
      <4>. QED
        BY <4>1 DEF RowsSettle
    <3>. QED
      BY <3>1, UntouchedCheck
  <2>. QED
    BY <2>1, <2>2, <2>3
<1>4. \A c \in Checks : OutcomeOf(c)' \in Verdicts \cup {Undecided}
  BY DEF OutcomeOf, Decide, Verdict, Verdicts
<1>5. UNCHANGED <<commitSeen, saved, toldSeen>>
  BY DEF commitSeen, toldSeen
<1>6. stageSeen' = [c \in Checks |-> IF c \in S THEN "over" ELSE stageSeen[c]]
  BY <1>2, <1>3 DEF stageSeen
<1>7. \A c \in Checks : IF c \in S THEN stageSeen[c] = "going" ELSE outcomeSeen'[c] = outcomeSeen[c]
  BY <1>2, <1>3 DEF stageSeen, outcomeSeen
<1>8. outcomeSeen' \in [Checks -> Verdicts \cup {Undecided}]
  BY <1>4 DEF outcomeSeen
<1>9. CASE S # {}
  <2>1. Lifecycle!End(S) /\ S \in (SUBSET Checks) \ {{}}
    BY <1>5, <1>6, <1>7, <1>8, <1>9 DEF Lifecycle!End
  <2>. QED
    BY <2>1 DEF Lifecycle!Next
<1>10. CASE S = {}
  <2>1. stageSeen' = stageSeen /\ outcomeSeen' = outcomeSeen
    BY <1>3, <1>10 DEF stageSeen, outcomeSeen
  <2>. QED
    BY <1>5, <2>1 DEF Lifecycle!vars
<1>. QED
  BY <1>9, <1>10

LEMMA QueueingQueues ==
  ASSUME ScoreInv, RequestsRun, Queueing
  PROVE  [Lifecycle!Next]_(Lifecycle!vars)
<1>. USE DEF ScoreInv
<1>1. PICK j \in Jobs, ref \in Branches \cup {NoRef}, sha \in 0..MaxHead,
           toRun \in SUBSET Standards, expectedOn \in [Branches -> SUBSET Standards] :
        QueuedAs(j, ref, sha, toRun, expectedOn)
  BY QueueingMakes
<1>. DEFINE S == NewChecks(j, ref, toRun)
            JobOf == [c \in Checks |-> c[1]]
<1>2. S \in (SUBSET {c \in Checks : JobOf[c] = j}) \ {{}}
  <2>1. S \subseteq Checks /\ toRun # {}
    BY <1>1 DEF QueuedAs
  <2>2. \A c \in S : c[1] = j
    BY DEF NewChecks
  <2>3. S # {}
    BY <2>1 DEF NewChecks
  <2>. QED
    BY <2>1, <2>2, <2>3
<1>3. \A c \in Checks : JobOf[c] = j => stageSeen[c] = "none"
  BY <1>1, QueuedChecks DEF stageSeen
<1>4. stageSeen' = [c \in Checks |-> IF c \in S THEN "going" ELSE stageSeen[c]]
  BY <1>1, QueuedChecks DEF stageSeen
<1>5. commitSeen' = [c \in Checks |-> IF c \in S THEN sha ELSE commitSeen[c]]
  BY <1>1 DEF commitSeen, QueuedAs
<1>6. sha \in (1..MaxHead) \cup {0}
  BY ConstantsAssumption
<1>7. outcomeSeen' = outcomeSeen
  <2>1. ASSUME NEW c \in Checks PROVE OutcomeOf(c)' = OutcomeOf(c)
    BY <1>1, QueuedChecks DEF OutcomeOf
  <2>. QED
    BY <2>1 DEF outcomeSeen
<1>8. UNCHANGED <<saved, toldSeen>>
  BY DEF Queueing, toldSeen
<1>9. Lifecycle!Queue(j)
  BY <1>2, <1>3, <1>4, <1>5, <1>6, <1>7, <1>8 DEF Lifecycle!Queue
<1>. QED
  BY <1>9 DEF Lifecycle!Next

\* A step that touches no row leaves every stage and outcome alone.
LEMMA SameRows ==
  ASSUME UNCHANGED <<queued, row>>, \A c \in Checks : check'[c].expected = check[c].expected
  PROVE  UNCHANGED <<stageSeen, outcomeSeen>>
<1>1. \A c \in Checks : c[1] \in Jobs
  BY DEF Checks
<1>2. ASSUME NEW c \in Checks PROVE StageOf(c)' = StageOf(c) /\ OutcomeOf(c)' = OutcomeOf(c)
  BY UntouchedCheck
<1>. QED
  BY <1>2 DEF stageSeen, outcomeSeen

LEMMA PinningPins ==
  ASSUME ScoreInv, PinsOwnChecks, NEW w \in Runners, PinHead(w)
  PROVE  [Lifecycle!Next]_(Lifecycle!vars)
<1>. USE DEF ScoreInv
<1>1. PICK b \in toPin[w] :
        \/ /\ check[<<at[w], b>>].sha = 0
           /\ check' = [check EXCEPT ![<<at[w], b>>].sha = head[b]]
        \/ UNCHANGED check
  BY DEF PinHead
<1>. DEFINE c == <<at[w], b>>
<1>2. c \in Checks /\ c \in ChecksOfJob(at[w])
  BY ChecksOfJobType DEF PinHead, PinsOwnChecks, TypeOK
<1>3. UNCHANGED <<stageSeen, outcomeSeen, saved, toldSeen>>
  <2>1. UNCHANGED <<queued, row, saved, reports>>
    BY DEF PinHead
  <2>2. UNCHANGED toldSeen
    BY <2>1 DEF toldSeen
  <2>. QED
    BY <2>1, <2>2, PinHeadSetsOneCommit, SameRows
<1>4. CASE UNCHANGED check
  BY <1>3, <1>4 DEF Lifecycle!vars, commitSeen
<1>5. CASE check[c].sha = 0 /\ check' = [check EXCEPT ![c].sha = head[b]]
  <2>1. head[b] \in 1..MaxHead
    BY <1>2 DEF TypeOK, Checks
  <2>2. commitSeen[c] = 0
    BY <1>2, <1>5 DEF commitSeen
  <2>3. commitSeen' = [commitSeen EXCEPT ![c] = head[b]]
    <3>1. ASSUME NEW d \in Checks PROVE check'[d].sha = IF d = c THEN head[b] ELSE check[d].sha
      BY <1>2, <1>5 DEF TypeOK
    <3>2. commitSeen' = [d \in Checks |-> IF d = c THEN head[b] ELSE check[d].sha]
      BY <3>1 DEF commitSeen
    <3>. QED
      BY <3>2 DEF commitSeen
  <2>4. stageSeen[c] # "none"
    <3>1. PICK e \in RowsOfJob(at[w]) : CheckOf(e) = c
      BY <1>2 DEF ChecksOfJob
    <3>2. e \in RowsOfCheck(c)
      BY <3>1, RowsOfCheckAre DEF RowsOfJob
    <3>. QED
      BY <1>2, <3>2 DEF stageSeen, StageOf
  <2>5. Lifecycle!Pin(c)
    BY <1>3, <2>1, <2>2, <2>3, <2>4 DEF Lifecycle!Pin
  <2>. QED
    BY <1>2, <2>5 DEF Lifecycle!Next
<1>. QED
  BY <1>1, <1>4, <1>5

\* What a check decides is what its runs came to, at a commit that is known.
LEMMA DecisionIsOutcome ==
  ASSUME ExpectedIsRun, NEW c \in Checks
  PROVE  IF stageSeen[c] = "over" /\ commitSeen[c] # 0
         THEN Decision(c) = outcomeSeen[c]
         ELSE Decision(c) = Undecided
<1>1. Decision(c) # Undecided =>
        check[c].sha # 0 /\ ~Going(c) /\ check[c].expected # {}
  BY DEF Decision, Decide
<1>2. Decision(c) # Undecided => stageSeen[c] = "over" /\ commitSeen[c] # 0
  BY <1>1 DEF ExpectedIsRun, stageSeen, commitSeen, StageOf
<1>3. ASSUME stageSeen[c] = "over", commitSeen[c] # 0 PROVE Decision(c) = outcomeSeen[c]
  <2>1. StageOf(c) = "over" /\ check[c].sha # 0
    BY <1>3 DEF stageSeen, commitSeen
  <2>2. ~Going(c)
    BY <2>1 DEF StageOf
  <2>. QED
    BY <2>1, <2>2 DEF outcomeSeen, OutcomeOf, Decision, Decide
<1>. QED
  BY <1>2, <1>3

LEMMA SavingScores ==
  ASSUME ScoreInv, ExpectedIsRun, ScoresAreDecisions, NEW a \in Actors, SaveScore(a),
         UNCHANGED <<queued, row, check, reports>>
  PROVE  [Lifecycle!Next]_(Lifecycle!vars)
<1>. USE DEF ScoreInv
<1>. DEFINE c == pending[a].check
<1>1. /\ c \in Checks /\ pending[a].verdict = Decision(c) /\ Decision(c) # Undecided
      /\ saved' = [saved EXCEPT ![c] = Decision(c)]
  <2>1. c \in Checks /\ pending[a].verdict \in Verdicts /\ pending[a].verdict = Decision(c)
    BY DEF SaveScore, TypeOK, ScoresAreDecisions
  <2>. QED
    BY <2>1 DEF SaveScore, Verdicts, Undecided
<1>2. UNCHANGED <<stageSeen, commitSeen, outcomeSeen, toldSeen>>
  BY SameRows DEF commitSeen, toldSeen
<1>3. stageSeen[c] = "over" /\ commitSeen[c] # 0 /\ outcomeSeen[c] = Decision(c)
  BY <1>1, DecisionIsOutcome
<1>4. CASE saved[c] = Undecided
  <2>1. saved' = [saved EXCEPT ![c] = outcomeSeen[c]]
    BY <1>1, <1>3
  <2>2. Lifecycle!Score(c)
    BY <1>1, <1>2, <1>3, <1>4, <2>1 DEF Lifecycle!Score, Lifecycle!Scorable
  <2>. QED
    BY <1>1, <2>2 DEF Lifecycle!Next
<1>5. CASE saved[c] # Undecided
  <2>1. saved' = saved
    BY <1>1, <1>5 DEF ScoresAreDecisions, TypeOK
  <2>. QED
    BY <1>2, <2>1 DEF Lifecycle!vars
<1>. QED
  BY <1>4, <1>5

LEMMA PublishingTells ==
  ASSUME ScoreInv, LeftCoversRunning, LifecycleInv, NEW w \in Runners, PublishFinished(w)
  PROVE  [Lifecycle!Next]_(Lifecycle!vars)
<1>. USE DEF ScoreInv, LifecycleInv
<1>. DEFINE JobOf == [c \in Checks |-> c[1]]
<1>0. at[w] \in Jobs /\ pc[w] = "score" /\ unscored[w] = {} /\ pending[w] = NothingPending
  BY DEF PublishFinished, Scored, TypeOK
<1>1. UNCHANGED <<stageSeen, commitSeen, outcomeSeen, saved>>
  BY SameRows DEF PublishFinished, commitSeen
<1>2. toldSeen' = toldSeen \cup {at[w]}
  BY <1>0 DEF PublishFinished, toldSeen, TypeOK
<1>3. CASE at[w] \in toldSeen
  BY <1>1, <1>2, <1>3 DEF Lifecycle!vars
<1>4. CASE at[w] \notin toldSeen
  <2>1. ASSUME NEW c \in Checks, JobOf[c] = at[w] PROVE stageSeen[c] # "going"
    <3>1. ASSUME NEW e \in Execs, CheckOf(e) = c PROVE row[e] # "running"
      <4>1. e = <<at[w], e[2]>> /\ e[2] \in Standards
        BY <2>1, <3>1 DEF CheckOf, Execs
      <4>. QED
        BY <1>0, <4>1 DEF LeftCoversRunning
    <3>. QED
      BY <3>1, GoingMeans DEF stageSeen, StageOf
  <2>2. ASSUME NEW c \in Checks, JobOf[c] = at[w], Lifecycle!Scorable(c)
        PROVE  saved[c] = outcomeSeen[c]
    <3>1. Decision(c) = outcomeSeen[c] /\ outcomeSeen[c] # Undecided
      BY <2>2, DecisionIsOutcome DEF Lifecycle!Scorable
    <3>2. pending[w].check # c
      BY <1>0 DEF NothingPending, Checks, Jobs
    <3>. QED
      BY <1>0, <2>2, <3>1, <3>2 DEF NoCheckIsForgotten
  <2>3. Lifecycle!Tell(at[w])
    BY <1>1, <1>2, <1>4, <2>1, <2>2 DEF Lifecycle!Tell
  <2>. QED
    BY <1>0, <2>3 DEF Lifecycle!Next
<1>. QED
  BY <1>3, <1>4

\* Who reports that a job is over.
LEMMA OnlyPublishingReports ==
  ASSUME [Next]_vars
  PROVE  UNCHANGED reports \/ \E w \in Runners : PublishFinished(w)
<1>1. ASSUME NEW w \in Runners, NEW j \in Jobs, Fetch(w, j) PROVE UNCHANGED reports
  BY <1>1 DEF Fetch
<1>2. ASSUME NEW w \in Runners, RunnerStep(w), ~PublishFinished(w) PROVE UNCHANGED reports
  BY <1>2 DEF RunnerStep, LoadRows, PinHead, BuildConfig, RunExecution, FailArchived,
     EndRun, Raise, FailRemaining, ScoreJob, Finish
<1>3. ASSUME NEW w \in Runners, Crash(w) \/ LoseDatabase(w) PROVE UNCHANGED reports
  BY <1>3 DEF Crash, LoseDatabase
<1>4. ASSUME NEW b \in Branches, Push(b) \/ EnqueueForEvent(b) PROVE UNCHANGED reports
  BY <1>4 DEF Push, EnqueueForEvent
<1>5. ASSUME NEW r \in Requests, StartRequest(r) \/ CommitRequest(r) PROVE UNCHANGED reports
  BY <1>5 DEF StartRequest, CommitRequest
<1>6. ASSUME NEW j \in Jobs, Recover(j) \/ RecoverSilent(j) PROVE UNCHANGED reports
  BY <1>6 DEF Recover, RecoverSilent
<1>. QED
  BY <1>1, <1>2, <1>3, <1>4, <1>5, <1>6
     DEF Next, Archive, Age, SweepStep, SweepSelect, SweepExpire, SweepScore,
         SweepPublish, SweepCrash, Rest, vars

LEMMA LifecycleInit == Init => Lifecycle!Init
<1>. SUFFICES ASSUME Init PROVE Lifecycle!Init
  OBVIOUS
<1>1. \A c \in Checks : RowsOfCheck(c) = {}
  BY DEF Init, RowsOfCheck, RowsOfJob
<1>2. \A c \in Checks : StageOf(c) = "none" /\ OutcomeOf(c) = Undecided
  BY <1>1 DEF StageOf, OutcomeOf
<1>. QED
  BY <1>2 DEF Lifecycle!Init, Init, stageSeen, commitSeen, outcomeSeen, toldSeen

LEMMA LifecycleStep ==
  ASSUME ScoreInv, SettleInv, LeftCoversRunning, LifecycleInv, [Next]_vars
  PROVE  [Lifecycle!Next]_(Lifecycle!vars)
<1>. USE DEF ScoreInv, LifecycleInv
<1>1. ASSUME UNCHANGED <<queued, row, check, saved, reports>>
      PROVE  [Lifecycle!Next]_(Lifecycle!vars)
  BY <1>1, SameRows DEF Lifecycle!vars, commitSeen, toldSeen
<1>2. CASE Queueing
  BY <1>2, QueueingQueues
<1>3. ASSUME NEW a \in Actors, ScoresOnly(a), UNCHANGED reports
      PROVE  [Lifecycle!Next]_(Lifecycle!vars)
  <2>1. CASE SaveScore(a)
    BY <1>3, <2>1, SavingScores DEF ScoresOnly
  <2>2. CASE ReadAndDecide(a)
    BY <1>1, <1>3, <2>2 DEF ScoresOnly, ReadAndDecide
  <2>. QED
    BY <1>3, <2>1, <2>2 DEF ScoresOnly, ScoreChecks
<1>4. ASSUME NEW w \in Runners, PinHead(w) \/ PublishFinished(w)
      PROVE  [Lifecycle!Next]_(Lifecycle!vars)
  BY <1>4, PinningPins, PublishingTells
<1>5. ASSUME KeepsScores, UNCHANGED <<queued, check, reports>>, ~Queueing
      PROVE  [Lifecycle!Next]_(Lifecycle!vars)
  BY <1>5, OnlyQueueingStartsRuns, ResultsEndChecks DEF KeepsScores
<1>6. ASSUME ~Queueing, \A w \in Runners : ~PinHead(w) /\ ~PublishFinished(w)
      PROVE  UNCHANGED <<queued, check, reports>>
  <2>1. ASSUME NEW w \in Runners, RunnerMoves(w) PROVE UNCHANGED <<queued, check>>
    BY <1>6, <2>1 DEF RunnerMoves, Fetch, LoadRows, BuildConfig, RunExecution, FailArchived,
       EndRun, Raise, FailRemaining, Finish, Crash, LoseDatabase, EndJob
  <2>2. UNCHANGED <<queued, check>>
    BY <1>6, <2>1, StepKinds DEF Elsewhere, Recover, RecoverSilent, SweepExpire
  <2>. QED
    BY <1>6, <2>2, OnlyPublishingReports
<1>. QED
  BY <1>2, <1>3, <1>4, <1>5, <1>6, StepFrame

\* The runs of a job, across crashes, second attempts and sweeps, implement
\* CheckLifecycle: the results of a check, its commit and its score are settled
\* once, in that order, and what is reported is settled.
THEOREM ChecksAreDecidedOnceHolds ==
  ASSUME NoFalseAlarms
  PROVE  Spec => ChecksAreDecidedOnce
<1>1. ASSUME ScoreInv, LockIsHeld, SettleInv, LeftCoversRunning, LifecycleInv, [Next]_vars
      PROVE  [Lifecycle!Next]_(Lifecycle!vars)
  BY <1>1, LifecycleStep
<1>. QED
  BY <1>1, LifecycleInit, LifecycleInvariant, PTL DEF Spec, ChecksAreDecidedOnce, Lifecycle!Spec
-----------------------------------------------------------------------------
(***************************************************************************)
(* Reports.  An attempt is a report made, a runner that has still to make  *)
(* it, or a job waiting for its next one; crashes and false alarms are all *)
(* that adds to them.                                                      *)
(***************************************************************************)

Reporting == {"load", "pin", "run", "failing", "score"}
Active(j) == {w \in Runners : at[w] = j /\ pc[w] \in Reporting}
Waits(j) == IF job[j] \in {"none", "todo"} \/ (job[j] = "doing" /\ owner[j] = NoOne)
            THEN 1 ELSE 0

Counted(j) ==
  /\ IsFiniteSet(Active(j))
  /\ reports[j] + Cardinality(Active(j)) + Waits(j) <= 1 + faults["crash"] + faults["silence"]

\* A runner about to end its job reported it, and a job that ended was reported.
EndsAreTold ==
  /\ \A w \in Runners : pc[w] = "finish" => reports[at[w]] > 0
  /\ \A j \in Jobs : job[j] \in Ended => reports[j] > 0 \/ faults["database"] > 0

\* The runner that the row of a job being done names executes that job.
OwnersExecute ==
  \A j \in Jobs : job[j] = "doing" /\ owner[j] # NoOne =>
    pc[owner[j]] # "idle" /\ at[owner[j]] = j

ReportInv == EndsAreTold /\ OwnersExecute /\ \A j \in Jobs : Counted(j)

\* A step whose runners execute the job as before.
LEMMA SameAttempts ==
  ASSUME TypeOK, TypeOK', NEW j \in Jobs, Counted(j), Active(j)' = Active(j),
         reports'[j] + Waits(j)' + faults["crash"] + faults["silence"]
           <= reports[j] + Waits(j) + faults'["crash"] + faults'["silence"]
  PROVE  Counted(j)'
<1>1. IsFiniteSet(Active(j)) /\ Cardinality(Active(j)) \in Nat
  BY FS_CardinalityType DEF Counted
<1>2. /\ reports[j] \in Nat /\ reports'[j] \in Nat /\ Waits(j) \in Nat /\ Waits(j)' \in Nat
      /\ faults["crash"] \in Nat /\ faults["silence"] \in Nat
      /\ faults'["crash"] \in Nat /\ faults'["silence"] \in Nat
  BY DEF TypeOK, Waits, Faults
<1>3. reports[j] + Cardinality(Active(j)) + Waits(j) <= 1 + faults["crash"] + faults["silence"]
  BY DEF Counted
<1>4. reports'[j] + Cardinality(Active(j)') + Waits(j)' <= 1 + faults'["crash"] + faults'["silence"]
  BY <1>1, <1>2, <1>3
<1>. QED
  BY <1>1, <1>4 DEF Counted

\* A step in which a runner's attempt at the job is over, reported or not.
LEMMA LeavesAttempt ==
  ASSUME TypeOK, TypeOK', NEW j \in Jobs, Counted(j),
         NEW w \in Active(j), Active(j)' = Active(j) \ {w},
         reports'[j] + Waits(j)' + faults["crash"] + faults["silence"]
           <= reports[j] + Waits(j) + 1 + faults'["crash"] + faults'["silence"]
  PROVE  Counted(j)'
<1>1. /\ IsFiniteSet(Active(j)) /\ Cardinality(Active(j)) \in Nat
      /\ IsFiniteSet(Active(j)') /\ Cardinality(Active(j)') \in Nat
      /\ Cardinality(Active(j)') = Cardinality(Active(j)) - 1
  BY FS_CardinalityType, FS_RemoveElement DEF Counted
<1>2. /\ reports[j] \in Nat /\ reports'[j] \in Nat /\ Waits(j) \in Nat /\ Waits(j)' \in Nat
      /\ faults["crash"] \in Nat /\ faults["silence"] \in Nat
      /\ faults'["crash"] \in Nat /\ faults'["silence"] \in Nat
  BY DEF TypeOK, Waits, Faults
<1>3. reports[j] + Cardinality(Active(j)) + Waits(j) <= 1 + faults["crash"] + faults["silence"]
  BY DEF Counted
<1>4. reports'[j] + Cardinality(Active(j)') + Waits(j)' <= 1 + faults'["crash"] + faults'["silence"]
  BY <1>1, <1>2, <1>3
<1>. QED
  BY <1>1, <1>4 DEF Counted

\* A waiting job gets a runner.
LEMMA FetchCounted ==
  ASSUME TypeOK, TypeOK', NEW w \in Runners, NEW k \in Jobs, Fetch(w, k),
         NEW j \in Jobs, Counted(j)
  PROVE  Counted(j)'
<1>1. /\ pc[w] = "idle" /\ job[k] = "todo" /\ UNCHANGED <<reports, faults>>
      /\ job' = [job EXCEPT ![k] = "doing"] /\ owner' = [owner EXCEPT ![k] = w]
      /\ pc' = [pc EXCEPT ![w] = "load"] /\ at' = [at EXCEPT ![w] = k]
  BY DEF Fetch
<1>2. CASE j # k
  <2>1. Active(j)' = Active(j)
    BY <1>1, <1>2 DEF Active, Reporting, TypeOK
  <2>2. Waits(j)' = Waits(j)
    BY <1>1, <1>2 DEF Waits, TypeOK
  <2>. QED
    BY <1>1, <2>1, <2>2, SameAttempts DEF TypeOK, Waits, Faults
<1>3. CASE j = k
  <2>1. Active(j)' = Active(j) \cup {w} /\ w \notin Active(j)
    BY <1>1, <1>3 DEF Active, Reporting, TypeOK
  <2>2. Waits(j) = 1 /\ Waits(j)' = 0
    BY <1>1, <1>3, ConstantsAssumption DEF Waits, TypeOK
  <2>3. IsFiniteSet(Active(j)) /\ Cardinality(Active(j)) \in Nat
    BY FS_CardinalityType DEF Counted
  <2>4. IsFiniteSet(Active(j)') /\ Cardinality(Active(j)') = Cardinality(Active(j)) + 1
    BY <2>1, <2>3, FS_AddElement
  <2>5. reports[j] \in Nat /\ faults["crash"] \in Nat /\ faults["silence"] \in Nat
    BY DEF TypeOK, Faults
  <2>6. reports[j] + Cardinality(Active(j)) + 1 <= 1 + faults["crash"] + faults["silence"]
    BY <2>2 DEF Counted
  <2>7. reports'[j] + Cardinality(Active(j)') + 0 <= 1 + faults'["crash"] + faults'["silence"]
    BY <1>1, <2>3, <2>4, <2>5, <2>6
  <2>. QED
    BY <2>2, <2>4, <2>7 DEF Counted
<1>. QED
  BY <1>2, <1>3

\* A runner forgets its job: it finished it, it crashed or it lost the database.
LEMMA ForgetCounted ==
  ASSUME TypeOK, TypeOK', NEW w \in Runners, pc[w] # "idle", Forget(w), UNCHANGED reports,
         NEW j \in Jobs, Counted(j),
         Waits(j)' + faults["crash"] + faults["silence"]
           <= Waits(j) + faults'["crash"] + faults'["silence"]
  PROVE  Counted(j)'
<1>1. Active(j)' = Active(j) \ {w}
  BY DEF Forget, Active, Reporting, TypeOK
<1>2. /\ reports[j] \in Nat /\ Waits(j) \in Nat /\ Waits(j)' \in Nat
      /\ faults["crash"] \in Nat /\ faults["silence"] \in Nat
      /\ faults'["crash"] \in Nat /\ faults'["silence"] \in Nat
  BY DEF TypeOK, Waits, Faults
<1>3. reports'[j] + Waits(j)' + faults["crash"] + faults["silence"]
        <= reports[j] + Waits(j) + faults'["crash"] + faults'["silence"]
  BY <1>2
<1>4. CASE w \in Active(j)
  <2>1. reports'[j] + Waits(j)' + faults["crash"] + faults["silence"]
        <= reports[j] + Waits(j) + 1 + faults'["crash"] + faults'["silence"]
    BY <1>2
  <2>. QED
    BY <1>1, <1>4, <2>1, LeavesAttempt
<1>5. CASE w \notin Active(j)
  BY <1>1, <1>3, <1>5, SameAttempts
<1>. QED
  BY <1>4, <1>5

LEMMA CountedStep ==
  ASSUME ScoreInv, ReportInv, [Next]_vars, NEW j \in Jobs
  PROVE  Counted(j)'
<1>. USE DEF ScoreInv
<1>0. TypeOK' /\ Counted(j)
  BY NextType DEF ReportInv
<1>1. ASSUME UNCHANGED <<reports, at>>, Waits(j)' = Waits(j),
             faults'["crash"] = faults["crash"], faults'["silence"] = faults["silence"],
             \A w \in Runners : pc'[w] \in Reporting <=> pc[w] \in Reporting
      PROVE  Counted(j)'
  <2>1. Active(j)' = Active(j)
    BY <1>1 DEF Active
  <2>2. /\ reports[j] \in Nat /\ Waits(j) \in Nat
        /\ faults["crash"] \in Nat /\ faults["silence"] \in Nat
    BY DEF TypeOK, Waits, Faults
  <2>. QED
    BY <1>0, <1>1, <2>1, <2>2, SameAttempts
<1>2. CASE Elsewhere
  <2>1. UNCHANGED reports
    BY <1>2, OnlyPublishingReports DEF Elsewhere, PublishFinished, TypeOK
  <2>. QED
    BY <1>1, <1>2, <2>1 DEF Elsewhere, Waits
<1>3. CASE Queueing
  <2>1. PICK k \in Jobs : job[k] = "none" /\ job' = [job EXCEPT ![k] = "todo"]
    BY ZenonT(60), <1>3 DEF Queueing, Enqueue
  <2>2. UNCHANGED <<owner, reports, faults, worker>>
    BY <1>3 DEF Queueing, Enqueue
  <2>3. Waits(j)' = Waits(j)
    BY <2>1, <2>2 DEF Waits, TypeOK
  <2>. QED
    BY <1>1, <2>2, <2>3
<1>4. ASSUME NEW w \in Runners, NEW k \in Jobs, Fetch(w, k) PROVE Counted(j)'
  BY <1>0, <1>4, FetchCounted
<1>5. ASSUME NEW w \in Runners,
             \/ LoadRows(w) \/ PinHead(w) \/ BuildConfig(w) \/ RunExecution(w)
             \/ FailArchived(w) \/ EndRun(w) \/ Raise(w) \/ FailRemaining(w)
      PROVE  Counted(j)'
  <2>1. UNCHANGED <<job, owner, reports, at, faults>>
    BY <1>5 DEF LoadRows, PinHead, BuildConfig, RunExecution, FailArchived, EndRun, Raise,
       FailRemaining
  <2>2. \A v \in Runners : pc'[v] \in Reporting <=> pc[v] \in Reporting
    BY <1>5 DEF LoadRows, PinHead, BuildConfig, RunExecution, FailArchived, EndRun, Raise,
       FailRemaining, TypeOK, Reporting
  <2>. QED
    BY <1>1, <2>1, <2>2 DEF Waits
<1>6. ASSUME NEW w \in Runners, PublishFinished(w) PROVE Counted(j)'
  <2>1. /\ pc[w] = "score" /\ pc' = [pc EXCEPT ![w] = "finish"] /\ at[w] \in Jobs
        /\ reports' = [reports EXCEPT ![at[w]] = @ + 1] /\ UNCHANGED <<at, faults, job, owner>>
    BY <1>6 DEF PublishFinished, TypeOK
  <2>2. /\ reports[j] \in Nat /\ Waits(j) \in Nat /\ Waits(j)' = Waits(j)
        /\ faults["crash"] \in Nat /\ faults["silence"] \in Nat
    BY <2>1 DEF TypeOK, Waits, Faults
  <2>3. CASE at[w] = j
    <3>1. w \in Active(j) /\ Active(j)' = Active(j) \ {w}
      BY <2>1, <2>3 DEF Active, Reporting, TypeOK
    <3>2. reports'[j] = reports[j] + 1
      BY <2>1, <2>3 DEF TypeOK
    <3>. QED
      BY <1>0, <2>1, <2>2, <3>1, <3>2, LeavesAttempt
  <2>4. CASE at[w] # j
    <3>1. Active(j)' = Active(j)
      BY <2>1, <2>4 DEF Active, Reporting, TypeOK
    <3>2. reports'[j] = reports[j]
      BY <2>1, <2>4 DEF TypeOK
    <3>. QED
      BY <1>0, <2>1, <2>2, <3>1, <3>2, SameAttempts
  <2>. QED
    BY <2>3, <2>4
<1>7. Waits(j) \in {0, 1} /\ Waits(j)' \in {0, 1}
  BY DEF Waits
<1>8. ASSUME NEW w \in Runners, NEW status \in Ended, EndJob(at[w], status), at[w] \in Jobs
      PROVE  Waits(j)' <= Waits(j)
  BY <1>8 DEF EndJob, Waits, TypeOK, Ended
<1>9. ASSUME NEW w \in Runners, Finish(w) \/ LoseDatabase(w) PROVE Counted(j)'
  <2>1. /\ pc[w] # "idle" /\ Forget(w) /\ UNCHANGED reports
        /\ \E status \in Ended : EndJob(at[w], status)
        /\ faults'["crash"] = faults["crash"] /\ faults'["silence"] = faults["silence"]
    BY <1>9, FaultCounts DEF Finish, LoseDatabase, TypeOK, Faults, Ended
  <2>2. Waits(j)' <= Waits(j)
    BY <1>8, <2>1 DEF TypeOK
  <2>3. faults["crash"] \in Nat /\ faults["silence"] \in Nat
    BY DEF TypeOK, Faults
  <2>. QED
    BY <1>0, <1>7, <2>1, <2>2, <2>3, ForgetCounted
<1>10. ASSUME NEW w \in Runners, Crash(w) PROVE Counted(j)'
  <2>1. /\ pc[w] # "idle" /\ Forget(w) /\ UNCHANGED reports
        /\ faults'["silence"] = faults["silence"] /\ faults'["crash"] = faults["crash"] + 1
    BY <1>10 DEF Crash, Fault, TypeOK, Faults
  <2>2. faults["crash"] \in Nat /\ faults["silence"] \in Nat
    BY DEF TypeOK, Faults
  <2>. QED
    BY <1>0, <1>7, <2>1, <2>2, ForgetCounted
<1>11. ASSUME NEW k \in Jobs, Recover(k) PROVE Counted(j)'
  <2>1. Waits(j)' = Waits(j)
    BY <1>11 DEF Recover, Waits, TypeOK
  <2>. QED
    BY <1>1, <1>11, <2>1 DEF Recover
<1>12. ASSUME NEW k \in Jobs, RecoverSilent(k) PROVE Counted(j)'
  <2>1. /\ UNCHANGED <<reports, at, pc>>
        /\ faults'["crash"] = faults["crash"] /\ faults'["silence"] = faults["silence"] + 1
    BY <1>12 DEF RecoverSilent, Fault, TypeOK, Faults
  <2>2. Active(j)' = Active(j)
    BY <2>1 DEF Active
  <2>3. faults["crash"] \in Nat /\ faults["silence"] \in Nat /\ reports[j] \in Nat
    BY DEF TypeOK, Faults
  <2>. QED
    BY <1>0, <1>7, <2>1, <2>2, <2>3, SameAttempts
<1>13. CASE SweepExpire
  BY <1>1, <1>13 DEF SweepExpire, Waits
<1>. QED
  BY <1>2, <1>3, <1>4, <1>5, <1>6, <1>9, <1>10, <1>11, <1>12, <1>13, StepKinds DEF RunnerMoves

LEMMA ToldStep ==
  ASSUME ScoreInv, ReportInv, [Next]_vars
  PROVE  EndsAreTold'
<1>. USE DEF ScoreInv, ReportInv
<1>1. \A j \in Jobs : reports[j] \in Nat /\ reports'[j] \in Nat /\ reports'[j] >= reports[j]
  <2>1. reports' = reports \/ \E w \in Runners : reports' = [reports EXCEPT ![at[w]] = @ + 1]
    BY OnlyPublishingReports DEF PublishFinished
  <2>. QED
    BY <2>1 DEF TypeOK
<1>2. ASSUME NEW w \in Runners, pc'[w] = "finish" PROVE reports'[at'[w]] > 0
  <2>1. (pc[w] = "finish" /\ at'[w] = at[w]) \/ PublishFinished(w)
    <3>1. ASSUME NEW v \in Runners, NEW j \in Jobs, Fetch(v, j)
          PROVE  pc[w] = "finish" /\ at'[w] = at[w]
      BY <1>2, <3>1 DEF Fetch, TypeOK
    <3>2. ASSUME NEW v \in Runners, LoadRows(v) \/ PinHead(v) \/ BuildConfig(v)
                   \/ RunExecution(v) \/ FailArchived(v)
          PROVE  pc[w] = "finish" /\ at'[w] = at[w]
      BY <1>2, <3>2 DEF LoadRows, PinHead, BuildConfig, RunExecution, FailArchived, TypeOK
    <3>3. ASSUME NEW v \in Runners, EndRun(v) \/ Raise(v) \/ FailRemaining(v)
                   \/ (PublishFinished(v) /\ v # w)
          PROVE  pc[w] = "finish" /\ at'[w] = at[w]
      BY <1>2, <3>3 DEF EndRun, Raise, FailRemaining, PublishFinished, TypeOK
    <3>4. ASSUME NEW v \in Runners, Finish(v) \/ Crash(v) \/ LoseDatabase(v)
          PROVE  pc[w] = "finish" /\ at'[w] = at[w]
      BY <1>2, <3>4 DEF Finish, Crash, LoseDatabase, Forget, TypeOK
    <3>5. ASSUME UNCHANGED worker PROVE pc[w] = "finish" /\ at'[w] = at[w]
      BY <1>2, <3>5
    <3>. QED
      BY <3>1, <3>2, <3>3, <3>4, <3>5, StepKinds
         DEF RunnerMoves, Elsewhere, Queueing, Recover, RecoverSilent, SweepExpire
  <2>2. CASE pc[w] = "finish" /\ at'[w] = at[w]
    BY <1>1, <2>2 DEF EndsAreTold, TypeOK
  <2>3. CASE PublishFinished(w)
    BY <1>1, <2>3 DEF PublishFinished, TypeOK
  <2>. QED
    BY <2>1, <2>2, <2>3
<1>3. ASSUME NEW j \in Jobs, job'[j] \in Ended
      PROVE  reports'[j] > 0 \/ faults'["database"] > 0
  <2>0. faults["database"] \in Nat /\ faults'["database"] \in Nat
    BY NextType DEF TypeOK, Faults
  <2>1. faults'["database"] >= faults["database"]
    <3>1. ASSUME NEW f \in Faults, Fault(f) PROVE faults'["database"] >= faults["database"]
      BY <3>1 DEF Fault, TypeOK, Faults
    <3>2. ASSUME NEW w \in Runners, RunnerMoves(w), ~Crash(w), ~LoseDatabase(w)
          PROVE  UNCHANGED faults
      BY <3>2 DEF RunnerMoves, Fetch, LoadRows, PinHead, BuildConfig, RunExecution,
         FailArchived, EndRun, Raise, FailRemaining, PublishFinished, Finish
    <3>. QED
      BY <3>1, <3>2, StepKinds DEF Elsewhere, Queueing, Recover, RecoverSilent, SweepExpire,
         Crash, LoseDatabase, TypeOK, Faults
  <2>2. CASE job[j] \in Ended
    <3>1. reports[j] > 0 \/ faults["database"] > 0
      BY <2>2 DEF EndsAreTold
    <3>. QED
      BY <1>1, <2>0, <2>1, <3>1
  <2>3. ASSUME NEW w \in Runners, Finish(w), at[w] = j PROVE reports'[j] > 0
    BY <1>1, <2>3 DEF Finish, EndsAreTold, TypeOK
  <2>4. ASSUME NEW w \in Runners, LoseDatabase(w) PROVE faults'["database"] > 0
    BY <2>4, FaultCounts DEF LoseDatabase, Faults
  <2>5. CASE job[j] \notin Ended
    <3>1. CASE Queueing
      BY <1>3, <2>5, <3>1 DEF Queueing, Enqueue, TypeOK, Ended
    <3>2. ASSUME NEW w \in Runners, Finish(w) PROVE at[w] = j
      BY <1>3, <2>5, <3>2 DEF Finish, EndJob, TypeOK
    <3>3. ASSUME NEW w \in Runners, RunnerMoves(w) PROVE Finish(w) \/ LoseDatabase(w)
      BY <1>3, <2>5, <3>3 DEF RunnerMoves, Fetch, LoadRows, PinHead, BuildConfig, RunExecution,
         FailArchived, EndRun, Raise, FailRemaining, PublishFinished, Crash, TypeOK, Ended
    <3>. QED
      BY <1>3, <2>3, <2>4, <2>5, <3>1, <3>2, <3>3, StepKinds
         DEF Elsewhere, Recover, RecoverSilent, SweepExpire, TypeOK, Ended
  <2>. QED
    BY <2>2, <2>5
<1>. QED
  BY <1>2, <1>3 DEF EndsAreTold

LEMMA OwnersStep ==
  ASSUME TypeOK, OwnersExecute, [Next]_vars
  PROVE  OwnersExecute'
<1>. SUFFICES ASSUME NEW j \in Jobs, job'[j] = "doing", owner'[j] # NoOne
              PROVE  pc'[owner'[j]] # "idle" /\ at'[owner'[j]] = j
  BY DEF OwnersExecute
<1>. DEFINE Goal == pc'[owner'[j]] # "idle" /\ at'[owner'[j]] = j
<1>1. ASSUME job[j] = "doing", owner'[j] = owner[j], UNCHANGED at,
             \A v \in Runners : pc[v] # "idle" => pc'[v] # "idle"
      PROVE  Goal
  BY <1>1 DEF OwnersExecute, TypeOK
<1>2. CASE Elsewhere \/ SweepExpire
  BY <1>1, <1>2 DEF Elsewhere, SweepExpire
<1>3. CASE Queueing
  BY <1>1, <1>3 DEF Queueing, Enqueue, TypeOK
<1>4. ASSUME NEW w \in Runners, NEW k \in Jobs, Fetch(w, k) PROVE Goal
  BY <1>4 DEF Fetch, TypeOK, OwnersExecute
<1>5. ASSUME NEW w \in Runners,
             \/ LoadRows(w) \/ PinHead(w) \/ BuildConfig(w) \/ RunExecution(w)
             \/ FailArchived(w) \/ EndRun(w) \/ Raise(w) \/ FailRemaining(w)
             \/ PublishFinished(w)
      PROVE  Goal
  <2>1. UNCHANGED <<job, owner, at>> /\ \A v \in Runners : pc[v] # "idle" => pc'[v] # "idle"
    BY <1>5 DEF LoadRows, PinHead, BuildConfig, RunExecution, FailArchived, EndRun, Raise,
       FailRemaining, PublishFinished, TypeOK
  <2>. QED
    BY <1>1, <2>1
<1>6. ASSUME NEW w \in Runners, pc[w] # "idle", Forget(w), owner'[j] = owner[j], owner[j] # w,
             job[j] = "doing"
      PROVE  Goal
  BY <1>6 DEF Forget, TypeOK, OwnersExecute
<1>7. ASSUME NEW w \in Runners, Finish(w) \/ LoseDatabase(w) PROVE Goal
  <2>1. /\ pc[w] # "idle" /\ Forget(w) /\ at[w] \in Jobs
        /\ \E status \in Ended : EndJob(at[w], status)
    BY <1>7 DEF Finish, LoseDatabase, TypeOK, Ended
  <2>2. j # at[w] /\ owner'[j] = owner[j] /\ job[j] = "doing"
    BY <2>1 DEF EndJob, TypeOK, Ended
  <2>. QED
    BY <1>6, <2>1, <2>2 DEF OwnersExecute
<1>8. ASSUME NEW w \in Runners, Crash(w) PROVE Goal
  <2>1. /\ pc[w] # "idle" /\ Forget(w) /\ owner'[j] = owner[j] /\ owner[j] # w
        /\ job[j] = "doing"
    BY <1>8 DEF Crash, TypeOK
  <2>. QED
    BY <1>6, <2>1
<1>9. ASSUME NEW k \in Jobs, Recover(k) \/ RecoverSilent(k) PROVE Goal
  <2>1. j # k /\ job[j] = "doing" /\ owner'[j] = owner[j] /\ UNCHANGED <<pc, at>>
    BY <1>9 DEF Recover, RecoverSilent, TypeOK
  <2>. QED
    BY <1>1, <2>1
<1>. QED
  BY <1>2, <1>3, <1>4, <1>5, <1>7, <1>8, <1>9, StepKinds DEF RunnerMoves

\* Crashes, recoveries and false alarms notwithstanding, a job that ended was
\* reported, unless the database failed its handler, and is reported once per
\* attempt at most.
THEOREM ReportedOncePerAttemptHolds == Spec => []ReportedOncePerAttempt
<1>1. Init => ReportInv
  <2>. SUFFICES ASSUME Init PROVE ReportInv
    OBVIOUS
  <2>1. ASSUME NEW j \in Jobs PROVE Counted(j)
    <3>1. Active(j) = {} /\ Waits(j) = 1 /\ reports[j] = 0
      BY DEF Init, Active, Reporting, Waits
    <3>2. faults["crash"] = 0 /\ faults["silence"] = 0
      BY DEF Init, Faults
    <3>. QED
      BY <3>1, <3>2, FS_EmptySet DEF Counted
  <2>2. EndsAreTold /\ OwnersExecute
    BY DEF Init, EndsAreTold, OwnersExecute, Ended
  <2>. QED
    BY <2>1, <2>2 DEF ReportInv
<1>2. ASSUME ScoreInv, ReportInv, [Next]_vars PROVE ReportInv'
  BY <1>2, CountedStep, ToldStep, OwnersStep DEF ReportInv, ScoreInv
<1>3. ScoreInv /\ ReportInv => ReportedOncePerAttempt
  <2>. SUFFICES ASSUME ScoreInv, ReportInv, NEW j \in Jobs
                PROVE  /\ job[j] \in Ended => reports[j] > 0 \/ faults["database"] > 0
                       /\ reports[j] <= 1 + faults["crash"] + faults["silence"]
    BY DEF ReportedOncePerAttempt
  <2>1. Cardinality(Active(j)) \in Nat /\ Waits(j) \in Nat
    BY FS_CardinalityType DEF ReportInv, Counted, Waits
  <2>2. reports[j] \in Nat /\ faults["crash"] \in Nat /\ faults["silence"] \in Nat
    BY DEF ScoreInv, TypeOK, Faults
  <2>3. reports[j] + Cardinality(Active(j)) + Waits(j) <= 1 + faults["crash"] + faults["silence"]
    BY DEF ReportInv, Counted
  <2>4. reports[j] <= 1 + faults["crash"] + faults["silence"]
    BY <2>1, <2>2, <2>3
  <2>. QED
    BY <2>4 DEF ReportInv, EndsAreTold
<1>. QED
  BY <1>1, <1>2, <1>3, ScoreInvariant, PTL DEF Spec
===============================================================================
