----------------------------- MODULE CheckWait -----------------------------
(***************************************************************************)
(* `gitgrit check --wait` and `gitgrit project upload --wait` (cli/cmd):   *)
(* a pipeline asks for a check of the commit it built, polls what the API  *)
(* says of that commit, and exits by its score.  The server is reduced to  *)
(* one branch: pushes and requests start checks (application/              *)
(* standard_runs.py, run_on_branch), a job pins and runs them one check at *)
(* a time, and a commit reads its newest check (domain/scoring).  How a    *)
(* check runs is StandardRuns; what it decides is CommitScoring.           *)
(***************************************************************************)
EXTENDS CommitScoring

CONSTANTS Standards, Importance,
          Pipelines, FailUnder,   \* the CI jobs, each with its --fail-under
          MaxHead,    \* commits ever pushed
          MaxChecks   \* checks ever started

ASSUME CheckWaitAssumption ==
  /\ Importance \in [Standards -> Importances] /\ IsFiniteSet(Standards)
  /\ FailUnder \in [Pipelines -> 0 .. 100]
  /\ MaxHead \in Nat \ {0} /\ MaxChecks \in Nat

VARIABLES head,    \* the branch's newest commit
          checks,  \* every check, oldest first
          wait     \* what each pipeline is doing

waitVars == <<head, checks, wait>>

NotAsked == [at |-> "building", commit |-> 0, own |-> 0, judged |-> 0, code |-> 0]

WaitInit ==
  /\ head = 1
  /\ checks = <<>>
  /\ wait = [p \in Pipelines |-> NotAsked]

-----------------------------------------------------------------------------
(* The server *)

RunOf(s, status) ==
  [standard |-> s, status |-> status, importance |-> Importance[s], score |-> IF status = "passed" THEN 100 ELSE 0]
Running(k) == {r \in k.runs : r.status = "running"}
InFlight == {r.standard : r \in UNION {Running(checks[i]) : i \in DOMAIN checks}}
NewCheck(commit, standards) ==
  checks' = Append(checks, [commit |-> commit, runs |-> {RunOf(s, "running") : s \in standards}])

\* A push: every event gets its own runs.  One with no standard on pushes
\* starts nothing.
PushCommit(checked) ==
  /\ head < MaxHead
  /\ head' = head + 1
  /\ IF checked /\ Len(checks) < MaxChecks THEN NewCheck(head + 1, Standards) ELSE UNCHANGED checks
  /\ UNCHANGED wait

\* The job pins the head a check was started without, and runs its standards;
\* a project's jobs run one after the other.
Turn(i) == Running(checks[i]) # {} /\ \A j \in 1 .. i - 1 : Running(checks[j]) = {}
PinCheck(i) ==
  /\ Turn(i) /\ checks[i].commit = 0
  /\ checks' = [checks EXCEPT ![i].commit = head]
  /\ UNCHANGED <<head, wait>>
FinishRun(i, r, status) ==
  /\ Turn(i) /\ checks[i].commit # 0 /\ r \in Running(checks[i])
  /\ checks' = [checks EXCEPT ![i].runs = (@ \ {r}) \cup {RunOf(r.standard, status)}]
  /\ UNCHANGED <<head, wait>>

\* What the API says of a commit: its newest check's outcome, alone.
OfCommit(commit) == {i \in DOMAIN checks : checks[i].commit = commit}
NewestOf(commit) == CHOOSE i \in OfCommit(commit) : \A j \in OfCommit(commit) : j <= i
Over(k) == {r \in k.runs : r.status \in Finished}
Outcome(k) == Decide(k.commit, Standards, Over(k), Running(k) # {})

-----------------------------------------------------------------------------
(* The pipeline *)

\* A check asks for what is not in flight already (skip_running), on the
\* commit it was given, else the head the platform names, else the one the
\* job will pin.
AskForCheck(p, commit) ==
  LET queued == Standards \ InFlight
  IN /\ wait[p].at = "building"
     /\ IF queued # {}
        THEN Len(checks) < MaxChecks /\ NewCheck(commit, queued)
        ELSE UNCHANGED checks
     /\ wait' = [wait EXCEPT ![p].at = "waiting", ![p].commit = commit,
                             ![p].own = IF queued # {} THEN Len(checks) + 1 ELSE 0]
     /\ UNCHANGED head

\* An upload is its project's new commit, checked as a push.
Upload(p) ==
  /\ wait[p].at = "building" /\ head < MaxHead /\ Len(checks) < MaxChecks
  /\ head' = head + 1
  /\ NewCheck(head + 1, Standards)
  /\ wait' = [wait EXCEPT ![p].at = "uploaded", ![p].commit = head + 1, ![p].own = Len(checks) + 1]

Waiting(p) == wait[p].at \in {"waiting", "uploaded"}
Exit(p, why, judged, code) ==
  /\ wait' = [wait EXCEPT ![p].at = why, ![p].judged = judged, ![p].code = code]
  /\ UNCHANGED <<head, checks>>

\* The exit code of an answer with no run going.
Code(k, failUnder) ==
  CASE Outcome(k) \in {Undecided, "no_score"} -> 2
    [] Outcome(k) = "failed" -> 1
    [] Outcome(k) = "scored" -> IF Average(Over(k)) < failUnder THEN 1 ELSE 0

\* waitForCommit: until the commit has a check and no run of it is going.
\* Mutant of AnswersFor: any check of the commit that is over answers.
SomeAnswerFor(p) == {i \in OfCommit(wait[p].commit) : Running(checks[i]) = {}}
AnswersFor(p) ==
  {i \in OfCommit(wait[p].commit) : i = NewestOf(wait[p].commit) /\ Running(checks[i]) = {}}
\* waitForBranchHead: the newest checked commit of the branch, while the
\* server cannot say which commit the check is of.
HeadAnswers ==
  {i \in DOMAIN checks : /\ checks[i].commit # 0 /\ i = NewestOf(checks[i].commit)
                         /\ \A j \in DOMAIN checks : checks[j].commit <= checks[i].commit
                         /\ Running(checks[i]) = {}}
Poll(p) ==
  /\ Waiting(p)
  /\ \E i \in IF wait[p].commit = 0 THEN HeadAnswers ELSE AnswersFor(p) :
       Exit(p, "judged", i, Code(checks[i], FailUnder[p]))

\* --timeout passed; or an answer that is an error.
TimeOut(p) == Waiting(p) /\ Exit(p, "timed out", 0, IF wait[p].at = "uploaded" THEN 1 ELSE 2)
Fail(p) == Waiting(p) /\ Exit(p, "error", 0, 1)

WaitNext ==
  \/ \E checked \in BOOLEAN : PushCommit(checked)
  \/ \E i \in DOMAIN checks :
       \/ PinCheck(i)
       \/ \E r \in checks[i].runs, status \in Finished : FinishRun(i, r, status)
  \/ \E p \in Pipelines :
       \/ \E commit \in 0 .. head : AskForCheck(p, commit)
       \/ Upload(p) \/ Poll(p) \/ TimeOut(p) \/ Fail(p)

-----------------------------------------------------------------------------
(* Properties *)

\* A pipeline that names its commit and got a check queued exits by that check
\* or a later one of the commit, never by what the commit read before: the
\* rows exist before the request is answered, and a commit reads its newest.
ExitIsOfMyCheck ==
  \A p \in Pipelines :
    wait[p].at = "judged" /\ wait[p].commit # 0 /\ wait[p].own # 0
      => /\ wait[p].judged >= wait[p].own
         /\ checks[wait[p].judged].commit = wait[p].commit
=============================================================================
