--------------------------- MODULE CheckLifecycle ---------------------------
(***************************************************************************)
(* What the application promises of the checks of a project, whatever      *)
(* happens to the workers that run them: a check is queued with its job,   *)
(* its runs end once, it is pinned to one commit at most once, and its     *)
(* score is decided once, from runs that are all over.  A job that reports *)
(* reports checks that have their score.                                   *)
(*                                                                         *)
(* StandardRuns implements this specification (ChecksAreDecidedOnce).  Its *)
(* attempts, recoveries and sweeps are invisible here: a second attempt    *)
(* that runs nothing, scores again and reports again is a stutter.         *)
(***************************************************************************)
EXTENDS Naturals

CONSTANTS
  Jobs, Checks,
  JobOf,      \* check -> the job it was queued with
  Commits,    \* the commits a check may be pinned to, 0 not among them
  Scores,     \* what a check may be decided to be
  Undecided   \* what a check with nothing to expect comes to, and every check
              \* before it is scored

VARIABLES
  stage,    \* check -> "none", "going" while a run of it is, then "over"
  commit,   \* check -> the commit it is pinned to (0: none)
  outcome,  \* check -> what its runs came to
  score,    \* check -> its newest score
  told      \* the jobs whose end was published

vars == <<stage, commit, outcome, score, told>>

TypeOK ==
  /\ stage \in [Checks -> {"none", "going", "over"}]
  /\ commit \in [Checks -> Commits \cup {0}]
  /\ outcome \in [Checks -> Scores \cup {Undecided}]
  /\ score \in [Checks -> Scores \cup {Undecided}]
  /\ told \subseteq Jobs

Init ==
  /\ stage = [c \in Checks |-> "none"]
  /\ commit = [c \in Checks |-> 0]
  /\ outcome = [c \in Checks |-> Undecided]
  /\ score = [c \in Checks |-> Undecided]
  /\ told = {}

\* A job is queued with the checks of the branches it reads, all at one commit
\* or none.
Queue(j) ==
  /\ \A c \in Checks : JobOf[c] = j => stage[c] = "none"
  /\ \E S \in (SUBSET {c \in Checks : JobOf[c] = j}) \ {{}} :
       /\ stage' = [c \in Checks |-> IF c \in S THEN "going" ELSE stage[c]]
       /\ \E at \in Commits \cup {0} :
            commit' = [c \in Checks |-> IF c \in S THEN at ELSE commit[c]]
  /\ UNCHANGED <<outcome, score, told>>

\* The job learns the commit of a check, even when nothing is left to run.
Pin(c) ==
  /\ commit[c] = 0 /\ stage[c] # "none"
  /\ \E at \in Commits : commit' = [commit EXCEPT ![c] = at]
  /\ UNCHANGED <<stage, outcome, score, told>>

\* The last runs of some checks end: one run at a time, or all that is left of
\* a job, or of what the sweep gives up.
End(S) ==
  /\ \A c \in Checks :
       IF c \in S THEN stage[c] = "going" ELSE outcome'[c] = outcome[c]
  /\ stage' = [c \in Checks |-> IF c \in S THEN "over" ELSE stage[c]]
  /\ outcome' \in [Checks -> Scores \cup {Undecided}]
  /\ UNCHANGED <<commit, score, told>>

\* A check of an unknown commit, or that expects nothing, is never scored.
Scorable(c) == stage[c] = "over" /\ commit[c] # 0 /\ outcome[c] # Undecided

Score(c) ==
  /\ score[c] = Undecided /\ Scorable(c)
  /\ score' = [score EXCEPT ![c] = outcome[c]]
  /\ UNCHANGED <<stage, commit, outcome, told>>

Tell(j) ==
  /\ j \notin told
  /\ \A c \in Checks : JobOf[c] = j => stage[c] # "going"
  /\ \A c \in Checks : JobOf[c] = j /\ Scorable(c) => score[c] = outcome[c]
  /\ told' = told \cup {j}
  /\ UNCHANGED <<stage, commit, outcome, score>>

Next ==
  \/ \E j \in Jobs : Queue(j) \/ Tell(j)
  \/ \E c \in Checks : Pin(c) \/ Score(c)
  \/ \E S \in (SUBSET Checks) \ {{}} : End(S)

Spec == Init /\ [][Next]_vars
-----------------------------------------------------------------------------
\* A check is scored once and for good: the score people saw, gates acted on
\* and notifications named never becomes another one.
ScoredOnce == [][\A c \in Checks : score[c] # Undecided => score'[c] = score[c]]_vars

\* A score is of a known commit and of runs that are all over.
ScoresAreEarned ==
  \A c \in Checks : score[c] # Undecided =>
    stage[c] = "over" /\ commit[c] # 0 /\ score[c] = outcome[c]
=============================================================================
