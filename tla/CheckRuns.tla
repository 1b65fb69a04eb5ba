------------------------------ MODULE CheckRuns ------------------------------
(***************************************************************************)
(* A check that collects runs, newest first: the scoring of CommitScoring  *)
(* over every sequence of up to MaxRuns runs, and every step from one to   *)
(* the next.                                                               *)
(***************************************************************************)
EXTENDS CommitScoring, FiniteSetsExt

CONSTANTS
  Standards,  \* the standards of the workspace
  Scores,     \* the scores a standard may report
  Ranks,      \* the importances in use
  MaxRuns     \* bound on the runs of the check

ASSUME ScoringAssumption ==
  Scores \subseteq 0..100 /\ Ranks \subseteq Importances /\ MaxRuns \in Nat

VARIABLES expected, runs

vars == <<expected, runs>>

Run == [standard : Standards, status : RunStatus, importance : Ranks, score : Scores]

Init == expected \in SUBSET Standards /\ runs = <<>>

\* One more run of a standard is recorded.
AddRun ==
  /\ Len(runs) < MaxRuns
  /\ \E run \in Run : runs' = <<run>> \o runs
  /\ UNCHANGED expected

Full == Len(runs) = MaxRuns /\ UNCHANGED vars

Next == AddRun \/ Full

Spec == Init /\ [][Next]_vars
-----------------------------------------------------------------------------
Now == Picked(runs, expected)
Outcome == Verdict(Now, NotRun(Now, expected))
Points(r) == r.score * (IF r.importance = "minor" THEN 1 ELSE 2)
Shares(r) == IF r.importance = "minor" THEN 1 ELSE 2
Distance(a, b) == IF a > b THEN a - b ELSE b - a

\* A scored commit's number is the integer nearest to the weighted mean of the
\* standards' own scores, written here as a plain sum over the picked runs
\* with Required and Major counted twice, and it lies between the lowest and
\* the highest of them.
AverageIsNearestToTheMean ==
  Outcome = "scored" =>
    LET total == MapThenSumSet(Shares, Now)
        sum == MapThenSumSet(Points, Now)
        value == Average(Now)
    IN /\ 2 * Distance(value * total, sum) <= total
       /\ \E r \in Now : r.score <= value
       /\ \E r \in Now : r.score >= value

\* A standard run again on the commit replaces its earlier result and nothing
\* else; a run that is not over, or of a standard the check does not expect,
\* changes nothing.
RerunReplacesItsStandard ==
  [][runs' # runs =>
       LET run == Head(runs') IN
       Now' = IF run.status \in Finished /\ run.standard \in expected
              THEN {r \in Now : r.standard # run.standard} \cup {run}
              ELSE Now]_runs

=============================================================================
