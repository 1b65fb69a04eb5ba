--------------------------- MODULE CommitScoring ---------------------------
(***************************************************************************)
(* How a commit is scored from the runs of one check                       *)
(* (app/domain/scoring).  Pure operators, no state: which runs count, when *)
(* a check decides nothing, and the policy in use, the required-gate       *)
(* weighted average.                                                       *)
(*                                                                         *)
(* A run is a record with fields standard, status and importance, and,     *)
(* where the value of the score matters, the standard's own 0-100 score.   *)
(* Names, reasons and execution ids carry no decision and are left out.    *)
(***************************************************************************)
EXTENDS Naturals, FiniteSets, Sequences

Finished == {"passed", "failed", "error"}
RunStatus == Finished \cup {"running", "skipped"}
Importances == {"required", "major", "minor"}

\* A decided check saves one of these.
Verdicts == {"no_score", "failed", "scored"}
Undecided == "undecided"

(***************************************************************************)
(* Which runs count.                                                       *)
(***************************************************************************)

\* Mutant of NewestFinished: a standard's oldest finished run counts.
OldestFinished(runs, expected) ==
  {i \in DOMAIN runs :
     /\ runs[i].status \in Finished
     /\ runs[i].standard \in expected
     /\ \A k \in (i + 1)..Len(runs) :
          runs[k].standard = runs[i].standard => runs[k].status \notin Finished}

\* The positions, in a sequence of runs ordered newest first, of each
\* expected standard's newest finished run.
NewestFinished(runs, expected) ==
  {i \in DOMAIN runs :
     /\ runs[i].status \in Finished
     /\ runs[i].standard \in expected
     /\ \A k \in 1..(i - 1) :
          runs[k].standard = runs[i].standard => runs[k].status \notin Finished}

Picked(runs, expected) == {runs[i] : i \in NewestFinished(runs, expected)}

\* The expected standards with no finished run among the picked ones.
NotRun(picked, expected) == expected \ {r.standard : r \in picked}

(***************************************************************************)
(* The policy: missing results come first, then the required gate, then    *)
(* the weighted average.                                                   *)
(***************************************************************************)


Weight(importance) == IF importance = "minor" THEN 1 ELSE 2

FailsTheCommit(run) == run.importance = "required" /\ run.status = "failed"

Verdict(picked, notRun) ==
  IF notRun # {} \/ \E r \in picked : r.status = "error" THEN "no_score"
  ELSE IF \E r \in picked : FailsTheCommit(r) THEN "failed"
  ELSE IF picked = {} THEN "no_score"
  ELSE "scored"

\* Mutant of Decide: a check whose runs are not all over decides already.
DecideEarly(sha, expected, picked, anyRunning) ==
  IF sha = 0 \/ expected = {} THEN Undecided
  ELSE Verdict(picked, NotRun(picked, expected))

\* What a check decides: nothing without a commit, without an expectation or
\* while a run of it is still going.
Decide(sha, expected, picked, anyRunning) ==
  IF sha = 0 \/ expected = {} \/ anyRunning THEN Undecided
  ELSE Verdict(picked, NotRun(picked, expected))

(***************************************************************************)
(* The average of a "scored" verdict.  Python's round() takes the nearest  *)
(* integer and, half way between two, the even one; halves are exact in    *)
(* binary floating point, so the quotient of two integers decides alike.   *)
(***************************************************************************)

\* Mutant of RoundHalfEven: integer division.
RoundDown(sum, total) == sum \div total

RoundHalfEven(sum, total) ==
  LET quotient == sum \div total
      twice == 2 * (sum % total)
  IN IF twice < total \/ (twice = total /\ quotient % 2 = 0)
     THEN quotient
     ELSE quotient + 1

\* The sum of F over a finite set of runs.
SumOver(F(_), runs) ==
  LET sum[rest \in SUBSET runs] ==
        IF rest = {} THEN 0
        ELSE LET r == CHOOSE r \in rest : TRUE
             IN F(r) + sum[rest \ {r}]
  IN sum[runs]

TotalWeight(picked) == SumOver(LAMBDA r : Weight(r.importance), picked)
WeightedSum(picked) == SumOver(LAMBDA r : r.score * Weight(r.importance), picked)

Average(picked) == RoundHalfEven(WeightedSum(picked), TotalWeight(picked))
=============================================================================
