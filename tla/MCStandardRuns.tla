--------------------------- MODULE MCStandardRuns ---------------------------
(***************************************************************************)
(* Instances of StandardRuns for TLC.  s1 is Required, s2 Minor; both read *)
(* main by default, and s2 applies to main only.                           *)
(***************************************************************************)
EXTENDS StandardRuns, TLC

CONSTANTS s1, s2, main, release, w1, w2

OneBranch == {main}
TwoBranches == {main, release}
OneBranchFilter == [s \in Standards |-> {main}]
TwoBranchFilter == [s \in Standards |-> IF s = s1 THEN {main, release} ELSE {main}]
ReadsMain == [s \in Standards |-> main]
ReadsEither == [s \in Standards |-> IF s = s1 THEN release ELSE main]
RequiredAndMinor == [s \in Standards |-> IF s = s1 THEN "required" ELSE "minor"]

PassOrFail == {"passed", "failed"}
OnlyPass == {"passed"}

NoFaults == [f \in Faults |-> 0]
OneCrash == [NoFaults EXCEPT !["crash"] = 1]
CrashAndDatabase == [OneCrash EXCEPT !["database"] = 1]
OneSilence == [NoFaults EXCEPT !["silence"] = 1]
CrashDatabaseSweep == [CrashAndDatabase EXCEPT !["sweep"] = 1]

RunnerSymmetry == Permutations(Runners)
=============================================================================
