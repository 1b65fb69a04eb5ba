------------------------------- MODULE MCCli -------------------------------
(* Instances of Cli for TLC: s1 is Required, s2 Minor. *)
EXTENDS Cli, TLC

CONSTANTS s1, s2

RequiredAndMinor == [s \in Standards |-> IF s = s1 THEN "required" ELSE "minor"]
Under80 == [p \in Pipelines |-> 80]

CliSymmetry == Permutations(Hosts) \cup Permutations(Shells) \cup Permutations(Staff)
               \cup Permutations(Workspaces) \cup Permutations(Pipelines)
=============================================================================
