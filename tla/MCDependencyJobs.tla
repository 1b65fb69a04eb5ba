-------------------------- MODULE MCDependencyJobs --------------------------
(***************************************************************************)
(* Instances of DependencyJobs for TLC.                                    *)
(***************************************************************************)
EXTENDS DependencyJobs, TLC

NoFaults == [f \in Faults |-> 0]
OneCrash == [NoFaults EXCEPT !["crash"] = 1]
AnyDeath == [OneCrash EXCEPT !["announce"] = 1, !["recovery"] = 1]
EveryWorkerFault == [f \in Faults |-> IF f \in {"recovery", "announce"} THEN 0 ELSE 1]

RunnerSymmetry == Permutations(Runners)
=============================================================================
