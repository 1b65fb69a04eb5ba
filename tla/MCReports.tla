------------------------------ MODULE MCReports ------------------------------
(***************************************************************************)
(* An instance for TLC of what people are shown of runs that are over:     *)
(* CheckRuns, the score of one check; Notifications, the heads that checks *)
(* give branches and what is told of them.                                 *)
(*                                                                         *)
(* The two models share no variable, so no step of one helps or hinders a  *)
(* step of the other: a behaviour follows one of them, from its own        *)
(* initial states, and the run explores both.                              *)
(***************************************************************************)
EXTENDS CheckRuns, Notifications, TLC

CONSTANTS ann, bob

VARIABLE follows

TwoPeople == {ann, bob}
Main == {"main"}
ThreeOutcomes == {NoScore, FailedScore, [value |-> 100, failed |-> FALSE]}

MCInit ==
  /\ follows \in {"scores", "notifications"}
  /\ Init /\ NotifyInit
  /\ follows = "scores" \/ expected = {}
  /\ follows = "notifications" \/ use = "people"

MCNext ==
  \/ follows = "scores" /\ Next /\ UNCHANGED <<follows, notifyVars>>
  \/ follows = "notifications" /\ NotifyNext /\ UNCHANGED <<follows, vars>>

MCSpec == MCInit /\ [][MCNext]_<<follows, vars, notifyVars>>

Symmetry == Permutations(TwoPeople)
=============================================================================
