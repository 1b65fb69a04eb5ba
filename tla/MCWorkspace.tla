----------------------------- MODULE MCWorkspace -----------------------------
(***************************************************************************)
(* An instance for TLC of who may act in a workspace, and on which one:    *)
(* People, who belongs to it and to the deployment; WorkspaceSession,      *)
(* which workspace a request acts on and what it is connected to.          *)
(*                                                                         *)
(* The two models share no variable, so no step of one helps or hinders a  *)
(* step of the other: a behaviour follows one of them, from its own        *)
(* initial states, and the run explores both.                              *)
(***************************************************************************)
EXTENDS People, WorkspaceSession, TLC

VARIABLE follows

Invited == [signup |-> "onboarding", invitations |-> TRUE, backOffice |-> FALSE]
Repaired == [signup |-> "approval", invitations |-> FALSE, backOffice |-> TRUE]
TwoDeployments == {Invited, Repaired}

SessionParts == {{"people"}, {"connect"}, {"repositories"}}

MCInit ==
  /\ follows \in {"people", "session"}
  /\ Init /\ SessionInit
  /\ follows = "people" \/ deployment = Invited
  /\ follows = "session" \/ parts = {"repositories"}

MCNext ==
  \/ follows = "people" /\ Next /\ UNCHANGED <<follows, sessionVars>>
  \/ follows = "session" /\ SessionNext /\ UNCHANGED <<follows, vars>>

MCSpec == MCInit /\ [][MCNext]_<<follows, vars, sessionVars>>

Symmetry == Permutations(Users) \union Permutations(Tabs)
=============================================================================
