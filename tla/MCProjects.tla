----------------------------- MODULE MCProjects -----------------------------
(* Instances of Projects for TLC. *)
EXTENDS Projects
CONSTANTS w1, w2, p1, p2, s1, s2
TwoWorkspaces == {w1, w2}
TwoArtifacts == {p1, p2}
TwoShas == {s1, s2}
EverythingFollowed == {"hooks", "lists", "uploads"}
Symmetry == Permutations(TwoArtifacts) \union Permutations(TwoShas) \union Permutations(TwoWorkspaces)
=============================================================================
