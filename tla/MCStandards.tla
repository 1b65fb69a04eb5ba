---------------------------- MODULE MCStandards ----------------------------
(* Instances of Standards for TLC. *)
EXTENDS Standards

\* A definition, and the same code with criteria that match nothing, and
\* code that defines no evaluate(project).
A == [code |-> "a", criteria |-> "applies"]
SomeContents == {A, [A EXCEPT !.criteria = "other"], [A EXCEPT !.code = "broken"]}
\* The marketplace's standard, and its next version.
TwoVersions == <<A, [A EXCEPT !.code = "b"]>>
Symmetry == Permutations(Stds)
=============================================================================
