----------------------------- MODULE MCTopology -----------------------------
(* Instances of Topology for TLC. *)
EXTENDS Topology, TLC
CONSTANTS p1, p2, s1, s2
TwoProjects == {p1, p2}
TwoStacks == {s1, s2}
RootOrParts == {{}, {"a"}, {"", "a"}, {"a", "b"}}
SomeRefs == [of : TwoProjects, path : {""}] \union {Bare("a")}
SomeSystems == {"redis", "a"}
JustRedis == {"redis"}
Symmetry == Permutations(TwoProjects) \union Permutations(TwoStacks)
=============================================================================
