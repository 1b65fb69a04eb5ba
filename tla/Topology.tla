------------------------------ MODULE Topology ------------------------------
(***************************************************************************)
(* What a refresh does to the architecture map: the components of a        *)
(* repository, the edges between components of the workspace, the systems  *)
(* they use, and the stacks people put components in (refresh.py,          *)
(* resolve.py, reconcile.py), and the two diagrams read from them          *)
(* (presentation/architecture.py).  When refreshes run is DependencyJobs'; *)
(* here a refresh reads the roster, then minutes later stores its answer   *)
(* in one transaction (one step), while others store theirs.               *)
(***************************************************************************)
EXTENDS Naturals, FiniteSets

CONSTANTS Projects, Stacks,
          Shapes,       \* sets of paths an inference may find, "" is the root
          Refs,         \* what it may name as another component
          Systems,      \* what it may name outside the workspace
          Datastores,   \* those of them a workspace runs itself (INFRA_TERMS)
          MaxBirths, MaxSaves, MaxEdits

Anyone == "anyone"      \* a bare name, of no repository

VARIABLES components,   \* the rows
          edges, systems, members,
          births,       \* how often a project's path became a component
          queued,       \* projects with a refresh queued
          roster,       \* what each running refresh read of the others
          last,         \* ghost: what each project's last answer named
          cut,          \* ghost: projects that lost an edge, and did not start again
          saves, edits

mapVars == <<components, edges, systems, members, births, queued, roster, last, cut, saves, edits>>

Paths == {""} \union UNION Shapes
Component(p, path, birth) == [of |-> p, path |-> path, birth |-> birth]
NotRunning == {Component(Anyone, "", 0)}
Running(p) == roster[p] # NotRunning
Of(p) == {c \in components : c.of = p}
PathsOf(p) == {c.path : c \in Of(p)}
Entry(c) == [of |-> c.of, path |-> c.path]
ComponentDependency(source, target) == [from |-> source, to |-> target]
ExternalDependency(c, name) == [of |-> c, name |-> name, kind |-> "external"]
InfrastructureComponent(c, name) == [of |-> c, name |-> name, kind |-> "infrastructure"]
StacksOf(p) == {s \in Stacks : \E c \in Of(p) : <<c, s>> \in members}

-----------------------------------------------------------------------------
(* resolve.py *)

\* resolve_ref: an exact ref; a sibling's path; a repository by its only
\* component; the one component of that name.
Resolve(ref, entries, p) ==
  LET exact == {e \in entries : e = ref}
      sibling == {e \in entries : ref.of = Anyone /\ e.of = p /\ e.path = ref.path}
      sole == {e \in entries : ref = [of |-> e.of, path |-> ""] /\ \A f \in entries : f.of = e.of => f = e}
      named == {e \in entries : ref.path # "" /\ e.path = ref.path}
  IN IF exact # {} THEN exact
     ELSE IF sibling # {} THEN sibling
     ELSE IF sole # {} THEN sole
     ELSE IF Cardinality(named) = 1 THEN named ELSE {}
Bare(name) == [of |-> Anyone, path |-> name]

Entries(p, paths) == {Entry(c) : c \in roster[p]} \union {[of |-> p, path |-> x] : x \in paths}

\* resolve_topology: the links between components, without loops, and the
\* systems that are not components; a datastore is never an external service.
Links(p, answer) ==
  {l \in UNION {{[from |-> d.from, to |-> e] : e \in Resolve(d.ref, Entries(p, answer.paths), p)} : d \in answer.deps} :
     l.to # [of |-> p, path |-> l.from]}
SystemKind(name) == IF name \in Datastores THEN "infrastructure" ELSE "external"
Outside(p, answer) ==
  {[from |-> u.from, name |-> u.name, kind |-> SystemKind(u.name)] :
     u \in {v \in answer.uses : Resolve(Bare(v.name), Entries(p, answer.paths), p) = {}}}

-----------------------------------------------------------------------------
(* reconcile.py *)

Kept(p, paths) == {c \in Of(p) : c.path \in paths}
Lost(p, paths) == Of(p) \ Kept(p, paths)
Appearing(p, paths) == {Component(p, x, births[p][x] + 1) : x \in paths \ PathsOf(p)}

\* normalise_components: a repository of one component, or of none, is its root.
Normalised(found) == IF Cardinality(found) <= 1 THEN {""} ELSE found

\* Mutant of Inherited: the stacks of what stays.
InheritedFromTheKept(p, paths) == {m[2] : m \in {n \in members : n[1] \in Kept(p, paths)}}
\* inherited_memberships: what appears takes the stacks of what disappears.
Inherited(p, paths) == {m[2] : m \in {n \in members : n[1] \in Lost(p, paths)}}

\* The other projects whose edges go with the components that go.
\* Mutant of Affected: read after the cascade.
AffectedAfterwards(p, paths) ==
  LET left == {f \in edges : f.to \notin Lost(p, paths)}
  IN {e.from.of : e \in {f \in left : f.to \in Lost(p, paths)}} \ {p}
Affected(p, paths) == {e.from.of : e \in {f \in edges : f.to \in Lost(p, paths)}} \ {p}

-----------------------------------------------------------------------------
(* A refresh *)

Queue(p) ==
  /\ p \notin queued /\ queued' = queued \union {p}
  /\ UNCHANGED <<components, edges, systems, members, births, roster, last, cut, saves, edits>>

\* workspace_roster, read when an attempt starts.
ReadRoster(p) ==
  /\ roster' = [roster EXCEPT ![p] = components \ Of(p)]
  /\ cut' = cut \ {p}
Start(p) ==
  /\ p \in queued /\ ~Running(p) /\ saves < MaxSaves
  /\ ReadRoster(p) /\ queued' = queued \ {p}
  /\ UNCHANGED <<components, edges, systems, members, births, last, saves, edits>>

\* The provider failed, the answer was not grounded in the repository
\* (check_evidence), or the transaction below was refused.
Retry(p) ==
  /\ Running(p) /\ ReadRoster(p)
  /\ UNCHANGED <<components, edges, systems, members, births, queued, last, saves, edits>>
GiveUp(p) ==
  /\ Running(p) /\ roster' = [roster EXCEPT ![p] = NotRunning]
  /\ UNCHANGED <<components, edges, systems, members, births, queued, last, cut, saves, edits>>

\* component_for: another project's component by the id the roster gave, a
\* sibling by its path.
ComponentFor(p, entry, mine) == CHOOSE c \in roster[p] \union mine : Entry(c) = entry
\* Mutant of OldEdges: only those of the components that go.
EdgesOfTheLost(p, paths) == {e \in edges : e.from \in Lost(p, paths)}
OldEdges(p, paths) == {e \in edges : e.from.of = p}

Save(p, answer) ==
  LET paths == answer.paths
      mine == Kept(p, paths) \union Appearing(p, paths)
      At(path) == CHOOSE c \in mine : c.path = path
      new == {ComponentDependency(At(l.from), ComponentFor(p, l.to, mine)) : l \in Links(p, answer)}
      outside == Outside(p, answer)
      affected == Affected(p, paths)
  IN /\ Running(p)
     /\ \A x \in paths \ PathsOf(p) : births[p][x] < MaxBirths
     /\ \A e \in new : e.to \in components \union mine      \* its foreign key
     /\ components' = (components \ Lost(p, paths)) \union mine
     /\ births' = [births EXCEPT ![p] = [x \in Paths |-> IF x \in paths \ PathsOf(p) THEN @[x] + 1 ELSE @[x]]]
     /\ edges' = {e \in edges \ OldEdges(p, paths) : e.to \notin Lost(p, paths)} \union new
     /\ systems' = {s \in systems : s.of.of # p}
                   \union {ExternalDependency(At(o.from), o.name) : o \in {x \in outside : x.kind = "external"}}
                   \union {InfrastructureComponent(At(o.from), o.name) : o \in {x \in outside : x.kind = "infrastructure"}}
     /\ members' = {m \in members : m[1] \notin Lost(p, paths)}
                   \union {<<c, s>> : c \in Appearing(p, paths), s \in Inherited(p, paths)}
     /\ queued' = queued \union affected
     /\ cut' = cut \union ({e.from.of : e \in {f \in edges : f.to \in Lost(p, paths)}} \ {p})
     /\ last' = [last EXCEPT ![p] = Links(p, answer)]
     /\ roster' = [roster EXCEPT ![p] = NotRunning]
     /\ saves' = saves + 1
     /\ UNCHANGED edits

-----------------------------------------------------------------------------
(* Stacks *)

\* add_component_to_stack and remove_component_from_stack, which a form for a
\* whole stack calls one by one.  An addition queues a refresh of the project.
AddToStack(c, s) ==
  /\ edits < MaxEdits /\ edits' = edits + 1
  /\ <<c, s>> \notin members /\ members' = members \union {<<c, s>>}
  /\ queued' = queued \union {c.of}
  /\ UNCHANGED <<components, edges, systems, births, roster, last, cut, saves>>
RemoveFromStack(c, s) ==
  /\ edits < MaxEdits /\ edits' = edits + 1
  /\ <<c, s>> \in members /\ members' = members \ {<<c, s>>}
  /\ UNCHANGED <<components, edges, systems, births, queued, roster, last, cut, saves>>
DeleteStack(s) ==
  /\ edits < MaxEdits /\ edits' = edits + 1
  /\ \E m \in members : m[2] = s
  /\ members' = {m \in members : m[2] # s}
  /\ UNCHANGED <<components, edges, systems, births, queued, roster, last, cut, saves>>

-----------------------------------------------------------------------------
(* The diagrams *)

Members(s) == {c \in components : <<c, s>> \in members}

\* workspace_graph: an edge from the stacks of a component to the stacks of
\* what it depends on.
WorkspaceGraph == {st \in Stacks \X Stacks : st[1] # st[2] /\ \E e \in edges : e.from \in Members(st[1]) /\ e.to \in Members(st[2])}

\* stack_graph: what touches a stack, by the side of its boundary.
LineKind(e, s) ==
  IF e.from \in Members(s) THEN IF e.to \in Members(s) THEN "internal" ELSE "consuming" ELSE "public"
StackGraph(s) == {[kind |-> LineKind(e, s), edge |-> e] : e \in {f \in edges : f.from \in Members(s) \/ f.to \in Members(s)}}

-----------------------------------------------------------------------------
\* What the model may answer: the components it found, and for one of them one
\* other component or one system.
Answers ==
  UNION {{[paths |-> s, deps |-> {}, uses |-> {}]}
         \union {[paths |-> s, deps |-> {[from |-> x, ref |-> r]}, uses |-> {}] : x \in s, r \in Refs}
         \union {[paths |-> s, deps |-> {}, uses |-> {[from |-> x, name |-> n]}] : x \in s, n \in Systems} :
           s \in {Normalised(found) : found \in Shapes}}

MapInit ==
  /\ components = {Component(p, "", 1) : p \in Projects}
  /\ births = [p \in Projects |-> [x \in Paths |-> IF x = "" THEN 1 ELSE 0]]
  /\ edges = {} /\ systems = {}
  /\ members = {}
  /\ queued = Projects
  /\ roster = [p \in Projects |-> NotRunning]
  /\ last = [p \in Projects |-> {}]
  /\ cut = {} /\ saves = 0 /\ edits = 0

MapNext ==
  \/ \E p \in Projects :
       \/ Queue(p) \/ Start(p) \/ Retry(p) \/ GiveUp(p)
       \/ \E a \in Answers : Save(p, a)
  \/ \E s \in Stacks : DeleteStack(s) \/ \E c \in components : AddToStack(c, s) \/ RemoveFromStack(c, s)

MapSpec == MapInit /\ [][MapNext]_mapVars

-----------------------------------------------------------------------------
(* Properties *)

\* "This repo is in Storefront": whatever an inference makes of a repository,
\* while its components change shape it stays in the stacks it was in.
StacksAreKept ==
  [][\A p \in Projects :
       PathsOf(p) \ PathsOf(p)' # {} /\ PathsOf(p)' \ PathsOf(p) # {} => StacksOf(p) \subseteq StacksOf(p)']_mapVars

\* A project whose edges went with another's components has a refresh queued
\* that starts after, however the refreshes interleave.
CutProjectsAreMappedAgain == cut \subseteq queued

\* A project's edges are those its last answer named, none left of an older
\* one and none to another component than the roster meant; only the ones
\* another project's refresh cut are missing.
MapIsTheLastAnswer ==
  \A p \in Projects :
    LET drawn == {[from |-> e.from.path, to |-> Entry(e.to)] : e \in {f \in edges : f.from.of = p}}
    IN drawn \subseteq last[p] /\ (drawn # last[p] => \E l \in last[p] : l.to.of # p)

\* What the dashboard shows between two stacks, each of the two stacks' own
\* diagrams shows too, and the other way round.
GraphsAgree ==
  \A s, t \in Stacks : s # t =>
    LET between == <<s, t>> \in WorkspaceGraph
    IN /\ between <=> \E l \in StackGraph(s) : l.kind \in {"internal", "consuming"} /\ l.edge.to \in Members(t)
       /\ between <=> \E l \in StackGraph(t) : l.kind \in {"internal", "public"} /\ l.edge.from \in Members(s)
=============================================================================
