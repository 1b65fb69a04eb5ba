------------------------------ MODULE Projects ------------------------------
(***************************************************************************)
(* The projects of one repository and what keeps them in step with the     *)
(* platform: the webhook each workspace registers (project_management.py), *)
(* the deliveries a push makes (base_webhook.py), the branch and commit    *)
(* lists cached between them (commit_checks.py); and artifact projects,    *)
(* whose commits are uploaded archives (artifact_service.py).              *)
(*                                                                         *)
(* A request that talks to the platform or to the storage is a member of   *)
(* tasks between two of its steps; nothing locks the project.              *)
(***************************************************************************)
EXTENDS Naturals, FiniteSets, TLC

CONSTANTS Workspaces,     \* each has the repository as a project, or not
          Artifacts, Shas,        \* artifact projects and archives
          MaxHooks, MaxPushes, MaxTasks,
          Uses            \* what is followed: "hooks", "lists" or "uploads"

ASSUME ProjectsAssumption ==
  /\ IsFiniteSet(Workspaces)
  /\ Uses \subseteq {"hooks", "lists", "uploads"}
  /\ {MaxHooks, MaxPushes, MaxTasks} \subseteq Nat

VARIABLES setting,     \* fixed: what is followed, who connects by the GitHub App,
                       \* and whose pages are opened
          connected,   \* workspaces with a connection
          project,     \* the rows: webhook_id and its webhook_secret, one number
          hooks,       \* what the platform will call, each with its own secret
          made,        \* hooks ever made
          pushes, deliveries,
          due,         \* ghost: pushes each project is yet to hear of
          gen, cache,  \* the generation and the lists stored under each
          handled,     \* ghost: the last push whose webhook was answered
          rows, commits, archives, erase,   \* artifact projects and the storage
          tasks,
          left,        \* ghost: hooks left behind
          failed,      \* ghost: workspaces whose registration failed
          overlap      \* ghost: two deliveries were handled at once

hookVars == <<connected, project, hooks, made>>
pushVars == <<pushes, deliveries, due>>
listVars == <<gen, cache, handled>>
artVars == <<rows, commits, archives, erase>>
excused == <<left, failed, overlap>>
vars == <<setting, hookVars, pushVars, listVars, artVars, tasks, excused>>

NoProject == [is |-> FALSE, hook |-> 0]
use == setting.use
AppWorkspaces == setting.app
Added == {w \in Workspaces : project[w].is}

Idle(t) == t \notin tasks /\ Cardinality(tasks) < MaxTasks
Busy(w) == \E t \in tasks : t.kind \in {"register", "delete"} /\ t.who = w
Move(t, u) == tasks' = (tasks \ {t}) \union {u}
End(t) == tasks' = tasks \ {t}
Excuse(hs, ws) == left' = left \union hs /\ failed' = failed \union ws /\ UNCHANGED overlap
HookOf(w) == {project[w].hook} \ {0}

-----------------------------------------------------------------------------
(* Registering and removing webhooks *)

HookTask(kind, w) == [kind |-> kind, who |-> w, stage |-> "drop", old |-> project[w].hook, new |-> 0]

\* A request that meets another one on the same project is excused, with the
\* hooks both know of.
BeginHook(kind, w) ==
  /\ Idle(HookTask(kind, w))
  /\ tasks' = tasks \union {HookTask(kind, w)}
  /\ IF Busy(w)
     THEN Excuse(HookOf(w) \union UNION {{t.old, t.new} : t \in {x \in tasks : x.who = w}}, {w})
     ELSE UNCHANGED excused

\* add_project, up to register_webhook; a GitHub App needs no webhook.  Bound:
\* not while a request for the row before is in flight.
AddProject(w) ==
  /\ use = "hooks" /\ w \in connected \ Added /\ ~Busy(w)
  /\ project' = [project EXCEPT ![w] = [is |-> TRUE, hook |-> 0]]
  /\ IF w \in AppWorkspaces
     THEN UNCHANGED tasks
     ELSE LET t == [HookTask("register", w) EXCEPT !.old = 0, !.stage = "create"]
          IN Idle(t) /\ tasks' = tasks \union {t}
  /\ UNCHANGED <<excused, setting, connected, hooks, made, pushVars, listVars, artVars>>

RetryWebhook(w) ==
  /\ use = "hooks" /\ w \in Added
  /\ BeginHook("register", w)
  /\ UNCHANGED <<setting, hookVars, pushVars, listVars, artVars>>
DeleteProject(w) ==
  /\ use = "hooks" /\ w \in Added
  /\ BeginHook("delete", w)
  /\ UNCHANGED <<setting, hookVars, pushVars, listVars, artVars>>

\* The old hook is deleted; a platform that refuses is not noticed.
DropOld(t) ==
  /\ t.kind \in {"register", "delete"} /\ t.stage = "drop"
  /\ \/ hooks' = hooks \ {t.old} /\ UNCHANGED excused
     \/ t.old # 0 /\ UNCHANGED hooks /\ Excuse({t.old}, {})
  /\ Move(t, [t EXCEPT !.stage = IF t.kind = "register" THEN "create" ELSE "remove"])
  /\ UNCHANGED <<setting, connected, project, made, pushVars, listVars, artVars>>

\* create_webhook raises: the dead hook's id stays on the project.
CreateHook(t) ==
  /\ t.kind = "register" /\ t.stage = "create"
  /\ \/ /\ made < MaxHooks
        /\ made' = made + 1 /\ hooks' = hooks \union {made + 1}
        /\ Move(t, [t EXCEPT !.stage = "save", !.new = made + 1])
        /\ Excuse(IF t.who \in failed THEN {made + 1} ELSE {}, {})
     \/ /\ End(t) /\ Excuse({}, {t.who})
        /\ UNCHANGED <<made, hooks>>
  /\ UNCHANGED <<setting, connected, project, pushVars, listVars, artVars>>

\* Mutant of SaveHook: the old hook is deleted last, by the id just saved.
SaveThenDrop(t) ==
  /\ project' = [project EXCEPT ![t.who].hook = t.new]
  /\ hooks' = hooks \ {t.new}
SaveHook(t) ==
  /\ project' = [project EXCEPT ![t.who].hook = t.new]
  /\ UNCHANGED hooks

Registered(t) ==
  /\ t.kind = "register" /\ t.stage = "save"
  /\ IF project[t.who].is
     THEN /\ SaveHook(t) /\ UNCHANGED <<left, overlap>>
          /\ failed' = IF Cardinality({x \in tasks : x.kind \in {"register", "delete"} /\ x.who = t.who}) = 1
                       THEN failed \ {t.who} ELSE failed
     ELSE UNCHANGED <<project, hooks>> /\ Excuse({t.new}, {})
  /\ due' = [due EXCEPT ![t.who] = {}]
  /\ End(t)
  /\ UNCHANGED <<setting, connected, made, pushes, deliveries, listVars, artVars>>

Removed(w) ==
  /\ project' = [project EXCEPT ![w] = NoProject]
  /\ due' = [due EXCEPT ![w] = {}]
RemoveRow(t) ==
  /\ t.kind = "delete" /\ t.stage = "remove"
  /\ Removed(t.who)
  /\ End(t)
  /\ UNCHANGED <<setting, connected, hooks, made, pushes, deliveries, listVars, artVars, excused>>

\* The process is stopped between two steps.
Stop(t) ==
  /\ t.kind \in {"register", "delete"}
  /\ End(t) /\ Excuse({t.old, t.new}, {t.who})
  /\ UNCHANGED <<setting, hookVars, pushVars, listVars, artVars>>

AddConnection(w) ==
  /\ use = "hooks" /\ w \notin connected
  /\ connected' = connected \union {w}
  /\ UNCHANGED <<setting, project, hooks, made, pushVars, listVars, artVars, tasks, excused>>

\* Its projects go with the row; their hooks stay on the platform.
RemoveConnection(w) ==
  /\ use = "hooks" /\ w \in connected
  /\ connected' = connected \ {w}
  /\ Removed(w) /\ Excuse(HookOf(w), {})
  /\ UNCHANGED <<setting, hooks, made, pushes, deliveries, listVars, artVars, tasks>>

-----------------------------------------------------------------------------
(* Pushes and deliveries *)

\* Every hook, and the App for each installation, is called once.
ByHook(h) == [push |-> pushes + 1, hook |-> h, of |-> {}]
ByApp(w) == [push |-> pushes + 1, hook |-> 0, of |-> {w}]
Hears(w) == IF w \in AppWorkspaces THEN w \in Added ELSE HookOf(w) \intersect hooks # {}
Push ==
  /\ use # "uploads" /\ pushes < (IF use = "hooks" THEN 1 ELSE MaxPushes)
  /\ pushes' = pushes + 1
  /\ deliveries' = deliveries \union
       {ByHook(h) : h \in hooks} \union {ByApp(w) : w \in AppWorkspaces \intersect connected}
  /\ due' = [w \in Workspaces |-> IF Hears(w) THEN due[w] \union {pushes + 1} ELSE due[w]]
  /\ UNCHANGED <<setting, hookVars, listVars, artVars, tasks, excused>>

\* Mutant of VerifySignature: only one project's secret is tried.
FirstSecret(d) ==
  LET secrets == UNION {HookOf(w) : w \in Added}
  IN secrets # {} => d.hook = CHOOSE s \in secrets : \A x \in secrets : s <= x

\* Any project of the repository may have the secret; without any secret the
\* delivery is taken as it is.
VerifySignature(d) ==
  LET secrets == UNION {HookOf(w) : w \in Added}
  IN secrets # {} => d.hook \in secrets

\* resolve_projects: an App delivery is for its installation's projects.
ResolveProjects(d) == IF d.hook = 0 THEN Added \intersect d.of ELSE Added

\* What the request has read of the generations (one at a time in the code;
\* there is one project where they matter).
Receive(d) ==
  LET t == [kind |-> "event", who |-> ResolveProjects(d), push |-> d.push,
            seen |-> [w \in ResolveProjects(d) |-> gen[w]]]
  IN /\ d \in deliveries
     /\ d.hook = 0 \/ VerifySignature(d)
     /\ Idle(t) /\ tasks' = tasks \union {t}
     /\ deliveries' = deliveries \ {d}
     /\ overlap' = (overlap \/ \E o \in tasks : o.kind = "event")
     /\ UNCHANGED <<left, failed, setting, hookVars, pushes, due, listVars, artVars>>
Reject(d) ==
  /\ d \in deliveries /\ d.hook # 0 /\ ~VerifySignature(d)
  /\ deliveries' = deliveries \ {d}
  /\ UNCHANGED <<setting, hookVars, pushes, due, listVars, artVars, tasks, excused>>

\* The generation after the one read (0 is no generation, 1 the first); none
\* of its lists is read again.
\* Mutant of Forget: what is stored is dropped, the generation kept.
DropLists(t) ==
  /\ cache' = [w \in Workspaces |-> IF w \in t.who THEN [g \in {} |-> 0] ELSE cache[w]]
  /\ gen' = gen
Forget(t) ==
  /\ gen' = [w \in Workspaces |-> IF w \notin t.who \intersect setting.page THEN gen[w]
                                  ELSE IF t.seen[w] = 0 THEN 2 ELSE t.seen[w] + 1]
  /\ cache' = cache

\* forget_platform_lists, then enqueue_for_event for each project; the lists
\* are followed only where pages read them.
Handle(t) ==
  /\ t.kind = "event"
  /\ due' = [w \in Workspaces |-> IF w \in t.who THEN due[w] \ {t.push} ELSE due[w]]
  /\ IF use = "lists"
     THEN /\ Forget(t)
          /\ handled' = [w \in Workspaces |-> IF w \in t.who \intersect setting.page /\ t.push > handled[w] THEN t.push ELSE handled[w]]
     ELSE UNCHANGED listVars
  /\ End(t)
  /\ UNCHANGED <<setting, hookVars, pushes, deliveries, artVars, excused>>

-----------------------------------------------------------------------------
(* The lists a project page shows *)

\* _cached: get_or_set the generation, look under it, else ask the platform.
OpenHistory(w) ==
  LET g == IF gen[w] = 0 THEN 1 ELSE gen[w]
      hit == g \in DOMAIN cache[w]
      t == [kind |-> "page", who |-> w, floor |-> handled[w], gen |-> g,
            stage |-> IF hit THEN "show" ELSE "ask", list |-> IF hit THEN cache[w][g] ELSE 0]
  IN /\ w \in Added \intersect setting.page
     /\ Idle(t) /\ tasks' = tasks \union {t}
     /\ gen' = [gen EXCEPT ![w] = g]
     /\ UNCHANGED <<setting, hookVars, pushVars, cache, handled, artVars, excused>>
\* The commits the platform lists: those pushed by now.
ListCommits == pushes
AskPlatform(t) ==
  /\ t.kind = "page" /\ t.stage = "ask"
  /\ \/ Move(t, [t EXCEPT !.stage = "store", !.list = ListCommits])
     \/ End(t)    \* unreachable: what GitGrit recorded is shown, never cached
  /\ UNCHANGED <<setting, hookVars, pushVars, listVars, artVars, excused>>
Store(t) ==
  /\ t.kind = "page" /\ t.stage = "store"
  /\ cache' = [cache EXCEPT ![t.who] = [g \in DOMAIN @ \union {t.gen} |->
                                          IF g = t.gen THEN t.list ELSE @[g]]]
  /\ Move(t, [t EXCEPT !.stage = "show"])
  /\ UNCHANGED <<setting, hookVars, pushVars, gen, handled, artVars, excused>>
Show(t) ==
  /\ t.kind = "page" /\ t.stage = "show" /\ End(t)
  /\ UNCHANGED <<setting, hookVars, pushVars, listVars, artVars, excused>>

\* PLATFORM_LISTS_TTL; the generation outlives what was stored under it: it is
\* kept for ever, or for 300 s by incr.
Expire(w) ==
  /\ cache[w] # <<>>
  /\ \E g \in DOMAIN cache[w] : cache' = [cache EXCEPT ![w] = [x \in DOMAIN @ \ {g} |-> @[x]]]
  /\ UNCHANGED <<setting, hookVars, pushVars, gen, handled, artVars, tasks, excused>>
ExpireGeneration(w) ==
  /\ gen[w] > 1 /\ cache[w] = <<>>
  /\ \A t \in tasks : t.kind = "page" => t.who # w
  /\ \A t \in tasks : t.kind = "event" => w \notin t.who
  /\ gen' = [gen EXCEPT ![w] = 0]
  /\ UNCHANGED <<setting, hookVars, pushVars, cache, handled, artVars, tasks, excused>>

-----------------------------------------------------------------------------
(* Artifact projects *)

\* Mutant of ArchiveKey: keyed by content alone.
ShaKey(p, s) == s
ArchiveKey(p, s) == <<p, s>>
ArtifactCommit(p, s) == <<p, s>>

CreateArtifactProject(p) ==
  /\ use = "uploads" /\ rows[p] = "none"
  /\ rows' = [rows EXCEPT ![p] = "there"]
  /\ UNCHANGED <<setting, hookVars, pushVars, listVars, commits, archives, erase, tasks, excused>>

\* upload_commit: scan (an archive it refuses goes no further), store, then
\* record the commit and queue its runs.
UploadCommit(p, s) ==
  LET t == [kind |-> "upload", who |-> p, sha |-> s, stage |-> "store"]
  IN /\ use = "uploads" /\ rows[p] = "there"
     /\ Idle(t) /\ tasks' = tasks \union {t}
     /\ UNCHANGED <<setting, hookVars, pushVars, listVars, artVars, excused>>
SaveArchive(t) ==
  /\ t.kind = "upload" /\ t.stage = "store"
  /\ archives' = archives \union {ArchiveKey(t.who, t.sha)}
  /\ Move(t, [t EXCEPT !.stage = "record"])
  /\ UNCHANGED <<setting, hookVars, pushVars, listVars, rows, commits, erase, excused>>
RecordCommit(t) ==
  /\ t.kind = "upload" /\ t.stage = "record"
  /\ commits' = IF rows[t.who] = "there" THEN commits \union {ArtifactCommit(t.who, t.sha)} ELSE commits
  /\ End(t)
  /\ UNCHANGED <<setting, hookVars, pushVars, listVars, rows, archives, erase, excused>>

\* Its commits go with the project, and after the commit their archives; a
\* failure to delete one, or a process stopped before, leaves it.
DeleteArtifactProject(p) ==
  /\ use = "uploads" /\ rows[p] = "there"
  /\ rows' = [rows EXCEPT ![p] = "gone"]
  /\ commits' = {c \in commits : c[1] # p}
  /\ erase' = erase \union {ArchiveKey(c[1], c[2]) : c \in {x \in commits : x[1] = p}}
  /\ UNCHANGED <<setting, hookVars, pushVars, listVars, archives, tasks, excused>>
DeleteArchive(k) ==
  /\ k \in erase
  /\ erase' = erase \ {k}
  /\ archives' \in {archives \ {k}, archives}
  /\ UNCHANGED <<setting, hookVars, pushVars, listVars, rows, commits, tasks, excused>>

-----------------------------------------------------------------------------
\* Nothing added yet ("hooks"); or every workspace has the project, by a hook of
\* its own or by the App ("lists").
Init ==
  /\ setting \in {[use |-> u, app |-> {}, page |-> {}] : u \in Uses \ {"lists"}}
                \union {[use |-> u, app |-> a, page |-> {w}] :
                           u \in Uses \intersect {"lists"}, a \in SUBSET Workspaces, w \in Workspaces}
  /\ pushes = 0 /\ deliveries = {} /\ due = [w \in Workspaces |-> {}]
  /\ gen = [w \in Workspaces |-> 0] /\ cache = [w \in Workspaces |-> <<>>]
  /\ handled = [w \in Workspaces |-> 0]
  /\ rows = [p \in Artifacts |-> "none"] /\ commits = {} /\ archives = {} /\ erase = {}
  /\ tasks = {} /\ left = {} /\ failed = {} /\ overlap = FALSE
  /\ connected = Workspaces
  /\ IF use = "lists"
     THEN \E hook \in [Workspaces -> 0 .. Cardinality(Workspaces)] :
            /\ \A w, x \in Workspaces : hook[w] = hook[x] => w = x \/ hook[w] = 0
            /\ \A w \in Workspaces : hook[w] = 0 <=> w \in AppWorkspaces
            /\ hooks = {hook[w] : w \in Workspaces} \ {0} /\ made = Cardinality(Workspaces)
            /\ project = [w \in Workspaces |-> [is |-> TRUE, hook |-> hook[w]]]
     ELSE made = 0 /\ hooks = {} /\ project = [w \in Workspaces |-> NoProject]

Next ==
  \/ \E w \in Workspaces :
       \/ AddConnection(w) \/ RemoveConnection(w)
       \/ AddProject(w) \/ RetryWebhook(w) \/ DeleteProject(w)
       \/ OpenHistory(w) \/ Expire(w) \/ ExpireGeneration(w)
  \/ Push
  \/ \E d \in deliveries : Receive(d) \/ Reject(d)
  \/ \E p \in Artifacts :
       \/ CreateArtifactProject(p) \/ DeleteArtifactProject(p)
       \/ \E s \in Shas : UploadCommit(p, s)
  \/ \E k \in erase : DeleteArchive(k)
  \/ \E t \in tasks :
       \/ DropOld(t) \/ CreateHook(t) \/ Registered(t) \/ RemoveRow(t) \/ Stop(t)
       \/ Handle(t) \/ AskPlatform(t) \/ Store(t) \/ Show(t)
       \/ SaveArchive(t) \/ RecordCommit(t)

Spec == Init /\ [][Next]_vars

-----------------------------------------------------------------------------
(* Properties *)

\* The platform and the rows agree on webhooks: a project's saved webhook is
\* there to be called, and every webhook there belongs to a project or to a
\* request at work on it.  Left out: hooks whose deletion the platform refused,
\* or whose connection was removed; projects whose registration failed, was
\* stopped, or met another one.
HooksMatchProjects ==
  /\ \A w \in Added \ failed : Busy(w) \/ HookOf(w) \subseteq hooks
  /\ \A h \in hooks \ left :
       \/ \E w \in Workspaces : project[w].hook = h
       \/ \E t \in tasks : t.kind \in {"register", "delete"} /\ h \in {t.old, t.new}

\* A push is never missed: a project that hears of pushes has had it, or the
\* delivery that will bring it is still to come or being handled, whichever
\* workspaces share the repository and in whatever order deliveries come.
PushesArrive ==
  \A w \in Workspaces : \A n \in due[w] :
    \/ \E d \in deliveries : d.push = n /\ (d.hook \in HookOf(w) \/ w \in d.of)
    \/ \E t \in tasks : t.kind = "event" /\ t.push = n /\ w \in t.who

\* A page opened after a push's webhook was answered shows the push (the cache
\* is cleared by it), even if lists asked for before it are stored after it.
\* Not so when two webhooks of the project overlap: incr is a get and a set.
AnsweredPushesShow ==
  \A t \in tasks : t.kind = "page" /\ t.stage = "show" /\ ~overlap => t.list >= t.floor

\* Every uploaded commit has its archive, whatever is uploaded again, deleted,
\* or stopped half-way.
CommitsHaveTheirArchive ==
  \A c \in commits : ArchiveKey(c[1], c[2]) \in archives
=============================================================================
