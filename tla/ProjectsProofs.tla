--------------------------- MODULE ProjectsProofs ---------------------------
(***************************************************************************)
(* Proofs about Projects, for any number of workspaces, hooks, pushes,     *)
(* archives and requests under way: every uploaded commit has its archive, *)
(* a page opened after a push's webhook was answered shows the push, a     *)
(* push reaches every project that hears of pushes, and the webhooks of    *)
(* the platform and of the rows agree.                                     *)
(***************************************************************************)
EXTENDS Projects, TLAPS, FiniteSetTheorems

-----------------------------------------------------------------------------
(* What the requests under way hold *)

HookTasks == [kind : {"register", "delete"}, who : Workspaces,
              stage : {"drop", "create", "save", "remove"}, old : Nat, new : Nat]
PageTasks == [kind : {"page"}, who : Workspaces, floor : Nat, gen : Nat,
              stage : {"show", "ask", "store"}, list : Nat]
UploadTasks == [kind : {"upload"}, who : Artifacts, sha : Shas, stage : {"store", "record"}]
IsEvent(t) ==
  /\ t = [kind |-> "event", who |-> t.who, push |-> t.push, seen |-> t.seen]
  /\ t.who \subseteq Workspaces /\ t.push \in Nat
  /\ \A w \in t.who : t.seen[w] \in Nat
TaskOK(t) == t \in HookTasks \/ t \in PageTasks \/ t \in UploadTasks \/ IsEvent(t)

TypeInv ==
  /\ IsFiniteSet(tasks) /\ \A t \in tasks : TaskOK(t)
  /\ connected \subseteq Workspaces
  /\ project \in [Workspaces -> [is : BOOLEAN, hook : Nat]]
  /\ made \in Nat /\ pushes \in Nat
  /\ \A d \in deliveries : d \in [push : Nat, hook : Nat, of : SUBSET Workspaces]
  /\ hooks \subseteq Nat
  /\ gen \in [Workspaces -> Nat] /\ handled \in [Workspaces -> Nat]
  /\ cache = [w \in Workspaces |-> cache[w]]
  /\ \A w \in Workspaces : cache[w] \in [DOMAIN cache[w] -> Nat] /\ DOMAIN cache[w] \subseteq Nat

\* One request more, one less, or one that went on.
TasksGoOn(t, u) == tasks' \in {tasks, tasks \cup {u}, tasks \ {t}, (tasks \ {t}) \cup {u}}

LEMMA TasksKept ==
  ASSUME TypeInv, NEW t, NEW u, TaskOK(u), TasksGoOn(t, u)
  PROVE  IsFiniteSet(tasks') /\ \A x \in tasks' : TaskOK(x)
<1>1. IsFiniteSet(tasks \cup {u}) /\ IsFiniteSet(tasks \ {t}) /\ IsFiniteSet((tasks \ {t}) \cup {u})
  BY FS_AddElement, FS_RemoveElement DEF TypeInv
<1>. QED
  BY <1>1 DEF TypeInv, TasksGoOn

\* A request that ends.
LEMMA TasksEnd ==
  ASSUME TypeInv, NEW t \in tasks, End(t)
  PROVE  IsFiniteSet(tasks') /\ \A x \in tasks' : TaskOK(x)
BY TasksKept DEF TypeInv, End, TasksGoOn

HookStep(t) == DropOld(t) \/ CreateHook(t) \/ Registered(t) \/ RemoveRow(t) \/ Stop(t)

LEMMA HookTaskOK ==
  ASSUME TypeInv, NEW t \in tasks, t.kind \in {"register", "delete"}
  PROVE  t \in HookTasks
BY DEF TypeInv, TaskOK, HookTasks, PageTasks, UploadTasks, IsEvent

LEMMA PageTaskOK ==
  ASSUME TypeInv, NEW t \in tasks, t.kind = "page"
  PROVE  t \in PageTasks
BY DEF TypeInv, TaskOK, HookTasks, PageTasks, UploadTasks, IsEvent

LEMMA UploadTaskOK ==
  ASSUME TypeInv, NEW t \in tasks, t.kind = "upload"
  PROVE  t \in UploadTasks
BY DEF TypeInv, TaskOK, HookTasks, PageTasks, UploadTasks, IsEvent

LEMMA EventTaskOK ==
  ASSUME TypeInv, NEW t \in tasks, t.kind = "event"
  PROVE  IsEvent(t)
BY DEF TypeInv, TaskOK, HookTasks, PageTasks, UploadTasks, IsEvent

LEMMA TypeInit == Init => TypeInv
<1>. SUFFICES ASSUME Init PROVE TypeInv
  OBVIOUS
<1>1. Cardinality(Workspaces) \in Nat
  BY ProjectsAssumption, FS_CardinalityType
<1>2. tasks = {} /\ IsFiniteSet(tasks)
  BY FS_EmptySet DEF Init
<1>3. made \in Nat /\ hooks \subseteq Nat /\ project \in [Workspaces -> [is : BOOLEAN, hook : Nat]]
  <2>1. CASE use = "lists"
    <3>1. PICK hook \in [Workspaces -> 0 .. Cardinality(Workspaces)] :
            /\ hooks = {hook[w] : w \in Workspaces} \ {0} /\ made = Cardinality(Workspaces)
            /\ project = [w \in Workspaces |-> [is |-> TRUE, hook |-> hook[w]]]
      BY <2>1 DEF Init
    <3>. QED
      BY <1>1, <3>1
  <2>2. CASE use # "lists"
    <3>1. made = 0 /\ hooks = {} /\ project = [w \in Workspaces |-> NoProject]
      BY <2>2 DEF Init
    <3>. QED
      BY <3>1 DEF NoProject
  <2>. QED
    BY <2>1, <2>2
<1>4. cache = [w \in Workspaces |-> cache[w]]
      /\ \A w \in Workspaces : cache[w] \in [DOMAIN cache[w] -> Nat] /\ DOMAIN cache[w] \subseteq Nat
  BY DEF Init
<1>. QED
  BY <1>2, <1>3, <1>4 DEF Init, TypeInv

LEMMA TypeStep == ASSUME TypeInv, [Next]_vars PROVE TypeInv'
<1>. DEFINE TasksOK == IsFiniteSet(tasks) /\ \A x \in tasks : TaskOK(x)
            RowsOK == /\ connected \subseteq Workspaces
                      /\ project \in [Workspaces -> [is : BOOLEAN, hook : Nat]]
                      /\ made \in Nat /\ hooks \subseteq Nat
            SentOK == pushes \in Nat /\ \A d \in deliveries : d \in [push : Nat, hook : Nat, of : SUBSET Workspaces]
            ListsOK == /\ gen \in [Workspaces -> Nat] /\ handled \in [Workspaces -> Nat]
                       /\ cache = [w \in Workspaces |-> cache[w]]
                       /\ \A w \in Workspaces : cache[w] \in [DOMAIN cache[w] -> Nat]
                                                /\ DOMAIN cache[w] \subseteq Nat
<1>a. TasksOK /\ RowsOK /\ SentOK /\ ListsOK
  BY DEF TypeInv
<1>b. UNCHANGED <<connected, project, made, hooks>> => RowsOK'
  BY <1>a
<1>c. UNCHANGED <<pushes, deliveries>> => SentOK'
  BY <1>a
<1>d. UNCHANGED listVars => ListsOK'
  BY <1>a DEF listVars
<1>e. UNCHANGED tasks => TasksOK'
  BY <1>a
<1>f. RowsOK' /\ SentOK' /\ ListsOK' /\ TasksOK' => TypeInv'
  BY DEF TypeInv
<1>. HIDE DEF TasksOK, RowsOK, SentOK, ListsOK
<1>1. ASSUME NEW w \in Workspaces, AddProject(w) PROVE TypeInv'
  <2>1. RowsOK'
    BY <1>a, <1>1 DEF AddProject, RowsOK
  <2>2. CASE UNCHANGED tasks
    BY <1>c, <1>d, <1>e, <1>f, <1>1, <2>1, <2>2 DEF AddProject, pushVars
  <2>3. CASE ~UNCHANGED tasks
    <3>. DEFINE u == [HookTask("register", w) EXCEPT !.old = 0, !.stage = "create"]
    <3>1. HookTask("register", w) \in HookTasks
      BY <1>a DEF HookTask, HookTasks, RowsOK
    <3>2. tasks' = tasks \cup {u} /\ u \in HookTasks
      BY <1>1, <2>3, <3>1 DEF AddProject, HookTasks
    <3>3. TasksOK'
      BY <3>2, TasksKept DEF TasksGoOn, TaskOK, TasksOK
    <3>. QED
      BY <1>c, <1>d, <1>f, <1>1, <2>1, <3>3 DEF AddProject, pushVars
  <2>. QED
    BY <2>2, <2>3
<1>2. ASSUME NEW w \in Workspaces, RetryWebhook(w) \/ DeleteProject(w) PROVE TypeInv'
  <2>1. PICK u \in HookTasks : tasks' = tasks \cup {u}
    <3>1. PICK kind \in {"register", "delete"} : BeginHook(kind, w)
      BY <1>2 DEF RetryWebhook, DeleteProject
    <3>. QED
      BY <1>a, <3>1 DEF BeginHook, HookTask, HookTasks, RowsOK
  <2>2. TasksOK'
    BY <2>1, TasksKept DEF TasksGoOn, TaskOK, TasksOK
  <2>. QED
    BY <1>b, <1>c, <1>d, <1>f, <1>2, <2>2 DEF RetryWebhook, DeleteProject, hookVars, pushVars
<1>3. ASSUME NEW t \in tasks, DropOld(t) PROVE TypeInv'
  <2>1. t \in HookTasks
    BY <1>3, HookTaskOK DEF DropOld
  <2>2. PICK u \in HookTasks : tasks' = (tasks \ {t}) \cup {u}
    BY <1>3, <2>1 DEF DropOld, Move, HookTasks
  <2>3. TasksOK'
    BY <2>2, TasksKept DEF TasksGoOn, TaskOK, TasksOK
  <2>4. RowsOK'
    BY <1>a, <1>3 DEF DropOld, RowsOK
  <2>. QED
    BY <1>c, <1>d, <1>f, <1>3, <2>3, <2>4 DEF DropOld, pushVars
<1>4. ASSUME NEW t \in tasks, CreateHook(t) PROVE TypeInv'
  <2>1. t \in HookTasks
    BY <1>4, HookTaskOK DEF CreateHook
  <2>2. CASE End(t) /\ UNCHANGED <<made, hooks>>
    <3>1. TasksOK'
      BY <2>2, TasksEnd DEF TasksOK
    <3>. QED
      BY <1>b, <1>c, <1>d, <1>f, <1>4, <2>2, <3>1 DEF CreateHook, pushVars
  <2>3. CASE /\ made' = made + 1 /\ hooks' = hooks \cup {made + 1}
             /\ Move(t, [t EXCEPT !.stage = "save", !.new = made + 1])
    <3>1. RowsOK'
      BY <1>a, <1>4, <2>3 DEF RowsOK, CreateHook
    <3>2. [t EXCEPT !.stage = "save", !.new = made + 1] \in HookTasks
      <4>1. made + 1 \in Nat
        BY <1>a DEF RowsOK
      <4>. QED
        BY <2>1, <4>1 DEF HookTasks
    <3>3. TasksOK'
      BY <2>3, <3>2, TasksKept DEF Move, TasksGoOn, TaskOK, TasksOK
    <3>. QED
      BY <1>c, <1>d, <1>f, <1>4, <3>1, <3>3 DEF CreateHook, pushVars
  <2>. QED
    BY <1>4, <2>2, <2>3 DEF CreateHook
<1>5. ASSUME NEW t \in tasks, Registered(t) \/ RemoveRow(t) \/ Stop(t) PROVE TypeInv'
  <2>1. t \in HookTasks /\ TasksOK'
    BY <1>5, HookTaskOK, TasksEnd DEF Registered, RemoveRow, Stop, TasksOK
  <2>2. RowsOK'
    <3>1. CASE UNCHANGED <<connected, project, made, hooks>>
      BY <1>b, <3>1
    <3>2. CASE /\ project' = [project EXCEPT ![t.who].hook = t.new] /\ UNCHANGED <<connected, made, hooks>>
      BY <1>a, <2>1, <3>2 DEF RowsOK, HookTasks
    <3>3. CASE /\ project' = [project EXCEPT ![t.who] = NoProject] /\ UNCHANGED <<connected, made, hooks>>
      BY <1>a, <2>1, <3>3 DEF RowsOK, HookTasks, NoProject
    <3>. QED
      BY <1>5, <3>1, <3>2, <3>3 DEF Registered, SaveHook, RemoveRow, Removed, Stop, hookVars
  <2>3. UNCHANGED <<pushes, deliveries, listVars>>
    BY <1>5 DEF Registered, RemoveRow, Stop, pushVars
  <2>. QED
    BY <1>c, <1>d, <1>f, <2>1, <2>2, <2>3
<1>6. ASSUME NEW w \in Workspaces, AddConnection(w) \/ RemoveConnection(w) PROVE TypeInv'
  <2>1. RowsOK'
    <3>1. CASE AddConnection(w)
      BY <1>a, <3>1 DEF RowsOK, AddConnection
    <3>2. CASE RemoveConnection(w)
      <4>1. project' = [project EXCEPT ![w] = NoProject] /\ UNCHANGED <<made, hooks>>
            /\ connected' = connected \ {w}
        BY <3>2 DEF RemoveConnection, Removed
      <4>. QED
        BY <1>a, <4>1 DEF RowsOK, NoProject
    <3>. QED
      BY <1>6, <3>1, <3>2
  <2>. QED
    BY <1>c, <1>d, <1>e, <1>f, <1>6, <2>1 DEF AddConnection, RemoveConnection, Removed, pushVars
<1>7. CASE Push
  <2>1. pushes + 1 \in Nat
    BY <1>a DEF SentOK
  <2>2. ASSUME NEW d \in deliveries' PROVE d \in [push : Nat, hook : Nat, of : SUBSET Workspaces]
    <3>1. CASE d \in deliveries
      BY <1>a, <3>1 DEF SentOK
    <3>2. CASE \E h \in hooks : d = ByHook(h)
      BY <1>a, <2>1, <3>2 DEF ByHook, RowsOK
    <3>3. CASE \E w \in AppWorkspaces \cap connected : d = ByApp(w)
      BY <1>a, <2>1, <3>3 DEF ByApp, RowsOK
    <3>. QED
      BY <1>7, <3>1, <3>2, <3>3 DEF Push
  <2>3. SentOK'
    BY <1>7, <2>1, <2>2 DEF Push, SentOK
  <2>. QED
    BY <1>b, <1>d, <1>e, <1>f, <1>7, <2>3 DEF Push, hookVars
<1>8. ASSUME NEW d \in deliveries, Receive(d) PROVE TypeInv'
  <2>. DEFINE u == [kind |-> "event", who |-> ResolveProjects(d), push |-> d.push,
                    seen |-> [w \in ResolveProjects(d) |-> gen[w]]]
  <2>1. IsEvent(u)
    BY <1>a DEF SentOK, ListsOK, IsEvent, ResolveProjects, Added
  <2>2. TasksOK'
    BY <1>8, <2>1, TasksKept DEF Receive, TasksGoOn, TaskOK, TasksOK
  <2>3. SentOK'
    BY <1>a, <1>8 DEF Receive, SentOK
  <2>. QED
    BY <1>b, <1>d, <1>f, <1>8, <2>2, <2>3 DEF Receive, hookVars
<1>9. ASSUME NEW d \in deliveries, Reject(d) PROVE TypeInv'
  <2>1. SentOK'
    BY <1>a, <1>9 DEF Reject, SentOK
  <2>. QED
    BY <1>b, <1>d, <1>e, <1>f, <1>9, <2>1 DEF Reject, hookVars
<1>10. ASSUME NEW t \in tasks, Handle(t) PROVE TypeInv'
  <2>1. IsEvent(t) /\ TasksOK'
    BY <1>10, EventTaskOK, TasksEnd DEF Handle, TasksOK
  <2>2. ListsOK'
    <3>1. CASE UNCHANGED listVars
      BY <1>d, <3>1
    <3>2. CASE Forget(t) /\ handled' = [w \in Workspaces |->
                 IF w \in t.who \intersect setting.page /\ t.push > handled[w] THEN t.push ELSE handled[w]]
      BY <1>a, <2>1, <3>2 DEF ListsOK, Forget, IsEvent
    <3>. QED
      BY <1>10, <3>1, <3>2 DEF Handle
  <2>. QED
    BY <1>b, <1>c, <1>f, <1>10, <2>1, <2>2 DEF Handle, hookVars
<1>11. ASSUME NEW w \in Workspaces, OpenHistory(w) PROVE TypeInv'
  <2>. DEFINE g == IF gen[w] = 0 THEN 1 ELSE gen[w]
              u == [kind |-> "page", who |-> w, floor |-> handled[w], gen |-> g,
                    stage |-> IF g \in DOMAIN cache[w] THEN "show" ELSE "ask",
                    list |-> IF g \in DOMAIN cache[w] THEN cache[w][g] ELSE 0]
  <2>1. g \in Nat /\ handled[w] \in Nat /\ (g \in DOMAIN cache[w] => cache[w][g] \in Nat)
    BY <1>a DEF ListsOK
  <2>2. u \in PageTasks
    BY <2>1 DEF PageTasks
  <2>3. TasksOK'
    BY <1>11, <2>2, TasksKept DEF OpenHistory, TasksGoOn, TaskOK, TasksOK
  <2>4. ListsOK'
    BY <1>a, <1>11, <2>1 DEF OpenHistory, ListsOK
  <2>. QED
    BY <1>b, <1>c, <1>f, <1>11, <2>3, <2>4 DEF OpenHistory, hookVars, pushVars
<1>12. ASSUME NEW t \in tasks, AskPlatform(t) \/ Store(t) \/ Show(t) PROVE TypeInv'
  <2>1. t \in PageTasks
    BY <1>12, PageTaskOK DEF AskPlatform, ListCommits, Store, Show
  <2>2. TasksOK'
    <3>1. CASE End(t)
      BY <3>1, TasksEnd DEF TasksOK
    <3>2. CASE Move(t, [t EXCEPT !.stage = "store", !.list = pushes])
      <4>1. [t EXCEPT !.stage = "store", !.list = pushes] \in PageTasks
        BY <1>a, <2>1 DEF PageTasks, SentOK
      <4>. QED
        BY <3>2, <4>1, TasksKept DEF Move, TasksGoOn, TaskOK, TasksOK
    <3>3. CASE Move(t, [t EXCEPT !.stage = "show"])
      <4>1. [t EXCEPT !.stage = "show"] \in PageTasks
        BY <2>1 DEF PageTasks
      <4>. QED
        BY <3>3, <4>1, TasksKept DEF Move, TasksGoOn, TaskOK, TasksOK
    <3>. QED
      BY <1>12, <3>1, <3>2, <3>3 DEF AskPlatform, ListCommits, Store, Show
  <2>3. ListsOK'
    <3>1. CASE UNCHANGED listVars
      BY <1>d, <3>1
    <3>2. CASE Store(t)
      <4>1. /\ cache' = [cache EXCEPT ![t.who] = [g \in DOMAIN @ \cup {t.gen} |->
                                                     IF g = t.gen THEN t.list ELSE @[g]]]
            /\ UNCHANGED <<gen, handled>> /\ t.who \in Workspaces /\ t.gen \in Nat /\ t.list \in Nat
        BY <2>1, <3>2 DEF Store, PageTasks
      <4>2. cache'[t.who] = [x \in DOMAIN cache[t.who] \cup {t.gen} |->
                               IF x = t.gen THEN t.list ELSE cache[t.who][x]]
        BY <1>a, <4>1 DEF ListsOK
      <4>3. /\ cache' = [w \in Workspaces |-> cache'[w]]
            /\ \A w \in Workspaces \ {t.who} : cache'[w] = cache[w]
        BY <1>a, <4>1 DEF ListsOK
      <4>. QED
        BY <1>a, <4>1, <4>2, <4>3 DEF ListsOK
    <3>. QED
      BY <1>12, <3>1, <3>2 DEF AskPlatform, ListCommits, Show
  <2>. QED
    BY <1>b, <1>c, <1>f, <1>12, <2>2, <2>3 DEF AskPlatform, ListCommits, Store, Show, hookVars, pushVars
<1>13. ASSUME NEW w \in Workspaces, Expire(w) \/ ExpireGeneration(w) PROVE TypeInv'
  <2>1. CASE Expire(w)
    <3>1. PICK g \in DOMAIN cache[w] : cache' = [cache EXCEPT ![w] = [x \in DOMAIN @ \ {g} |-> @[x]]]
      BY <2>1 DEF Expire
    <3>2. cache'[w] = [x \in DOMAIN cache[w] \ {g} |-> cache[w][x]]
          /\ \A x \in Workspaces \ {w} : cache'[x] = cache[x]
      BY <1>a, <3>1 DEF ListsOK
    <3>3. cache' = [x \in Workspaces |-> cache'[x]]
      BY <1>a, <3>1 DEF ListsOK
    <3>4. ListsOK'
      BY <1>a, <2>1, <3>2, <3>3 DEF ListsOK, Expire
    <3>. QED
      BY <1>b, <1>c, <1>e, <1>f, <2>1, <3>4 DEF Expire, hookVars, pushVars
  <2>2. CASE ExpireGeneration(w)
    <3>1. ListsOK'
      BY <1>a, <2>2 DEF ListsOK, ExpireGeneration
    <3>. QED
      BY <1>b, <1>c, <1>e, <1>f, <2>2, <3>1 DEF ExpireGeneration, hookVars, pushVars
  <2>. QED
    BY <1>13, <2>1, <2>2
<1>14. ASSUME NEW p \in Artifacts, CreateArtifactProject(p) \/ DeleteArtifactProject(p) PROVE TypeInv'
  BY <1>b, <1>c, <1>d, <1>e, <1>f, <1>14
  DEF CreateArtifactProject, DeleteArtifactProject, hookVars, pushVars
<1>15. ASSUME NEW p \in Artifacts, NEW s \in Shas, UploadCommit(p, s) PROVE TypeInv'
  <2>1. [kind |-> "upload", who |-> p, sha |-> s, stage |-> "store"] \in UploadTasks
    BY DEF UploadTasks
  <2>2. TasksOK'
    BY <1>15, <2>1, TasksKept DEF UploadCommit, TasksGoOn, TaskOK, TasksOK
  <2>. QED
    BY <1>b, <1>c, <1>d, <1>f, <1>15, <2>2 DEF UploadCommit, hookVars, pushVars
<1>16. ASSUME NEW t \in tasks, SaveArchive(t) \/ RecordCommit(t) PROVE TypeInv'
  <2>1. t \in UploadTasks
    BY <1>16, UploadTaskOK DEF SaveArchive, RecordCommit, ArtifactCommit
  <2>2. [t EXCEPT !.stage = "record"] \in UploadTasks
    BY <2>1 DEF UploadTasks
  <2>3. TasksOK'
    BY <1>16, <2>2, TasksKept, TasksEnd DEF SaveArchive, RecordCommit, ArtifactCommit, Move, TasksGoOn, TaskOK, TasksOK
  <2>. QED
    BY <1>b, <1>c, <1>d, <1>f, <1>16, <2>3 DEF SaveArchive, RecordCommit, ArtifactCommit, hookVars, pushVars
<1>17. ASSUME NEW k \in erase, DeleteArchive(k) PROVE TypeInv'
  BY <1>b, <1>c, <1>d, <1>e, <1>f, <1>17 DEF DeleteArchive, hookVars, pushVars
<1>18. CASE UNCHANGED vars
  BY <1>b, <1>c, <1>d, <1>e, <1>f, <1>18 DEF vars, hookVars, pushVars
<1>. QED
  BY <1>1, <1>2, <1>3, <1>4, <1>5, <1>6, <1>7, <1>8, <1>9, <1>10, <1>11, <1>12, <1>13, <1>14,
     <1>15, <1>16, <1>17, <1>18 DEF Next

THEOREM TypesHold == Spec => []TypeInv
<1>. QED
  BY TypeInit, TypeStep, PTL DEF Spec

-----------------------------------------------------------------------------
(* The four sides of a project, and what each leaves alone *)

HookActs ==
  \/ \E w \in Workspaces : AddConnection(w) \/ RemoveConnection(w) \/ AddProject(w) \/ RetryWebhook(w) \/ DeleteProject(w)
  \/ \E t \in tasks : HookStep(t)
PushActs ==
  \/ Push
  \/ \E d \in deliveries : Receive(d) \/ Reject(d)
  \/ \E t \in tasks : Handle(t)
ListActs ==
  \/ \E w \in Workspaces : OpenHistory(w) \/ Expire(w) \/ ExpireGeneration(w)
  \/ \E t \in tasks : AskPlatform(t) \/ Store(t) \/ Show(t)
ArtActs ==
  \/ \E p \in Artifacts : CreateArtifactProject(p) \/ DeleteArtifactProject(p) \/ \E s \in Shas : UploadCommit(p, s)
  \/ \E k \in erase : DeleteArchive(k)
  \/ \E t \in tasks : SaveArchive(t) \/ RecordCommit(t)

LEMMA FourSides == ASSUME Next PROVE HookActs \/ PushActs \/ ListActs \/ ArtActs
BY DEF Next, HookActs, PushActs, ListActs, ArtActs, HookStep

\* The requests that come, go or go on are of these kinds.
OnlyKinds(kinds) ==
  /\ \A x \in tasks' : x \in tasks \/ x.kind \in kinds
  /\ \A x \in tasks : x \in tasks' \/ x.kind \in kinds

LEMMA HookActsTouch ==
  ASSUME TypeInv, HookActs
  PROVE  UNCHANGED <<setting, pushes, deliveries, listVars, artVars, overlap>> /\ OnlyKinds({"register", "delete"})
<1>1. ASSUME NEW w \in Workspaces, AddConnection(w) \/ RemoveConnection(w) PROVE UNCHANGED tasks
  BY <1>1 DEF AddConnection, RemoveConnection
<1>2. ASSUME NEW w \in Workspaces, AddProject(w)
      PROVE  OnlyKinds({"register", "delete"})
  <2>1. CASE UNCHANGED tasks
    BY <2>1 DEF OnlyKinds
  <2>2. CASE ~UNCHANGED tasks
    <3>. DEFINE u == [HookTask("register", w) EXCEPT !.old = 0, !.stage = "create"]
    <3>1. tasks' = tasks \cup {u} /\ u.kind = "register"
      BY <1>2, <2>2 DEF AddProject, HookTask
    <3>. QED
      BY <3>1 DEF OnlyKinds
  <2>. QED
    BY <2>1, <2>2
<1>3. ASSUME NEW w \in Workspaces, RetryWebhook(w) \/ DeleteProject(w)
      PROVE  OnlyKinds({"register", "delete"})
  BY <1>3 DEF RetryWebhook, DeleteProject, BeginHook, HookTask, OnlyKinds
<1>4. ASSUME NEW t \in tasks, HookStep(t) PROVE OnlyKinds({"register", "delete"})
  <2>1. t \in HookTasks /\ t.kind \in {"register", "delete"}
    BY <1>4, HookTaskOK DEF HookStep, DropOld, CreateHook, Registered, RemoveRow, Stop
  <2>2. CASE End(t)
    BY <2>1, <2>2 DEF End, OnlyKinds
  <2>3. ASSUME NEW stage, Move(t, [t EXCEPT !.stage = stage]) PROVE OnlyKinds({"register", "delete"})
    BY <2>1, <2>3 DEF Move, OnlyKinds, HookTasks
  <2>4. CASE Move(t, [t EXCEPT !.stage = "save", !.new = made + 1])
    BY <2>1, <2>4 DEF Move, OnlyKinds, HookTasks
  <2>. QED
    BY <1>4, <2>2, <2>3, <2>4 DEF HookStep, DropOld, CreateHook, Registered, RemoveRow, Stop
<1>5. OnlyKinds({"register", "delete"})
  BY <1>1, <1>2, <1>3, <1>4 DEF HookActs, OnlyKinds
<1>6. UNCHANGED <<setting, pushes, deliveries, listVars, artVars, overlap>>
  BY DEF HookActs, HookStep, AddConnection, RemoveConnection, AddProject, RetryWebhook, DeleteProject,
     BeginHook, DropOld, CreateHook, Registered, RemoveRow, Stop, pushVars, excused, Excuse, Removed
<1>. QED
  BY <1>5, <1>6

LEMMA PushActsTouch ==
  ASSUME TypeInv, PushActs
  PROVE  UNCHANGED <<setting, hookVars, artVars, left, failed>> /\ OnlyKinds({"event"})
<1>1. UNCHANGED <<setting, hookVars, artVars, left, failed>>
  BY DEF PushActs, Push, Receive, Reject, Handle, excused
<1>2. ASSUME NEW d \in deliveries, Receive(d) PROVE OnlyKinds({"event"})
  BY <1>2 DEF Receive, OnlyKinds
<1>3. ASSUME NEW t \in tasks, Handle(t) PROVE OnlyKinds({"event"})
  BY <1>3 DEF Handle, End, OnlyKinds
<1>4. ASSUME UNCHANGED tasks PROVE OnlyKinds({"event"})
  BY <1>4 DEF OnlyKinds
<1>. QED
  BY <1>1, <1>2, <1>3, <1>4 DEF PushActs, Push, Reject

LEMMA ListActsTouch ==
  ASSUME TypeInv, ListActs
  PROVE  UNCHANGED <<setting, hookVars, pushVars, artVars, excused>> /\ OnlyKinds({"page"})
<1>1. UNCHANGED <<setting, hookVars, pushVars, artVars, excused>>
  BY DEF ListActs, OpenHistory, Expire, ExpireGeneration, AskPlatform, ListCommits, Store, Show
<1>2. ASSUME NEW w \in Workspaces, OpenHistory(w) PROVE OnlyKinds({"page"})
  BY <1>2 DEF OpenHistory, OnlyKinds
<1>3. ASSUME NEW t \in tasks, AskPlatform(t) \/ Store(t) \/ Show(t) PROVE OnlyKinds({"page"})
  <2>1. t \in PageTasks /\ t.kind = "page"
    BY <1>3, PageTaskOK DEF AskPlatform, ListCommits, Store, Show
  <2>2. CASE End(t)
    BY <2>1, <2>2 DEF End, OnlyKinds
  <2>3. CASE Move(t, [t EXCEPT !.stage = "store", !.list = pushes])
    BY <2>1, <2>3 DEF Move, OnlyKinds, PageTasks
  <2>4. CASE Move(t, [t EXCEPT !.stage = "show"])
    BY <2>1, <2>4 DEF Move, OnlyKinds, PageTasks
  <2>. QED
    BY <1>3, <2>2, <2>3, <2>4 DEF AskPlatform, ListCommits, Store, Show
<1>4. ASSUME NEW w \in Workspaces, Expire(w) \/ ExpireGeneration(w) PROVE UNCHANGED tasks
  BY <1>4 DEF Expire, ExpireGeneration
<1>. QED
  BY <1>1, <1>2, <1>3, <1>4 DEF ListActs, OnlyKinds

LEMMA ArtActsTouch ==
  ASSUME TypeInv, ArtActs
  PROVE  UNCHANGED <<setting, hookVars, pushVars, listVars, excused>> /\ OnlyKinds({"upload"})
<1>1. UNCHANGED <<setting, hookVars, pushVars, listVars, excused>>
  BY DEF ArtActs, CreateArtifactProject, DeleteArtifactProject, UploadCommit, DeleteArchive, SaveArchive, RecordCommit, ArtifactCommit
<1>2. ASSUME NEW p \in Artifacts, NEW s \in Shas, UploadCommit(p, s) PROVE OnlyKinds({"upload"})
  BY <1>2 DEF UploadCommit, OnlyKinds
<1>3. ASSUME NEW t \in tasks, SaveArchive(t) \/ RecordCommit(t) PROVE OnlyKinds({"upload"})
  <2>1. t \in UploadTasks /\ t.kind = "upload"
    BY <1>3, UploadTaskOK DEF SaveArchive, RecordCommit, ArtifactCommit
  <2>. QED
    BY <1>3, <2>1 DEF SaveArchive, RecordCommit, ArtifactCommit, Move, End, OnlyKinds, UploadTasks
<1>4. ASSUME UNCHANGED tasks PROVE OnlyKinds({"upload"})
  BY <1>4 DEF OnlyKinds
<1>. QED
  BY <1>1, <1>2, <1>3, <1>4 DEF ArtActs, CreateArtifactProject, DeleteArtifactProject, DeleteArchive

-----------------------------------------------------------------------------
(* Archives *)

\* A commit in the rows is of a project that is there; what is to be erased
\* and what an upload stored for nothing, of one that is gone.
ArtInv ==
  /\ rows \in [Artifacts -> {"none", "there", "gone"}]
  /\ \A c \in commits : c \in Artifacts \X Shas /\ rows[c[1]] = "there" /\ ArchiveKey(c[1], c[2]) \in archives
  /\ \A k \in erase : k \in Artifacts \X Shas /\ rows[k[1]] = "gone"
  /\ \A t \in tasks : t.kind = "upload" =>
       /\ rows[t.who] # "none"
       /\ t.stage = "record" => ArchiveKey(t.who, t.sha) \in archives \/ rows[t.who] = "gone"

LEMMA ArtStep == ASSUME TypeInv, ArtInv, [Next]_vars PROVE ArtInv'
<1>1. ASSUME NEW p \in Artifacts, CreateArtifactProject(p) PROVE ArtInv'
  BY <1>1, UploadTaskOK DEF CreateArtifactProject, ArtInv, UploadTasks
<1>2. ASSUME NEW p \in Artifacts, DeleteArtifactProject(p) PROVE ArtInv'
  BY <1>2, UploadTaskOK DEF DeleteArtifactProject, ArtInv, UploadTasks, ArchiveKey
<1>3. ASSUME NEW p \in Artifacts, NEW s \in Shas, UploadCommit(p, s) PROVE ArtInv'
  BY <1>3 DEF UploadCommit, ArtInv, artVars
<1>4. ASSUME NEW k \in erase, DeleteArchive(k) PROVE ArtInv'
  <2>1. /\ archives \ {k} \subseteq archives' /\ erase' \subseteq erase
        /\ UNCHANGED <<rows, commits, tasks>>
    BY <1>4 DEF DeleteArchive
  <2>2. k \in Artifacts \X Shas /\ rows[k[1]] = "gone"
    BY DEF ArtInv
  <2>3. \A p \in Artifacts, s \in Shas : ArchiveKey(p, s) = k => rows[p] = "gone"
    BY <2>2 DEF ArchiveKey
  <2>4. \A t \in tasks : t.kind = "upload" => t.who \in Artifacts /\ t.sha \in Shas
    BY UploadTaskOK DEF UploadTasks
  <2>. QED
    BY <2>1, <2>3, <2>4 DEF ArtInv
<1>5. ASSUME NEW t \in tasks, SaveArchive(t) PROVE ArtInv'
  <2>1. t \in UploadTasks /\ t.kind = "upload"
    BY <1>5, UploadTaskOK DEF SaveArchive
  <2>. DEFINE u == [t EXCEPT !.stage = "record"]
  <2>2. u.kind = "upload" /\ u.who = t.who /\ u.sha = t.sha /\ u.stage = "record"
    BY <2>1 DEF UploadTasks
  <2>3. /\ tasks' = (tasks \ {t}) \cup {u}
        /\ archives' = archives \cup {ArchiveKey(u.who, u.sha)}
        /\ UNCHANGED <<rows, commits, erase>>
    BY <1>5, <2>2 DEF SaveArchive, Move
  <2>. HIDE DEF u
  <2>. QED
    BY <2>1, <2>2, <2>3 DEF ArtInv
<1>6. ASSUME NEW t \in tasks, RecordCommit(t) PROVE ArtInv'
  <2>1. t \in UploadTasks
    BY <1>6, UploadTaskOK DEF RecordCommit, ArtifactCommit
  <2>. QED
    BY <1>6, <2>1 DEF RecordCommit, ArtifactCommit, End, ArtInv, UploadTasks
<1>7. ASSUME UNCHANGED artVars, \A x \in tasks' : x \in tasks \/ x.kind # "upload" PROVE ArtInv'
  BY <1>7 DEF ArtInv, artVars
<1>8. CASE HookActs
  BY <1>7, <1>8, HookActsTouch DEF OnlyKinds
<1>9. CASE PushActs
  BY <1>7, <1>9, PushActsTouch DEF OnlyKinds
<1>10. CASE ListActs
  BY <1>7, <1>10, ListActsTouch DEF OnlyKinds
<1>11. CASE UNCHANGED vars
  BY <1>7, <1>11 DEF vars
<1>. QED
  BY <1>1, <1>2, <1>3, <1>4, <1>5, <1>6, <1>8, <1>9, <1>10, <1>11, FourSides DEF ArtActs

\* Every uploaded commit has its archive (upload_commit and
\* delete_artifact_project of artifact_service.py), whatever is uploaded again,
\* deleted, or stopped half-way.
THEOREM CommitsHaveTheirArchiveHolds == Spec => []CommitsHaveTheirArchive
<1>1. Init => ArtInv
  BY DEF Init, ArtInv
<1>2. ArtInv => CommitsHaveTheirArchive
  BY DEF ArtInv, CommitsHaveTheirArchive
<1>. QED
  BY <1>1, <1>2, ArtStep, TypesHold, PTL DEF Spec

-----------------------------------------------------------------------------
(* Pushes *)

\* That a push still owed to a project is on its way.
Coming(w, n) ==
  \/ \E d \in deliveries : d.push = n /\ (d.hook \in HookOf(w) \/ w \in d.of)
  \/ \E t \in tasks : t.kind = "event" /\ t.push = n /\ w \in t.who

\* Only projects that are there, of a workspace that is connected, are owed
\* pushes, and the App's deliveries alone name installations.
PushInv ==
  /\ due = [w \in Workspaces |-> due[w]]
  /\ \A w \in Workspaces : project[w].is => w \in connected
  /\ \A w \in Workspaces : project[w].hook # 0 => project[w].is
  /\ \A w \in Workspaces : due[w] # {} => project[w].is
  /\ \A d \in deliveries : d.hook = 0 \/ d.of = {}
  /\ \A w \in Workspaces : \A n \in due[w] : Coming(w, n)

\* Nothing on its way is lost by a step that leaves the deliveries alone.
LEMMA StillComing ==
  ASSUME PushInv, NEW w \in Workspaces, NEW n \in due[w],
         deliveries \subseteq deliveries', project'[w].hook = project[w].hook,
         \A x \in tasks : x \in tasks' \/ x.kind # "event"
  PROVE  Coming(w, n)'
BY DEF PushInv, Coming, HookOf

LEMMA PushStep == ASSUME TypeInv, PushInv, [Next]_vars PROVE PushInv'
<1>1. CASE UNCHANGED <<connected, project, due, deliveries>>
           /\ \A x \in tasks : x \in tasks' \/ x.kind # "event"
  <2>1. \A w \in Workspaces : \A n \in due'[w] : Coming(w, n)'
    BY <1>1, StillComing
  <2>. QED
    BY <1>1, <2>1 DEF PushInv
<1>2. CASE HookActs
  <2>1. UNCHANGED deliveries /\ \A x \in tasks : x \in tasks' \/ x.kind # "event"
    BY <1>2, HookActsTouch DEF OnlyKinds
  <2>2. ASSUME NEW w \in Workspaces, AddProject(w) PROVE PushInv'
    <3>1. /\ project' = [project EXCEPT ![w] = [is |-> TRUE, hook |-> 0]]
          /\ UNCHANGED <<connected, due>> /\ w \in connected /\ ~project[w].is
      BY <2>2 DEF AddProject, pushVars, Added
    <3>2. due[w] = {} /\ \A x \in Workspaces \ {w} : project'[x] = project[x]
      BY <3>1 DEF PushInv, TypeInv
    <3>3. \A x \in Workspaces : \A n \in due'[x] : Coming(x, n)'
      BY <2>1, <3>1, <3>2, StillComing
    <3>. QED
      BY <2>1, <3>1, <3>3 DEF PushInv, TypeInv
  <2>3. ASSUME NEW t \in tasks, Registered(t) PROVE PushInv'
    <3>1. t \in HookTasks
      BY <2>3, HookTaskOK DEF Registered
    <3>2. /\ \/ project[t.who].is /\ project' = [project EXCEPT ![t.who].hook = t.new]
             \/ UNCHANGED project
          /\ due' = [due EXCEPT ![t.who] = {}] /\ UNCHANGED connected
      BY <2>3 DEF Registered, SaveHook
    <3>3. \A x \in Workspaces : \A n \in due'[x] : x # t.who /\ n \in due[x]
      BY <3>1, <3>2 DEF PushInv, HookTasks
    <3>4. \A x \in Workspaces \ {t.who} : project'[x] = project[x]
      BY <3>1, <3>2 DEF TypeInv
    <3>5. \A x \in Workspaces : \A n \in due'[x] : Coming(x, n)'
      BY <2>1, <3>3, <3>4, StillComing
    <3>6. \A x \in Workspaces : project'[x].is = project[x].is
                                /\ (project'[x].hook # project[x].hook => project[x].is)
      BY <3>1, <3>2 DEF TypeInv, HookTasks
    <3>7. due' = [x \in Workspaces |-> due'[x]]
      BY <3>2 DEF PushInv
    <3>. QED
      BY <2>1, <3>2, <3>3, <3>5, <3>6, <3>7 DEF PushInv
  <2>4. ASSUME NEW w \in Workspaces, Removed(w), connected' \in {connected, connected \ {w}} PROVE PushInv'
    <3>1. /\ project' = [project EXCEPT ![w] = NoProject]
          /\ due' = [due EXCEPT ![w] = {}]
      BY <2>4 DEF Removed
    <3>2. \A x \in Workspaces : \A n \in due'[x] : x # w /\ n \in due[x]
      BY <3>1 DEF PushInv
    <3>3. \A x \in Workspaces \ {w} : project'[x] = project[x]
      BY <3>1 DEF TypeInv
    <3>4. \A x \in Workspaces : \A n \in due'[x] : Coming(x, n)'
      BY <2>1, <3>2, <3>3, StillComing
    <3>5. ~project'[w].is /\ project'[w].hook = 0
      BY <3>1 DEF TypeInv, NoProject
    <3>6. due' = [x \in Workspaces |-> due'[x]]
      BY <3>1 DEF PushInv
    <3>. QED
      BY <2>1, <2>4, <3>2, <3>3, <3>4, <3>5, <3>6 DEF PushInv
  <2>5. ASSUME NEW w \in Workspaces, AddConnection(w) PROVE PushInv'
    <3>1. connected \subseteq connected' /\ UNCHANGED <<project, due>>
      BY <2>5 DEF AddConnection, pushVars
    <3>2. \A x \in Workspaces : \A n \in due'[x] : Coming(x, n)'
      BY <2>1, <3>1, StillComing
    <3>. QED
      BY <2>1, <3>1, <3>2 DEF PushInv
  <2>6. ASSUME NEW t \in tasks, RemoveRow(t) PROVE PushInv'
    <3>1. t.who \in Workspaces
      BY <2>6, HookTaskOK DEF RemoveRow, HookTasks
    <3>. QED
      BY <2>4, <2>6, <3>1 DEF RemoveRow
  <2>. QED
    BY <1>1, <1>2, <2>1, <2>2, <2>3, <2>4, <2>5, <2>6
    DEF HookActs, HookStep, RemoveConnection, RetryWebhook, DeleteProject, DropOld, CreateHook, Stop, hookVars, pushVars
<1>3. CASE Push
  <2>1. /\ deliveries \subseteq deliveries' /\ UNCHANGED <<project, connected, tasks>>
        /\ \A h \in hooks : ByHook(h) \in deliveries'
        /\ \A w \in AppWorkspaces \cap connected : ByApp(w) \in deliveries'
        /\ \A d \in deliveries' \ deliveries : d.hook = 0 \/ d.of = {}
    <3>1. /\ deliveries' = deliveries \cup {ByHook(h) : h \in hooks}
                                        \cup {ByApp(w) : w \in AppWorkspaces \cap connected}
          /\ UNCHANGED <<project, connected, tasks>>
      BY <1>3 DEF Push, hookVars
    <3>2. \A h : ByHook(h).of = {}
      BY DEF ByHook
    <3>3. \A w : ByApp(w).hook = 0
      BY DEF ByApp
    <3>. HIDE DEF ByHook, ByApp
    <3>. QED
      BY <3>1, <3>2, <3>3
  <2>2. ASSUME NEW w \in Workspaces, Hears(w), NEW n, n = pushes + 1 PROVE Coming(w, n)' /\ project[w].is
    <3>1. CASE w \in AppWorkspaces
      <4>1. w \in connected /\ project[w].is
        BY <2>2, <3>1 DEF Hears, PushInv, Added
      <4>2. ByApp(w) \in deliveries' /\ ByApp(w).push = n /\ w \in ByApp(w).of
        BY <2>1, <2>2, <3>1, <4>1 DEF ByApp
      <4>. QED
        BY <4>1, <4>2 DEF Coming
    <3>2. CASE w \notin AppWorkspaces
      <4>1. PICK h \in hooks : h \in HookOf(w)
        BY <2>2, <3>2 DEF Hears
      <4>2. project[w].is
        BY <4>1 DEF HookOf, PushInv
      <4>3. HookOf(w)' = HookOf(w)
        BY <2>1 DEF HookOf
      <4>4. ByHook(h) \in deliveries' /\ ByHook(h).push = n /\ ByHook(h).hook = h
        BY <2>1, <2>2, <4>1 DEF ByHook
      <4>. QED
        BY <4>1, <4>2, <4>3, <4>4 DEF Coming
    <3>. QED
      BY <3>1, <3>2
  <2>3. due' = [w \in Workspaces |-> IF Hears(w) THEN due[w] \cup {pushes + 1} ELSE due[w]]
    BY <1>3 DEF Push
  <2>4. \A w \in Workspaces : \A n \in due[w] : Coming(w, n)'
    BY <2>1, StillComing
  <2>5. \A w \in Workspaces : \A n \in due'[w] : Coming(w, n)'
    BY <2>2, <2>3, <2>4
  <2>6. \A w \in Workspaces : due'[w] # {} => project[w].is
    BY <2>2, <2>3 DEF PushInv
  <2>7. due' = [w \in Workspaces |-> due'[w]]
    BY <2>3
  <2>. QED
    BY <2>1, <2>5, <2>6, <2>7 DEF PushInv
<1>4. ASSUME NEW d \in deliveries, Receive(d) \/ Reject(d) PROVE PushInv'
  <2>1. /\ UNCHANGED <<project, connected, due>> /\ deliveries' = deliveries \ {d} /\ tasks \subseteq tasks'
    BY <1>4 DEF Receive, Reject, hookVars
  <2>2. ASSUME NEW w \in Workspaces, d.hook \in HookOf(w) \/ w \in d.of, due[w] # {}
        PROVE  Receive(d) /\ w \in ResolveProjects(d)
    <3>1. w \in Added
      BY <2>2 DEF PushInv, Added
    <3>2. CASE d.hook \in HookOf(w)
      <4>1. d.hook # 0 /\ VerifySignature(d)
        BY <3>1, <3>2 DEF VerifySignature, HookOf
      <4>. QED
        BY <1>4, <3>1, <4>1 DEF Reject, ResolveProjects
    <3>3. CASE d.hook \notin HookOf(w)
      <4>1. d.hook = 0 /\ w \in d.of
        BY <2>2, <3>3 DEF PushInv
      <4>. QED
        BY <1>4, <3>1, <4>1 DEF Reject, ResolveProjects
    <3>. QED
      BY <3>2, <3>3
  <2>3. ASSUME NEW w \in Workspaces, NEW n \in due[w] PROVE Coming(w, n)'
    <3>0. Coming(w, n) /\ HookOf(w)' = HookOf(w)
      BY <2>1 DEF PushInv, HookOf
    <3>1. CASE d.push = n /\ (d.hook \in HookOf(w) \/ w \in d.of)
      <4>. DEFINE u == [kind |-> "event", who |-> ResolveProjects(d), push |-> d.push,
                        seen |-> [x \in ResolveProjects(d) |-> gen[x]]]
      <4>1. u \in tasks' /\ w \in u.who
        BY <2>2, <3>1 DEF Receive
      <4>. QED
        BY <3>1, <4>1 DEF Coming
    <3>2. CASE ~(d.push = n /\ (d.hook \in HookOf(w) \/ w \in d.of))
      BY <2>1, <3>0, <3>2 DEF Coming
    <3>. QED
      BY <3>1, <3>2
  <2>. QED
    BY <2>1, <2>3 DEF PushInv
<1>5. ASSUME NEW t \in tasks, Handle(t) PROVE PushInv'
  <2>1. /\ UNCHANGED <<project, connected, deliveries>> /\ tasks' = tasks \ {t}
        /\ due' = [w \in Workspaces |-> IF w \in t.who THEN due[w] \ {t.push} ELSE due[w]]
    BY <1>5 DEF Handle, End, hookVars
  <2>2. ASSUME NEW w \in Workspaces, NEW n \in due'[w] PROVE Coming(w, n)'
    <3>1. n \in due[w] /\ ~(w \in t.who /\ t.push = n)
      BY <2>1
    <3>2. Coming(w, n) /\ HookOf(w)' = HookOf(w)
      BY <2>1, <3>1 DEF PushInv, HookOf
    <3>. QED
      BY <2>1, <3>1, <3>2 DEF Coming
  <2>. QED
    BY <2>1, <2>2 DEF PushInv
<1>6. CASE ListActs
  BY <1>1, <1>6, ListActsTouch DEF OnlyKinds, hookVars, pushVars
<1>7. CASE ArtActs
  BY <1>1, <1>7, ArtActsTouch DEF OnlyKinds, hookVars, pushVars
<1>8. CASE UNCHANGED vars
  BY <1>1, <1>8 DEF vars, hookVars, pushVars
<1>. QED
  BY <1>2, <1>3, <1>4, <1>5, <1>6, <1>7, <1>8, FourSides DEF PushActs

\* A push is never missed (base_webhook.py): a project that hears of pushes has
\* had it or the delivery that brings it is under way, however many workspaces
\* share the repository and in whatever order deliveries come.
THEOREM PushesArriveHolds == Spec => []PushesArrive
<1>1. Init => PushInv
  <2>. SUFFICES ASSUME Init PROVE PushInv
    OBVIOUS
  <2>1. \A w \in Workspaces : project[w].hook # 0 => project[w].is
    <3>1. CASE use = "lists"
      <4>1. \E hook : project = [w \in Workspaces |-> [is |-> TRUE, hook |-> hook[w]]]
        BY <3>1 DEF Init
      <4>. QED
        BY <4>1
    <3>2. CASE use # "lists"
      <4>1. project = [w \in Workspaces |-> NoProject]
        BY <3>2 DEF Init
      <4>. QED
        BY <4>1 DEF NoProject
    <3>. QED
      BY <3>1, <3>2
  <2>2. /\ connected = Workspaces /\ deliveries = {} /\ due = [w \in Workspaces |-> {}]
    BY DEF Init
  <2>. QED
    BY <2>1, <2>2 DEF PushInv
<1>2. PushInv => PushesArrive
  BY DEF PushInv, Coming, PushesArrive
<1>. QED
  BY <1>1, <1>2, PushStep, TypesHold, PTL DEF Spec

-----------------------------------------------------------------------------
(* Lists *)

\* A page under way of project w: it stores or shows no list older than the
\* push answered when it was opened, and stores none older than the last push
\* answered unless under a generation that is over.
PageOK(w, t) ==
  /\ t.gen \in 1..gen[w] /\ t.floor <= handled[w]
  /\ t.stage \in {"store", "show"} => t.list >= t.floor
  /\ t.stage = "store" /\ t.gen = gen[w] => t.list >= handled[w]

\* A webhook under way has read the generation that is current, or none where
\* a page has made the first since.
EventOK(w, t) ==
  /\ t.push <= pushes
  /\ t.seen[w] = gen[w] \/ (t.seen[w] = 0 /\ gen[w] = 1)

ListInv(w) ==
  /\ handled[w] <= pushes
  /\ \A g \in DOMAIN cache[w] : g \in 1..gen[w] /\ (g = gen[w] => cache[w][g] >= handled[w])
  /\ \A t \in tasks : t.kind = "page" /\ t.who = w => PageOK(w, t)
  /\ \A t \in tasks : t.kind = "event" /\ w \in t.who => EventOK(w, t)

ShowInv ==
  /\ \A d \in deliveries : d.push <= pushes
  /\ \A t \in tasks : t.kind = "page" => t.who \in setting.page
  /\ ~overlap =>
       /\ \A t, u \in tasks : t.kind = "event" /\ u.kind = "event" => t = u
       /\ \A w \in Workspaces \cap setting.page : ListInv(w)

LEMMA ListLeft ==
  ASSUME TypeInv, NEW w \in Workspaces, ListInv(w), UNCHANGED listVars, pushes <= pushes', pushes' \in Nat,
         \A x \in tasks' : x \in tasks \/ x.kind \notin {"page", "event"}
  PROVE  ListInv(w)'
<1>1. \A t \in tasks : t.kind = "event" => t.push \in Nat
  BY EventTaskOK DEF IsEvent
<1>. QED
  BY <1>1 DEF ListInv, PageOK, EventOK, listVars, TypeInv

LEMMA ShowStep == ASSUME TypeInv, TypeInv', ShowInv, [Next]_vars PROVE ShowInv'
<1>1. ASSUME UNCHANGED <<setting, deliveries, overlap, pushes, listVars>>,
             \A x \in tasks' : x \in tasks \/ x.kind \notin {"page", "event"}
      PROVE  ShowInv'
  <2>1. pushes <= pushes' /\ pushes' \in Nat
    BY <1>1 DEF TypeInv
  <2>2. \A w \in Workspaces : ListInv(w) => ListInv(w)'
    BY <1>1, <2>1, ListLeft
  <2>. QED
    BY <1>1, <2>2 DEF ShowInv
<1>2. CASE HookActs
  BY <1>1, <1>2, HookActsTouch DEF OnlyKinds
<1>3. CASE ArtActs
  BY <1>1, <1>3, ArtActsTouch DEF OnlyKinds, pushVars, excused
<1>4. CASE UNCHANGED vars
  BY <1>1, <1>4 DEF vars, pushVars, excused
<1>5. CASE Push
  <2>1. /\ UNCHANGED <<setting, listVars, tasks, overlap>> /\ pushes' = pushes + 1
        /\ \A d \in deliveries' : d \in deliveries \/ d.push = pushes + 1
    BY <1>5 DEF Push, ByHook, ByApp, excused
  <2>2. pushes <= pushes' /\ pushes' \in Nat /\ \A d \in deliveries : d.push \in Nat
    BY <2>1 DEF TypeInv
  <2>3. \A w \in Workspaces : ListInv(w) => ListInv(w)'
    BY <2>1, <2>2, ListLeft
  <2>4. \A d \in deliveries' : d.push <= pushes'
    BY <2>1, <2>2 DEF ShowInv, TypeInv
  <2>. QED
    BY <2>1, <2>3, <2>4 DEF ShowInv
<1>6. ASSUME NEW d \in deliveries, Receive(d) PROVE ShowInv'
  <2>1. PICK u :
        /\ u = [kind |-> "event", who |-> ResolveProjects(d), push |-> d.push,
                seen |-> [w \in ResolveProjects(d) |-> gen[w]]]
        /\ UNCHANGED <<setting, pushes, listVars>> /\ deliveries' \subseteq deliveries
        /\ tasks' = tasks \cup {u} /\ u.push <= pushes
        /\ overlap' = (overlap \/ \E o \in tasks : o.kind = "event")
    BY <1>6 DEF Receive, ShowInv
  <2>a. u.kind = "event" /\ \A w \in u.who : u.seen[w] = gen[w]
    BY <2>1
  <2>2. ASSUME NEW w \in Workspaces, ListInv(w) PROVE ListInv(w)'
    <3>1. \A x \in tasks : /\ x.kind = "page" /\ x.who = w => PageOK(w, x)'
                           /\ x.kind = "event" /\ w \in x.who => EventOK(w, x)'
      BY <2>1, <2>2 DEF ListInv, PageOK, EventOK, listVars
    <3>2. w \in u.who => EventOK(w, u)'
      <4>1. pushes' = pushes /\ gen' = gen
        BY <2>1 DEF listVars
      <4>2. u.push <= pushes /\ (w \in u.who => u.seen[w] = gen[w])
        BY <2>1, <2>a
      <4>. QED
        BY <4>1, <4>2 DEF EventOK
    <3>3. \A x \in tasks' : x \in tasks \/ x = u
      BY <2>1
    <3>4. \A x \in tasks' : /\ x.kind = "page" /\ x.who = w => PageOK(w, x)'
                            /\ x.kind = "event" /\ w \in x.who => EventOK(w, x)'
      BY <2>a, <3>1, <3>2, <3>3
    <3>. QED
      BY <2>1, <2>2, <3>4 DEF ListInv, listVars
  <2>. QED
    BY <2>1, <2>a, <2>2 DEF ShowInv
<1>7. ASSUME NEW d \in deliveries, Reject(d) PROVE ShowInv'
  <2>1. UNCHANGED <<setting, pushes, listVars, tasks, overlap>> /\ deliveries' \subseteq deliveries
    BY <1>7 DEF Reject, excused
  <2>2. \A w \in Workspaces : ListInv(w) => ListInv(w)'
    BY <2>1, ListLeft DEF TypeInv
  <2>. QED
    BY <2>1, <2>2 DEF ShowInv
<1>8. ASSUME NEW t \in tasks, Handle(t) PROVE ShowInv'
  <2>1. /\ UNCHANGED <<setting, pushes, deliveries, overlap>> /\ tasks' = tasks \ {t}
        /\ t.kind = "event" /\ IsEvent(t)
    BY <1>8, EventTaskOK DEF Handle, End, excused
  <2>2. CASE UNCHANGED listVars
    <3>1. \A w \in Workspaces : ListInv(w) => ListInv(w)'
      BY <2>1, <2>2, ListLeft DEF TypeInv
    <3>. QED
      BY <2>1, <3>1 DEF ShowInv
  <2>3. CASE Forget(t) /\ handled' = [w \in Workspaces |->
               IF w \in t.who \intersect setting.page /\ t.push > handled[w] THEN t.push ELSE handled[w]]
    <3>1. ASSUME NEW w \in Workspaces \cap setting.page, ListInv(w), w \notin t.who PROVE ListInv(w)'
      <4>1. cache' = cache /\ gen'[w] = gen[w] /\ handled'[w] = handled[w]
        BY <2>3, <3>1 DEF Forget
      <4>. QED
        BY <2>1, <3>1, <4>1 DEF ListInv, PageOK, EventOK
    <3>2. ASSUME NEW w \in Workspaces \cap setting.page, ListInv(w), w \in t.who,
                 \A x, y \in tasks : x.kind = "event" /\ y.kind = "event" => x = y
          PROVE  ListInv(w)'
      <4>1. EventOK(w, t) /\ gen[w] \in Nat /\ handled[w] \in Nat /\ pushes \in Nat
            /\ t.push \in Nat /\ t.seen[w] \in Nat
        BY <2>1, <3>2 DEF ListInv, TypeInv, IsEvent
      <4>2. cache' = cache /\ gen'[w] = (IF t.seen[w] = 0 THEN 2 ELSE t.seen[w] + 1)
            /\ handled'[w] = (IF t.push > handled[w] THEN t.push ELSE handled[w])
        BY <2>3, <3>2 DEF Forget
      <4>3. /\ gen'[w] \in Nat /\ gen'[w] > gen[w]
            /\ handled'[w] >= handled[w] /\ handled'[w] <= pushes /\ handled'[w] \in Nat
        BY <3>2, <4>1, <4>2 DEF EventOK, ListInv
      <4>4. \A g \in DOMAIN cache[w] : g \in 1..gen'[w] /\ g # gen'[w]
        BY <3>2, <4>1, <4>3 DEF ListInv
      <4>5. ASSUME NEW x \in tasks, x.kind = "page", x.who = w PROVE PageOK(w, x)'
        <5>1. PageOK(w, x) /\ x.gen \in Nat /\ x.floor \in Nat /\ x.list \in Nat
          BY <3>2, <4>5, PageTaskOK DEF ListInv, PageTasks
        <5>. QED
          BY <4>1, <4>3, <5>1 DEF PageOK
      <4>6. \A x \in tasks' : x.kind # "event"
        BY <2>1, <3>2
      <4>7. pushes' = pushes
        BY <2>1
      <4>. QED
        BY <2>1, <4>2, <4>3, <4>4, <4>5, <4>6, <4>7 DEF ListInv
    <3>. QED
      BY <2>1, <3>1, <3>2 DEF ShowInv
  <2>. QED
    BY <1>8, <2>2, <2>3 DEF Handle
<1>9. ASSUME NEW w \in Workspaces, OpenHistory(w) PROVE ShowInv'
  <2>1. PICK g, u :
          /\ g = (IF gen[w] = 0 THEN 1 ELSE gen[w])
          /\ u = [kind |-> "page", who |-> w, floor |-> handled[w], gen |-> g,
                  stage |-> IF g \in DOMAIN cache[w] THEN "show" ELSE "ask",
                  list |-> IF g \in DOMAIN cache[w] THEN cache[w][g] ELSE 0]
          /\ UNCHANGED <<setting, pushes, deliveries, cache, handled, overlap>>
          /\ gen' = [gen EXCEPT ![w] = g] /\ tasks' = tasks \cup {u} /\ w \in setting.page
    BY <1>9 DEF OpenHistory, pushVars, excused
  <2>2. /\ u.kind = "page" /\ u.who = w /\ u.gen = g /\ u.floor = handled[w]
        /\ u.stage \in {"show", "ask"}
        /\ u.stage = "show" => g \in DOMAIN cache[w] /\ u.list = cache[w][g]
    BY <2>1
  <2>3. gen'[w] = g /\ \A x \in Workspaces \ {w} : gen'[x] = gen[x]
    BY <2>1 DEF TypeInv
  <2>4. ASSUME ListInv(w) PROVE PageOK(w, u)'
    <3>1. g \in Nat \ {0} /\ handled[w] \in Nat
      BY <2>1 DEF TypeInv
    <3>2. g \in DOMAIN cache[w] => cache[w][g] >= handled[w]
      BY <2>1, <2>4, <3>1 DEF ListInv, TypeInv
    <3>. QED
      BY <2>1, <2>2, <2>3, <3>1, <3>2 DEF PageOK
  <2>5. \A x \in tasks' : x \in tasks \/ x = u
    BY <2>1
  <2>6. ASSUME ListInv(w) PROVE ListInv(w)'
    <3>1. CASE gen[w] # 0
      <4>1. gen'[w] = gen[w]
        BY <2>1, <2>3, <3>1
      <4>2. \A x \in tasks : /\ x.kind = "page" /\ x.who = w => PageOK(w, x)'
                             /\ x.kind = "event" /\ w \in x.who => EventOK(w, x)'
        BY <2>1, <2>6, <4>1 DEF ListInv, PageOK, EventOK
      <4>3. \A x \in tasks' : /\ x.kind = "page" /\ x.who = w => PageOK(w, x)'
                              /\ x.kind = "event" /\ w \in x.who => EventOK(w, x)'
        BY <2>2, <2>4, <2>5, <2>6, <4>2
      <4>. QED
        BY <2>1, <2>6, <4>1, <4>3 DEF ListInv
    <3>2. CASE gen[w] = 0
      <4>1. gen'[w] = 1
        BY <2>1, <2>3, <3>2
      <4>2. DOMAIN cache[w] = {} /\ \A t \in tasks : ~(t.kind = "page" /\ t.who = w)
        BY <2>6, <3>2 DEF ListInv, PageOK
      <4>3. \A t \in tasks : t.kind = "event" /\ w \in t.who => t.push <= pushes /\ t.seen[w] = 0
        BY <2>6, <3>2 DEF ListInv, EventOK
      <4>4. handled'[w] <= pushes'
        BY <2>1, <2>6 DEF ListInv
      <4>5. \A t \in tasks' : t.kind = "event" /\ w \in t.who => EventOK(w, t)'
        BY <2>1, <2>2, <4>1, <4>3 DEF EventOK
      <4>6. \A t \in tasks' : t.kind = "page" /\ t.who = w => PageOK(w, t)'
        BY <2>4, <2>5, <2>6, <4>2
      <4>. QED
        BY <2>1, <4>2, <4>4, <4>5, <4>6 DEF ListInv
    <3>. QED
      BY <3>1, <3>2
  <2>7. ASSUME NEW x \in Workspaces \ {w}, ListInv(x) PROVE ListInv(x)'
    BY <2>1, <2>2, <2>3, <2>7 DEF ListInv, PageOK, EventOK
  <2>. QED
    BY <2>1, <2>2, <2>6, <2>7 DEF ShowInv
<1>10. ASSUME NEW t \in tasks, AskPlatform(t) PROVE ShowInv'
  <2>1. t \in PageTasks /\ t.kind = "page" /\ t.stage = "ask"
    BY <1>10, PageTaskOK DEF AskPlatform, ListCommits
  <2>2. UNCHANGED <<setting, pushes, deliveries, listVars, overlap>>
    BY <1>10 DEF AskPlatform, ListCommits, pushVars, excused
  <2>3. CASE End(t)
    <3>1. \A w \in Workspaces : ListInv(w) => ListInv(w)'
      BY <2>2, <2>3, ListLeft DEF End, TypeInv
    <3>. QED
      BY <2>2, <2>3, <3>1 DEF End, ShowInv
  <2>4. CASE Move(t, [t EXCEPT !.stage = "store", !.list = pushes])
    <3>0. PICK u : u = [t EXCEPT !.stage = "store", !.list = pushes]
      OBVIOUS
    <3>1. /\ u.kind = "page" /\ u.who = t.who /\ u.gen = t.gen /\ u.floor = t.floor
          /\ u.stage = "store" /\ u.list = pushes
      BY <2>1, <3>0 DEF PageTasks
    <3>2. tasks' = (tasks \ {t}) \cup {u}
      BY <2>4, <3>0 DEF Move
    <3>3. ASSUME NEW w \in Workspaces, ListInv(w) PROVE ListInv(w)'
      <4>1. t.who = w => PageOK(w, u)'
        BY <2>1, <2>2, <3>1, <3>3 DEF ListInv, PageOK, listVars, TypeInv, PageTasks
      <4>2. \A x \in tasks : x.kind = "page" /\ x.who = w => PageOK(w, x)'
        BY <2>2, <3>3 DEF ListInv, PageOK, listVars
      <4>3. \A x \in tasks : x.kind = "event" /\ w \in x.who => EventOK(w, x)'
        BY <2>2, <3>3 DEF ListInv, EventOK, listVars
      <4>4. \A x \in tasks' : x = u \/ x \in tasks
        BY <3>2
      <4>5. \A x \in tasks' : x.kind = "page" /\ x.who = w => PageOK(w, x)'
        BY <3>1, <4>1, <4>2, <4>4
      <4>6. \A x \in tasks' : x.kind = "event" /\ w \in x.who => EventOK(w, x)'
        BY <3>1, <4>3, <4>4
      <4>. QED
        BY <2>2, <3>3, <4>5, <4>6 DEF ListInv, listVars
    <3>. QED
      BY <2>1, <2>2, <3>1, <3>2, <3>3 DEF ShowInv
  <2>. QED
    BY <1>10, <2>3, <2>4 DEF AskPlatform, ListCommits
<1>11. ASSUME NEW t \in tasks, Store(t) PROVE ShowInv'
  <2>1. t \in PageTasks /\ t.kind = "page" /\ t.stage = "store"
    BY <1>11, PageTaskOK DEF Store
  <2>. DEFINE u == [t EXCEPT !.stage = "show"]
  <2>2. /\ u.kind = "page" /\ u.who = t.who /\ u.gen = t.gen /\ u.floor = t.floor
        /\ u.stage = "show" /\ u.list = t.list
    BY <2>1 DEF PageTasks
  <2>3. /\ UNCHANGED <<setting, pushes, deliveries, gen, handled, overlap>>
        /\ tasks' = (tasks \ {t}) \cup {u}
        /\ cache' = [cache EXCEPT ![t.who] = [g \in DOMAIN @ \cup {t.gen} |->
                                                IF g = t.gen THEN t.list ELSE @[g]]]
    BY <1>11 DEF Store, Move, pushVars, excused
  <2>. HIDE DEF u
  <2>4. \A x \in Workspaces \ {t.who} : cache'[x] = cache[x]
    BY <2>3 DEF TypeInv
  <2>5. t.who \in Workspaces
        /\ cache'[t.who] = [g \in DOMAIN cache[t.who] \cup {t.gen} |->
                              IF g = t.gen THEN t.list ELSE cache[t.who][g]]
    <3>1. t.who \in DOMAIN cache /\ t.who \in Workspaces
      BY <2>1 DEF TypeInv, PageTasks
    <3>. QED
      BY <2>3, <3>1
  <2>6. ASSUME NEW w \in Workspaces, ListInv(w) PROVE ListInv(w)'
    <3>1. \A x \in tasks : x.kind = "page" /\ x.who = w => PageOK(w, x)'
      BY <2>3, <2>6 DEF ListInv, PageOK
    <3>2. \A x \in tasks : x.kind = "event" /\ w \in x.who => EventOK(w, x)'
      BY <2>3, <2>6 DEF ListInv, EventOK
    <3>3. t.who = w => PageOK(w, t)
      BY <2>1, <2>6 DEF ListInv
    <3>4. t.who = w => PageOK(w, u)'
      BY <2>1, <2>2, <2>3, <3>3 DEF PageOK
    <3>5. \A x \in tasks' : x = u \/ x \in tasks
      BY <2>3
    <3>6. ASSUME NEW g \in DOMAIN cache'[w]
          PROVE  g \in 1..gen'[w] /\ (g = gen'[w] => cache'[w][g] >= handled'[w])
      <4>1. CASE w # t.who
        BY <2>3, <2>4, <2>6, <4>1 DEF ListInv
      <4>2. CASE w = t.who /\ g = t.gen
        BY <2>1, <2>3, <2>5, <3>3, <4>2 DEF PageOK
      <4>3. CASE w = t.who /\ g # t.gen
        <5>1. g \in DOMAIN cache[w] /\ cache'[w][g] = cache[w][g]
          BY <2>5, <4>3
        <5>. QED
          BY <2>3, <2>6, <5>1 DEF ListInv
      <4>. QED
        BY <4>1, <4>2, <4>3
    <3>7. \A x \in tasks' : x.kind = "page" /\ x.who = w => PageOK(w, x)'
      BY <2>2, <3>1, <3>4, <3>5
    <3>8. \A x \in tasks' : x.kind = "event" /\ w \in x.who => EventOK(w, x)'
      BY <2>2, <3>2, <3>5
    <3>. QED
      BY <2>3, <2>6, <3>6, <3>7, <3>8 DEF ListInv
  <2>. QED
    BY <2>1, <2>2, <2>3, <2>6 DEF ShowInv
<1>12. ASSUME NEW t \in tasks, Show(t) PROVE ShowInv'
  BY <1>1, <1>12 DEF Show, End, pushVars, excused
<1>13. ASSUME NEW w \in Workspaces, Expire(w) PROVE ShowInv'
  <2>1. PICK g \in DOMAIN cache[w] : cache' = [cache EXCEPT ![w] = [x \in DOMAIN @ \ {g} |-> @[x]]]
    BY <1>13 DEF Expire
  <2>2. UNCHANGED <<setting, pushes, deliveries, gen, handled, tasks, overlap>>
    BY <1>13 DEF Expire, pushVars, excused
  <2>3. cache'[w] = [x \in DOMAIN cache[w] \ {g} |-> cache[w][x]]
        /\ \A x \in Workspaces \ {w} : cache'[x] = cache[x]
    BY <2>1 DEF TypeInv
  <2>4. ASSUME NEW v \in Workspaces, ListInv(v) PROVE ListInv(v)'
    <3>1. \A x \in DOMAIN cache'[v] : x \in DOMAIN cache[v] /\ cache'[v][x] = cache[v][x]
      BY <2>3
    <3>. QED
      BY <2>2, <2>4, <3>1 DEF ListInv, PageOK, EventOK
  <2>. QED
    BY <2>2, <2>4 DEF ShowInv
<1>14. ASSUME NEW w \in Workspaces, ExpireGeneration(w) PROVE ShowInv'
  <2>1. /\ UNCHANGED <<setting, pushes, deliveries, cache, handled, tasks, overlap>>
        /\ gen' = [gen EXCEPT ![w] = 0] /\ cache[w] = <<>>
        /\ \A t \in tasks : t.kind = "page" => t.who # w
        /\ \A t \in tasks : t.kind = "event" => w \notin t.who
    BY <1>14 DEF ExpireGeneration, pushVars, excused
  <2>2. DOMAIN cache[w] = {}
    BY <2>1
  <2>3. gen'[w] = 0 /\ \A x \in Workspaces \ {w} : gen'[x] = gen[x]
    BY <2>1 DEF TypeInv
  <2>4. ASSUME NEW v \in Workspaces, ListInv(v) PROVE ListInv(v)'
    <3>1. CASE v = w
      BY <2>1, <2>2, <2>4, <3>1 DEF ListInv
    <3>2. CASE v # w
      BY <2>1, <2>3, <2>4, <3>2 DEF ListInv, PageOK, EventOK
    <3>. QED
      BY <3>1, <3>2
  <2>. QED
    BY <2>1, <2>4 DEF ShowInv
<1>. QED
  BY <1>2, <1>3, <1>4, <1>5, <1>6, <1>7, <1>8, <1>9, <1>10, <1>11, <1>12, <1>13, <1>14, FourSides
  DEF PushActs, ListActs

\* A page opened after a push's webhook was answered shows the push
\* (forget_platform_lists of commit_checks.py), even where lists asked for
\* before it are stored after it.
THEOREM AnsweredPushesShowHolds == Spec => []AnsweredPushesShow
<1>1. Init => ShowInv
  BY DEF Init, ShowInv, ListInv
<1>2. ASSUME TypeInv, ShowInv PROVE AnsweredPushesShow
  BY <1>2, PageTaskOK DEF ShowInv, ListInv, PageOK, PageTasks, AnsweredPushesShow
<1>. QED
  BY <1>1, <1>2, ShowStep, TypesHold, PTL DEF Spec

-----------------------------------------------------------------------------
(* Webhooks *)

AtWork == {t \in tasks : t.kind \in {"register", "delete"}}
Numbers(t) == {t.old, t.new} \ {0}

\* A number is one workspace's.
Apart ==
  /\ \A w, x \in Workspaces : w # x => HookOf(w) \cap HookOf(x) = {}
  /\ \A t \in AtWork, w \in Workspaces : w # t.who => Numbers(t) \cap HookOf(w) = {}
  /\ \A t, u \in AtWork : t.who # u.who => Numbers(t) \cap Numbers(u) = {}
Bounded ==
  /\ hooks \subseteq 1..made
  /\ \A w \in Workspaces : HookOf(w) \subseteq 1..made
  /\ \A t \in AtWork : Numbers(t) \subseteq 1..made

\* A request holds the hook it made, and knows of the one it replaces, which
\* it has taken down or left behind once it is past that.
Fresh(t) ==
  /\ t.new \in hooks /\ t.new # t.old
  /\ \A w \in Workspaces : project[w].hook # t.new
  /\ \A u \in AtWork \ {t} : t.new \notin Numbers(u)
Replaces(t) ==
  /\ t.stage # "drop" => t.old \notin hooks \ left
  /\ IF t.stage = "save" THEN Fresh(t) ELSE t.new = 0
  /\ project[t.who].hook \in {t.old, 0} \cup left
  /\ t.who \in failed => t.new \in left \cup {0}

Owned(h) == (\E w \in Workspaces : project[w].hook = h) \/ (\E t \in AtWork : h \in {t.old, t.new})
There(w) == (\E t \in AtWork : t.who = w) \/ HookOf(w) \subseteq hooks

HookInv ==
  /\ \A w \in Workspaces : project[w].hook # 0 => project[w].is
  /\ Apart /\ Bounded
  /\ \A t \in AtWork : Replaces(t)
  /\ \A t, u \in AtWork : t.who = u.who => t = u \/ t.who \in failed
  /\ \A w \in Added \ failed : There(w)
  /\ \A h \in hooks \ left : Owned(h)

\* The old hook is taken down, or the platform keeps it.
LEMMA DropOldStep ==
  ASSUME TypeInv, HookInv, NEW t \in tasks, DropOld(t)
  PROVE  HookInv'
<1>1. t \in HookTasks /\ t \in AtWork /\ t.stage = "drop"
  BY HookTaskOK DEF DropOld, AtWork
<1>2. PICK u : /\ u.kind = t.kind /\ u.who = t.who /\ u.old = t.old /\ u.new = t.new
               /\ u.stage \in {"create", "remove"} /\ tasks' = (tasks \ {t}) \cup {u}
  <2>1. PICK u : /\ u = [t EXCEPT !.stage = IF t.kind = "register" THEN "create" ELSE "remove"]
                 /\ tasks' = (tasks \ {t}) \cup {u}
    BY DEF DropOld, Move
  <2>. QED
    BY <1>1, <2>1 DEF HookTasks
<1>3. AtWork' = (AtWork \ {t}) \cup {u} /\ UNCHANGED <<project, made, failed>>
  BY <1>1, <1>2 DEF AtWork, DropOld, Excuse, excused
<1>4. /\ hooks' \subseteq hooks /\ left \subseteq left'
      /\ \A h \in hooks \ hooks' : h = t.old
      /\ t.old \notin hooks' \ left'
  <2>1. CASE hooks' = hooks \ {t.old} /\ UNCHANGED excused
    BY <2>1 DEF excused
  <2>2. CASE UNCHANGED hooks /\ Excuse({t.old}, {})
    BY <2>2 DEF Excuse
  <2>. QED
    BY <2>1, <2>2 DEF DropOld
<1>5. Numbers(u) = Numbers(t) /\ t.new = 0
  BY <1>1, <1>2 DEF Numbers, HookInv, Replaces
<1>6. Apart'
  <2>1. \A w \in Workspaces : HookOf(w)' = HookOf(w)
    BY <1>3 DEF HookOf
  <2>2. \A x \in AtWork' : \E y \in AtWork : x.who = y.who /\ Numbers(x) = Numbers(y)
    BY <1>1, <1>2, <1>3, <1>5
  <2>. QED
    BY <1>3, <2>1, <2>2 DEF HookInv, Apart
<1>7. Bounded'
  BY <1>1, <1>3, <1>4, <1>5 DEF HookInv, Bounded, HookOf, Numbers
<1>8. ASSUME NEW s \in AtWork, s # t PROVE Replaces(s)'
  <2>1. Replaces(s)
    BY <1>8 DEF HookInv
  <2>2. s.stage = "save" => Fresh(s)'
    <3>. SUFFICES ASSUME s.stage = "save" PROVE Fresh(s)'
      OBVIOUS
    <3>1. Fresh(s)
      BY <2>1 DEF Replaces
    <3>2. s.new # t.old
      <4>1. s.new # 0
        BY <3>1 DEF Fresh, HookInv, Bounded
      <4>. QED
        BY <1>1, <1>8, <3>1, <4>1 DEF Fresh, Numbers
    <3>3. \A v \in AtWork' \ {s} : s.new \notin Numbers(v)
      BY <1>1, <1>3, <1>5, <1>8, <3>1 DEF Fresh
    <3>. QED
      BY <1>3, <1>4, <3>1, <3>2, <3>3 DEF Fresh, Numbers
  <2>. QED
    BY <1>3, <1>4, <2>1, <2>2 DEF Replaces
<1>9. Replaces(u)'
  <2>1. Replaces(t)
    BY <1>1 DEF HookInv
  <2>. QED
    BY <1>2, <1>3, <1>4, <1>5, <2>1 DEF Replaces
<1>10. ASSUME NEW w \in Added' \ failed' PROVE There(w)'
  <2>1. w \in Workspaces /\ There(w) /\ HookOf(w)' = HookOf(w)
    BY <1>3, <1>10 DEF HookInv, Added, HookOf
  <2>2. CASE \E x \in AtWork : x.who = w
    BY <1>2, <1>3, <2>2 DEF There
  <2>3. CASE ~\E x \in AtWork : x.who = w
    <3>1. t.old \notin HookOf(w)
      BY <1>1, <2>1, <2>3 DEF HookInv, Apart, Numbers, HookOf
    <3>. QED
      BY <1>4, <2>1, <2>3, <3>1 DEF There
  <2>. QED
    BY <2>2, <2>3
<1>11. ASSUME NEW h \in hooks' \ left' PROVE Owned(h)'
  BY <1>1, <1>2, <1>3, <1>4, <1>11 DEF HookInv, Owned
<1>. QED
  BY <1>1, <1>2, <1>3, <1>6, <1>7, <1>8, <1>9, <1>10, <1>11 DEF HookInv

\* The platform makes a hook, with a number nobody has yet.
LEMMA CreateHookStep ==
  ASSUME TypeInv, HookInv, NEW t \in tasks, CreateHook(t), made' = made + 1
  PROVE  HookInv'
<1>1. t \in HookTasks /\ t \in AtWork /\ t.stage = "create" /\ made \in Nat
  BY HookTaskOK DEF CreateHook, AtWork, TypeInv
<1>0. /\ hooks' = hooks \cup {made + 1} /\ Move(t, [t EXCEPT !.stage = "save", !.new = made + 1])
      /\ left' = left \cup (IF t.who \in failed THEN {made + 1} ELSE {})
      /\ failed' = failed /\ UNCHANGED <<project, overlap>>
  BY <1>1 DEF CreateHook, Excuse
<1>2. PICK u : /\ u.kind = t.kind /\ u.who = t.who /\ u.old = t.old /\ u.new = made'
               /\ u.stage = "save" /\ tasks' = (tasks \ {t}) \cup {u}
  <2>1. PICK u : u = [t EXCEPT !.stage = "save", !.new = made + 1] /\ tasks' = (tasks \ {t}) \cup {u}
    BY <1>0 DEF Move
  <2>. QED
    BY <1>1, <2>1 DEF HookTasks
<1>3. AtWork' = (AtWork \ {t}) \cup {u}
  BY <1>1, <1>2 DEF AtWork
<1>4. /\ hooks \subseteq 1..made /\ made' \notin 1..made /\ made' # 0 /\ 1..made \subseteq 1..made'
      /\ made' \in 1..made'
  BY <1>1 DEF HookInv, Bounded
<1>5. /\ Numbers(u) \subseteq Numbers(t) \cup {made'} /\ t.new = 0
      /\ \A x \in AtWork : made' \notin Numbers(x)
      /\ \A w \in Workspaces : made' # project[w].hook
  BY <1>1, <1>2, <1>4 DEF Numbers, HookInv, Replaces, Bounded, HookOf
<1>6. Apart'
  <2>1. \A w \in Workspaces : HookOf(w)' = HookOf(w) /\ made' \notin HookOf(w)
    BY <1>0, <1>5 DEF HookOf
  <2>2. \A x \in AtWork' : \E y \in AtWork : x.who = y.who /\ Numbers(x) \subseteq Numbers(y) \cup {made'}
                                             /\ (made' \in Numbers(x) => x = u)
    BY <1>1, <1>2, <1>3, <1>5
  <2>3. \A x \in AtWork', w \in Workspaces : w # x.who => Numbers(x) \cap HookOf(w) = {}
    BY <2>1, <2>2 DEF HookInv, Apart
  <2>4. \A x, y \in AtWork' : x.who # y.who => Numbers(x) \cap Numbers(y) = {}
    BY <2>2 DEF HookInv, Apart
  <2>5. \A w, x \in Workspaces : w # x => HookOf(w)' \cap HookOf(x)' = {}
    BY <2>1 DEF HookInv, Apart
  <2>. QED
    BY <2>1, <2>3, <2>4, <2>5 DEF Apart
<1>7. Bounded'
  <2>1. \A x \in AtWork' : Numbers(x) \subseteq 1..made'
    BY <1>1, <1>3, <1>4, <1>5 DEF HookInv, Bounded
  <2>2. \A w \in Workspaces : HookOf(w)' \subseteq 1..made'
    BY <1>0, <1>4 DEF HookInv, Bounded, HookOf
  <2>. QED
    BY <1>0, <1>1, <1>4, <2>1, <2>2 DEF Bounded
<1>8. ASSUME NEW s \in AtWork, s # t PROVE Replaces(s)'
  <2>1. Replaces(s) /\ s \in HookTasks
    BY <1>8, HookTaskOK DEF HookInv, AtWork
  <2>2. s.stage = "save" => Fresh(s)'
    <3>. SUFFICES ASSUME s.stage = "save" PROVE Fresh(s)'
      OBVIOUS
    <3>1. Fresh(s)
      BY <2>1 DEF Replaces
    <3>2. \A v \in AtWork' \ {s} : s.new \notin Numbers(v)
      <4>1. s.new # made' /\ s.new \notin Numbers(t)
        BY <1>1, <1>4, <1>8, <3>1 DEF Fresh
      <4>. QED
        BY <1>3, <1>5, <1>8, <3>1, <4>1 DEF Fresh
    <3>. QED
      BY <1>0, <3>1, <3>2 DEF Fresh
  <2>3. s.old # made'
    BY <1>4, <1>5, <1>8 DEF Numbers
  <2>. QED
    BY <1>0, <1>1, <2>1, <2>2, <2>3 DEF Replaces
<1>9. Replaces(u)'
  <2>1. Replaces(t)
    BY <1>1 DEF HookInv
  <2>2. t.old # made'
    BY <1>1, <1>4, <1>5 DEF Numbers
  <2>3. \A v \in AtWork' \ {u} : u.new \notin Numbers(v)
    BY <1>2, <1>3, <1>5
  <2>4. Fresh(u)'
    BY <1>0, <1>1, <1>2, <1>5, <2>2, <2>3 DEF Fresh
  <2>. QED
    BY <1>0, <1>1, <1>2, <2>1, <2>2, <2>4 DEF Replaces
<1>10. ASSUME NEW w \in Added' \ failed' PROVE There(w)'
  <2>1. w \in Workspaces /\ There(w) /\ HookOf(w)' = HookOf(w)
    BY <1>0, <1>10 DEF HookInv, Added, HookOf
  <2>. QED
    BY <1>0, <1>2, <1>3, <2>1 DEF There
<1>11. ASSUME NEW h \in hooks' \ left' PROVE Owned(h)'
  <2>1. CASE h = made'
    BY <1>2, <1>3, <2>1 DEF Owned
  <2>2. CASE h # made'
    <3>1. h \in hooks \ left
      BY <1>0, <1>1, <1>11, <2>2
    <3>2. h # 0
      BY <1>4, <3>1
    <3>. QED
      BY <1>0, <1>1, <1>2, <1>3, <1>5, <3>1, <3>2 DEF HookInv, Owned
  <2>. QED
    BY <2>1, <2>2
<1>. QED
  BY <1>0, <1>1, <1>2, <1>3, <1>6, <1>7, <1>8, <1>9, <1>10, <1>11 DEF HookInv

\* A request ends without a word to the row: what it alone knew of is down or
\* left behind.
LEMMA RequestEnds ==
  ASSUME TypeInv, HookInv, NEW t \in AtWork, tasks' = tasks \ {t}, UNCHANGED <<hooks, made, project>>,
         left \subseteq left', failed \subseteq failed', failed' \subseteq failed \cup {t.who},
         t.new \in left' \cup {0}, t.old \notin hooks \ left',
         There(t.who)' \/ t.who \in failed' \/ t.who \notin Added
  PROVE  HookInv'
<1>1. AtWork' = AtWork \ {t}
  BY DEF AtWork
<1>2. \A w \in Workspaces : HookOf(w)' = HookOf(w)
  BY DEF HookOf
<1>3. Apart' /\ Bounded'
  BY <1>1, <1>2 DEF HookInv, Apart, Bounded
<1>4. ASSUME NEW s \in AtWork' PROVE Replaces(s)'
  <2>1. Replaces(s)
    BY <1>1, <1>4 DEF HookInv
  <2>2. s.stage = "save" => Fresh(s)'
    BY <1>1, <2>1 DEF Replaces, Fresh
  <2>3. s.who \in failed' => s.new \in left' \cup {0}
    <3>1. s.who = t.who => s.who \in failed
      BY <1>1, <1>4 DEF HookInv
    <3>. QED
      BY <2>1, <3>1 DEF Replaces
  <2>. QED
    BY <2>1, <2>2, <2>3 DEF Replaces
<1>5. ASSUME NEW w \in Added' \ failed' PROVE There(w)'
  <2>1. There(w) /\ HookOf(w)' = HookOf(w) /\ w \in Added
    BY <1>5 DEF HookInv, Added, HookOf
  <2>. QED
    BY <1>1, <1>5, <2>1 DEF There
<1>6. ASSUME NEW h \in hooks' \ left' PROVE Owned(h)'
  <2>1. Owned(h) /\ h # t.old /\ h # t.new
    BY <1>6 DEF HookInv, Bounded
  <2>. QED
    BY <1>1, <2>1 DEF Owned
<1>7. \A s, u \in AtWork' : s.who = u.who => s = u \/ s.who \in failed'
  BY <1>1 DEF HookInv
<1>. QED
  BY <1>3, <1>4, <1>5, <1>6, <1>7 DEF HookInv

\* The rows, the hook of one of them changed to one its request alone knows.
LEMMA RowChanges ==
  ASSUME TypeInv, HookInv, NEW t \in AtWork, t \in HookTasks, tasks' = tasks \ {t},
         UNCHANGED <<hooks, made, left>>, failed \ {t.who} \subseteq failed', failed' \subseteq failed,
         t.who \notin failed' => \A s \in AtWork \ {t} : s.who # t.who,
         t.stage \in {"save", "remove"}, NEW row \in [is : BOOLEAN, hook : Nat], row.hook = t.new,
         row.hook # 0 => row.is, project' = [project EXCEPT ![t.who] = row]
  PROVE  HookInv'
<1>1. AtWork' = AtWork \ {t}
  BY DEF AtWork
<1>2. /\ t.who \in Workspaces /\ project'[t.who] = row
      /\ \A w \in Workspaces \ {t.who} : project'[w] = project[w]
  BY DEF TypeInv, HookTasks
<1>3. Replaces(t)
  BY DEF HookInv
<1>4. HookOf(t.who)' \subseteq Numbers(t) /\ \A w \in Workspaces \ {t.who} : HookOf(w)' = HookOf(w)
  BY <1>2 DEF HookOf, Numbers
<1>5. Apart'
  <2>1. \A x \in AtWork', w \in Workspaces : w # x.who => Numbers(x) \cap HookOf(w)' = {}
    BY <1>1, <1>4 DEF HookInv, Apart
  <2>2. \A x, y \in AtWork' : x.who # y.who => Numbers(x) \cap Numbers(y) = {}
    BY <1>1 DEF HookInv, Apart
  <2>3. \A w, x \in Workspaces : w # x => HookOf(w)' \cap HookOf(x)' = {}
    BY <1>4 DEF HookInv, Apart
  <2>. QED
    BY <2>1, <2>2, <2>3 DEF Apart
<1>6. Bounded'
  BY <1>1, <1>4 DEF HookInv, Bounded
<1>7. ASSUME NEW s \in AtWork' PROVE Replaces(s)'
  <2>1. Replaces(s) /\ s \in AtWork /\ s # t
    BY <1>1, <1>7 DEF HookInv
  <2>2. s.stage = "save" => Fresh(s)'
    <3>. SUFFICES ASSUME s.stage = "save" PROVE Fresh(s)'
      OBVIOUS
    <3>1. Fresh(s) /\ s.new # 0
      BY <2>1 DEF Replaces, Fresh, HookInv, Bounded
    <3>2. s.new # t.new
      BY <2>1, <3>1 DEF Fresh, Numbers
    <3>. QED
      BY <1>1, <1>2, <3>1, <3>2 DEF Fresh
  <2>3. s.who \in Workspaces
    BY <2>1, HookTaskOK DEF HookTasks, AtWork
  <2>4. project'[s.who].hook \in {s.old, 0} \cup left
    <3>1. CASE s.who = t.who
      BY <1>2, <1>3, <2>1, <3>1 DEF HookInv, Replaces
    <3>2. CASE s.who # t.who
      BY <1>2, <2>1, <2>3, <3>2 DEF Replaces
    <3>. QED
      BY <3>1, <3>2
  <2>. QED
    BY <2>1, <2>2, <2>4 DEF Replaces
<1>8. ASSUME NEW w \in Added' \ failed' PROVE There(w)'
  <2>1. CASE w = t.who
    <3>1. CASE t.stage = "save"
      BY <1>2, <1>3, <2>1, <3>1 DEF Replaces, Fresh, There, HookOf
    <3>2. CASE t.stage # "save"
      BY <1>2, <1>3, <2>1, <3>2 DEF Replaces, There, HookOf
    <3>. QED
      BY <3>1, <3>2
  <2>2. CASE w # t.who
    <3>1. w \in Added \ failed /\ w \in Workspaces /\ There(w)
      BY <1>2, <1>8, <2>2 DEF Added, HookInv
    <3>. QED
      BY <1>1, <1>4, <2>2, <3>1 DEF There
  <2>. QED
    BY <2>1, <2>2
<1>9. ASSUME NEW h \in hooks' \ left' PROVE Owned(h)'
  <2>1. Owned(h) /\ h # t.old /\ h # 0
    BY <1>3, <1>9 DEF HookInv, Replaces, Bounded
  <2>2. h # project[t.who].hook
    BY <1>3, <1>9, <2>1 DEF Replaces
  <2>. QED
    BY <1>1, <1>2, <2>1, <2>2 DEF Owned
<1>10. \A s, u \in AtWork' : s.who = u.who => s = u \/ s.who \in failed'
  BY <1>1 DEF HookInv
<1>11. \A w \in Workspaces : project'[w].hook # 0 => project'[w].is
  BY <1>2 DEF HookInv
<1>. QED
  BY <1>5, <1>6, <1>7, <1>8, <1>9, <1>10, <1>11 DEF HookInv

LEMMA RegisteredStep ==
  ASSUME TypeInv, HookInv, NEW t \in tasks, Registered(t)
  PROVE  HookInv'
<1>1. t \in HookTasks /\ t \in AtWork /\ t.stage = "save" /\ tasks' = tasks \ {t}
  BY HookTaskOK DEF Registered, AtWork, End
<1>2. Replaces(t) /\ Fresh(t) /\ t.new # 0 /\ t.who \in Workspaces
  BY <1>1 DEF HookInv, Replaces, Fresh, Bounded, HookTasks
<1>3. CASE project[t.who].is
  <2>. DEFINE theirs == {x \in tasks : x.kind \in {"register", "delete"} /\ x.who = t.who}
              row == [project[t.who] EXCEPT !.hook = t.new]
  <2>1. /\ project' = [project EXCEPT ![t.who] = row] /\ UNCHANGED <<hooks, made, left>>
        /\ failed' = (IF Cardinality(theirs) = 1 THEN failed \ {t.who} ELSE failed)
    BY <1>1, <1>2, <1>3 DEF Registered, SaveHook, TypeInv
  <2>2. row \in [is : BOOLEAN, hook : Nat] /\ row.hook = t.new /\ row.is
    BY <1>1, <1>2, <1>3 DEF TypeInv, HookTasks
  <2>3. t.who \notin failed' => \A s \in AtWork \ {t} : s.who # t.who
    <3>1. CASE Cardinality(theirs) = 1
      <4>1. IsFiniteSet(theirs)
        BY FS_Subset DEF TypeInv
      <4>2. PICK x : theirs = {x}
        BY <3>1, <4>1, FS_Singleton
      <4>3. t \in theirs /\ \A s \in AtWork : s.who = t.who => s \in theirs
        BY <1>1 DEF AtWork
      <4>. QED
        BY <4>2, <4>3
    <3>2. CASE Cardinality(theirs) # 1
      BY <1>1, <2>1, <3>2 DEF HookInv
    <3>. QED
      BY <3>1, <3>2
  <2>. HIDE DEF row
  <2>. QED
    BY <1>1, <2>1, <2>2, <2>3, RowChanges
<1>4. CASE ~project[t.who].is
  <2>1. UNCHANGED <<project, hooks, made, failed>> /\ left' = left \cup {t.new}
    BY <1>4 DEF Registered, Excuse
  <2>2. t.who \notin Added
    BY <1>4 DEF Added
  <2>. QED
    BY <1>1, <1>2, <2>1, <2>2, RequestEnds DEF Replaces
<1>. QED
  BY <1>3, <1>4

LEMMA RemoveRowStep ==
  ASSUME TypeInv, HookInv, NEW t \in tasks, RemoveRow(t)
  PROVE  HookInv'
<1>1. t \in HookTasks /\ t \in AtWork /\ t.stage = "remove" /\ tasks' = tasks \ {t}
  BY HookTaskOK DEF RemoveRow, AtWork, End
<1>2. t.new = 0
  BY <1>1 DEF HookInv, Replaces
<1>3. project' = [project EXCEPT ![t.who] = NoProject] /\ UNCHANGED <<hooks, made, left, failed>>
  BY DEF RemoveRow, Removed, excused
<1>4. NoProject \in [is : BOOLEAN, hook : Nat] /\ NoProject.hook = 0
  BY DEF NoProject
<1>5. t.who \notin failed' => \A s \in AtWork \ {t} : s.who # t.who
  BY <1>1, <1>3 DEF HookInv
<1>. QED
  BY <1>1, <1>2, <1>3, <1>4, <1>5, RowChanges

\* The row goes with its connection, and its hook stays behind.
LEMMA RemoveConnectionStep ==
  ASSUME TypeInv, HookInv, NEW w \in Workspaces, RemoveConnection(w)
  PROVE  HookInv'
<1>1. /\ AtWork' = AtWork /\ UNCHANGED <<hooks, made, failed>>
      /\ project' = [project EXCEPT ![w] = NoProject] /\ left' = left \cup HookOf(w)
  BY DEF RemoveConnection, Removed, Excuse, AtWork
<1>2. /\ ~project'[w].is /\ project'[w].hook = 0
      /\ \A x \in Workspaces \ {w} : project'[x] = project[x]
  BY <1>1 DEF TypeInv, NoProject
<1>3. HookOf(w)' = {} /\ \A x \in Workspaces \ {w} : HookOf(x)' = HookOf(x)
  BY <1>2 DEF HookOf
<1>4. Apart' /\ Bounded'
  BY <1>1, <1>3 DEF HookInv, Apart, Bounded
<1>5. ASSUME NEW s \in AtWork' PROVE Replaces(s)'
  <2>1. Replaces(s) /\ s.who \in Workspaces /\ s.new \in Nat
    BY <1>1, <1>5, HookTaskOK DEF HookInv, AtWork, HookTasks
  <2>2. s.stage = "save" => Fresh(s)'
    <3>1. s.stage = "save" => s.new # 0
      BY <2>1 DEF Replaces, Fresh, HookInv, Bounded
    <3>. QED
      BY <1>1, <1>2, <2>1, <3>1 DEF Replaces, Fresh
  <2>. QED
    BY <1>1, <1>2, <2>1, <2>2 DEF Replaces
<1>6. ASSUME NEW x \in Added' \ failed' PROVE There(x)'
  BY <1>1, <1>2, <1>3, <1>6 DEF HookInv, Added, There
<1>7. ASSUME NEW h \in hooks' \ left' PROVE Owned(h)'
  <2>1. Owned(h) /\ h # 0 /\ h \notin HookOf(w)
    BY <1>1, <1>7 DEF HookInv, Bounded
  <2>. QED
    BY <1>1, <1>2, <2>1 DEF Owned, HookOf
<1>. QED
  BY <1>1, <1>2, <1>4, <1>5, <1>6, <1>7 DEF HookInv

\* A request begins, knowing of the row's hook; one that meets another on the
\* project is excused with what both know of.
LEMMA BeginHookStep ==
  ASSUME TypeInv, HookInv, NEW kind \in {"register", "delete"}, NEW w \in Added, BeginHook(kind, w),
         UNCHANGED hookVars
  PROVE  HookInv'
<1>1. PICK u : u = HookTask(kind, w)
  OBVIOUS
<1>2. /\ u.kind = kind /\ u.who = w /\ u.stage = "drop" /\ u.old = project[w].hook /\ u.new = 0
      /\ AtWork' = AtWork \cup {u} /\ tasks' = tasks \cup {u}
  BY <1>1 DEF HookTask, BeginHook, AtWork
<1>3. w \in Workspaces /\ UNCHANGED <<hooks, made, project>> /\ Added' = Added
      /\ \A x \in Workspaces : HookOf(x)' = HookOf(x)
  BY DEF Added, hookVars, HookOf
<1>4. /\ left \subseteq left' /\ failed \subseteq failed' /\ failed' \subseteq failed \cup {w}
      /\ \/ /\ w \in failed' /\ \A t \in AtWork : t.who = w => t.new \in left'
         \/ /\ left' = left /\ failed' = failed /\ \A t \in AtWork : t.who # w
  <2>1. CASE Busy(w)
    <3>1. failed' = failed \cup {w}
          /\ left' = left \cup (HookOf(w) \cup UNION {{t.old, t.new} : t \in {x \in tasks : x.who = w}})
      BY <2>1 DEF BeginHook, Excuse
    <3>2. \A t \in AtWork : t.who = w => t.new \in UNION {{x.old, x.new} : x \in {y \in tasks : y.who = w}}
      BY DEF AtWork
    <3>. QED
      BY <3>1, <3>2
  <2>2. CASE ~Busy(w)
    BY <2>2 DEF BeginHook, excused, Busy, AtWork
  <2>. QED
    BY <2>1, <2>2
<1>5. Numbers(u) = HookOf(w)
  BY <1>2 DEF Numbers, HookOf
<1>6. Apart'
  <2>1. \A x \in AtWork', y \in Workspaces : y # x.who => Numbers(x) \cap HookOf(y) = {}
    BY <1>2, <1>3, <1>5 DEF HookInv, Apart
  <2>2. \A x, y \in AtWork' : x.who # y.who => Numbers(x) \cap Numbers(y) = {}
    BY <1>2, <1>3, <1>5 DEF HookInv, Apart
  <2>. QED
    BY <1>3, <2>1, <2>2 DEF HookInv, Apart
<1>7. Bounded'
  BY <1>2, <1>3, <1>5 DEF HookInv, Bounded
<1>8. ASSUME NEW s \in AtWork PROVE Replaces(s)'
  <2>1. Replaces(s)
    BY DEF HookInv
  <2>2. s.stage = "save" => Fresh(s)'
    <3>. SUFFICES ASSUME s.stage = "save" PROVE Fresh(s)'
      OBVIOUS
    <3>1. Fresh(s) /\ s.new \notin HookOf(w)
      BY <1>3, <2>1 DEF Replaces, Fresh, HookOf
    <3>. QED
      BY <1>2, <1>3, <1>5, <3>1 DEF Fresh
  <2>3. s.who \in failed' => s.new \in left' \cup {0}
    BY <1>4, <2>1 DEF Replaces
  <2>. QED
    BY <1>3, <1>4, <2>1, <2>2, <2>3 DEF Replaces
<1>9. Replaces(u)'
  BY <1>2, <1>3 DEF Replaces
<1>10. ASSUME NEW x \in Added' \ failed' PROVE There(x)'
  BY <1>2, <1>3, <1>4, <1>10 DEF HookInv, There, Added
<1>11. ASSUME NEW h \in hooks' \ left' PROVE Owned(h)'
  BY <1>2, <1>3, <1>4, <1>11 DEF HookInv, Owned
<1>12. \A s, t \in AtWork' : s.who = t.who => s = t \/ s.who \in failed'
  BY <1>2, <1>4 DEF HookInv
<1>13. \A x \in Workspaces : project'[x].hook # 0 => project'[x].is
  BY <1>3 DEF HookInv
<1>. QED
  BY <1>2, <1>6, <1>7, <1>8, <1>9, <1>10, <1>11, <1>12, <1>13 DEF HookInv

\* A project is added, without a hook yet.
LEMMA AddProjectStep ==
  ASSUME TypeInv, HookInv, NEW w \in Workspaces, AddProject(w)
  PROVE  HookInv'
<1>1. /\ UNCHANGED <<hooks, made, left, failed>> /\ ~project[w].is
      /\ project' = [project EXCEPT ![w] = [is |-> TRUE, hook |-> 0]]
      /\ \A t \in AtWork : t.who # w
  BY DEF AddProject, excused, Added, Busy, AtWork
<1>2. project[w].hook = 0 /\ project'[w].hook = 0 /\ project'[w].is
      /\ \A x \in Workspaces \ {w} : project'[x] = project[x]
  BY <1>1 DEF HookInv, TypeInv
<1>3. \A x \in Workspaces : HookOf(x)' = HookOf(x) /\ project'[x].hook = project[x].hook
  BY <1>2 DEF HookOf
<1>4. ASSUME NEW x \in Added' \ failed, x # w PROVE x \in Added \ failed
  BY <1>2, <1>4 DEF Added
<1>5. CASE UNCHANGED tasks
  <2>1. AtWork' = AtWork
    BY <1>5 DEF AtWork
  <2>2. \A t \in AtWork : t.who \in Workspaces
    BY HookTaskOK DEF AtWork, HookTasks
  <2>3. Apart' /\ Bounded'
    BY <1>1, <1>3, <2>1 DEF HookInv, Apart, Bounded
  <2>4. \A t \in AtWork' : Replaces(t)'
    BY <1>1, <1>3, <2>1, <2>2 DEF HookInv, Replaces, Fresh
  <2>5. ASSUME NEW x \in Added' \ failed' PROVE There(x)'
    <3>1. CASE x = w
      BY <1>2, <3>1 DEF There, HookOf
    <3>2. CASE x # w
      BY <1>1, <1>3, <1>4, <2>1, <2>5, <3>2 DEF There, HookInv, Added
    <3>. QED
      BY <3>1, <3>2
  <2>6. \A h \in hooks' \ left' : Owned(h)'
    BY <1>1, <1>3, <2>1 DEF HookInv, Owned
  <2>. QED
    BY <1>1, <1>2, <2>1, <2>3, <2>4, <2>5, <2>6 DEF HookInv
<1>6. CASE ~UNCHANGED tasks
  <2>1. PICK u : u = [HookTask("register", w) EXCEPT !.old = 0, !.stage = "create"]
                 /\ tasks' = tasks \cup {u}
    BY <1>6 DEF AddProject
  <2>2. /\ u.kind = "register" /\ u.who = w /\ u.stage = "create" /\ u.old = 0 /\ u.new = 0
        /\ AtWork' = AtWork \cup {u}
    BY <2>1 DEF HookTask, AtWork
  <2>3. \A t \in AtWork : t.who \in Workspaces
    BY HookTaskOK DEF AtWork, HookTasks
  <2>4. Numbers(u) = {}
    BY <2>2 DEF Numbers
  <2>5. Apart' /\ Bounded'
    BY <1>1, <1>3, <2>2, <2>4 DEF HookInv, Apart, Bounded
  <2>6. \A t \in AtWork : Replaces(t)'
    BY <1>1, <1>3, <2>2, <2>3, <2>4 DEF HookInv, Replaces, Fresh
  <2>7. Replaces(u)'
    BY <1>1, <1>2, <2>2 DEF HookInv, Bounded, Replaces
  <2>8. ASSUME NEW x \in Added' \ failed' PROVE There(x)'
    <3>1. CASE x = w
      BY <1>2, <3>1 DEF There, HookOf
    <3>2. CASE x # w
      BY <1>1, <1>3, <1>4, <2>2, <2>8, <3>2 DEF There, HookInv, Added
    <3>. QED
      BY <3>1, <3>2
  <2>9. \A h \in hooks' \ left' : Owned(h)'
    BY <1>1, <1>3, <2>2 DEF HookInv, Owned
  <2>10. \A s, t \in AtWork' : s.who = t.who => s = t \/ s.who \in failed'
    BY <1>1, <2>2 DEF HookInv
  <2>. QED
    BY <1>1, <1>2, <2>2, <2>5, <2>6, <2>7, <2>8, <2>9, <2>10 DEF HookInv
<1>. QED
  BY <1>5, <1>6

LEMMA HookStepKeeps == ASSUME TypeInv, HookInv, [Next]_vars PROVE HookInv'
<1>1. ASSUME UNCHANGED <<hooks, made, project, left, failed>>, AtWork' = AtWork PROVE HookInv'
  BY <1>1 DEF HookInv, Apart, Bounded, HookOf, Replaces, Fresh, There, Owned, Added
<1>2. ASSUME NEW kinds, OnlyKinds(kinds), kinds \cap {"register", "delete"} = {} PROVE AtWork' = AtWork
  BY <1>2 DEF OnlyKinds, AtWork
<1>3. CASE PushActs
  BY <1>1, <1>2, <1>3, PushActsTouch DEF hookVars
<1>4. CASE ListActs
  BY <1>1, <1>2, <1>4, ListActsTouch DEF hookVars, excused
<1>5. CASE ArtActs
  BY <1>1, <1>2, <1>5, ArtActsTouch DEF hookVars, excused
<1>6. CASE UNCHANGED vars
  BY <1>1, <1>6 DEF vars, hookVars, excused, AtWork
<1>7. ASSUME NEW w \in Workspaces, AddConnection(w) PROVE HookInv'
  BY <1>1, <1>7 DEF AddConnection, excused, AtWork
<1>8. ASSUME NEW w \in Workspaces, RetryWebhook(w) \/ DeleteProject(w) PROVE HookInv'
  BY <1>8, BeginHookStep DEF RetryWebhook, DeleteProject
<1>9. ASSUME NEW t \in tasks, CreateHook(t) PROVE HookInv'
  <2>1. t \in AtWork /\ t.stage = "create" /\ Replaces(t)
    BY <1>9 DEF CreateHook, AtWork, HookInv
  <2>2. CASE made' = made + 1
    BY <1>9, <2>2, CreateHookStep
  <2>3. CASE End(t) /\ Excuse({}, {t.who}) /\ UNCHANGED <<made, hooks>>
    <3>1. /\ tasks' = tasks \ {t} /\ UNCHANGED <<hooks, made, project>> /\ left' = left
          /\ failed' = failed \cup {t.who}
      BY <1>9, <2>3 DEF CreateHook, End, Excuse
    <3>. QED
      BY <2>1, <3>1, RequestEnds DEF Replaces
  <2>. QED
    BY <1>9, <2>2, <2>3 DEF CreateHook
<1>10. ASSUME NEW t \in tasks, Stop(t) PROVE HookInv'
  <2>1. /\ t \in AtWork /\ tasks' = tasks \ {t} /\ UNCHANGED <<hooks, made, project>>
        /\ left' = left \cup {t.old, t.new} /\ failed' = failed \cup {t.who}
    BY <1>10 DEF Stop, AtWork, End, Excuse, hookVars
  <2>. QED
    BY <2>1, RequestEnds
<1>. QED
  BY <1>3, <1>4, <1>5, <1>6, <1>7, <1>8, <1>9, <1>10, FourSides, AddProjectStep, RemoveConnectionStep,
     DropOldStep, RegisteredStep, RemoveRowStep DEF HookActs, HookStep

\* The webhooks of the platform and those of the rows agree
\* (project_management.py), however requests on a project cross, fail or stop.
THEOREM HooksMatchProjectsHolds == Spec => []HooksMatchProjects
<1>1. ASSUME Init PROVE HookInv
  <2>1. AtWork = {} /\ left = {}
    BY <1>1 DEF Init, AtWork
  <2>2. CASE use = "lists"
    <3>1. PICK hook \in [Workspaces -> 0 .. Cardinality(Workspaces)] :
            /\ \A w, x \in Workspaces : hook[w] = hook[x] => w = x \/ hook[w] = 0
            /\ hooks = {hook[w] : w \in Workspaces} \ {0} /\ made = Cardinality(Workspaces)
            /\ project = [w \in Workspaces |-> [is |-> TRUE, hook |-> hook[w]]]
      BY <1>1, <2>2 DEF Init
    <3>2. \A w \in Workspaces : HookOf(w) = {hook[w]} \ {0} /\ project[w].hook = hook[w] /\ project[w].is
      BY <3>1 DEF HookOf
    <3>3. Cardinality(Workspaces) \in Nat
      BY ProjectsAssumption, FS_CardinalityType
    <3>4. Apart /\ Bounded
      BY <2>1, <3>1, <3>2, <3>3 DEF Apart, Bounded
    <3>. QED
      BY <2>1, <3>1, <3>2, <3>4 DEF HookInv, Owned, There, Added
  <2>3. CASE use # "lists"
    <3>1. made = 0 /\ hooks = {} /\ project = [w \in Workspaces |-> NoProject]
      BY <1>1, <2>3 DEF Init
    <3>2. \A w \in Workspaces : HookOf(w) = {} /\ project[w].hook = 0
      BY <3>1 DEF HookOf, NoProject
    <3>. QED
      BY <2>1, <3>1, <3>2 DEF HookInv, Apart, Bounded, There, Added
  <2>. QED
    BY <2>2, <2>3
<1>2. HookInv => HooksMatchProjects
  BY DEF HookInv, There, Owned, AtWork, Busy, HooksMatchProjects
<1>. QED
  BY <1>1, <1>2, HookStepKeeps, TypesHold, PTL DEF Spec
=============================================================================
