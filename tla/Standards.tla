----------------------------- MODULE Standards -----------------------------
(***************************************************************************)
(* A workspace's standards and what is attached to one project: the        *)
(* definitions and their numbered versions (standard_service.py and        *)
(* standard_views.py), the copies of marketplace standards                 *)
(* (marketplace_service.py), the attachments and their importances         *)
(* (project_management.py), and the runs each change queues                *)
(* (subscribers.py and standard_runs.enqueue_run).                         *)
(*                                                                         *)
(* A handler loads a standard, saves it, numbers a version and inserts it, *)
(* then queues runs: a member of tasks between two of these steps.  Only   *)
(* the pair (standard, version) is unique.                                 *)
(***************************************************************************)
EXTENDS Naturals, Sequences, FiniteSets, SequencesExt

CONSTANTS Stds,          \* the standards a workspace may come to have
          Contents,      \* code and criteria people write
          Offered,       \* what the marketplace has, version by version
          MaxVersions, MaxTasks, MaxImportances,
          Uses           \* what is followed: edits of one standard, or attachments

\* The marketplace has its standard's first version.
ASSUME StandardsAssumption == DOMAIN Offered = 1 .. Len(Offered) /\ Len(Offered) \in Nat \ {0}

VARIABLES use,
          std,       \* the rows
          versions,  \* the contents snapshotted under each number
          market,    \* the marketplace's version of its one standard
          attached,  \* standard |-> importance on the project
          runs,      \* executions: their standard, version, and what they run
          tasks,
          disturbed  \* ghost: handlers overlapped, failed, or skipped a run

standardsVars == <<use, std, versions, market, attached, runs, tasks, disturbed>>

Importance == 1..MaxImportances   \* 1 is the default
NoStd == [is |-> "none"]
Row(c, enabled, draft, source) ==
  [is |-> "live", content |-> c, enabled |-> enabled, draft |-> draft, source |-> source]

LiveStandards == {s \in Stds : std[s].is = "live"}
Latest(s) == Len(versions[s])

\* runnable_standards, of the attached ones: enabled, no draft, criteria met.
Applies(row) == row.content.criteria = "applies"
Runnable(row) == row.is = "live" /\ row.enabled /\ ~row.draft /\ Applies(row)
InFlight(s) == \E r \in runs : r.std = s /\ r.going

-----------------------------------------------------------------------------
(* Handlers: load, save, number, insert, queue *)

\* only names the fields to be saved, new tells whether num is to be given
\* to a new version.
Task(s, stage, row) ==
  [std |-> s, stage |-> stage, row |-> row, num |-> 0, new |-> TRUE, only |-> {}]
Begin(t) ==
  /\ Cardinality(tasks) < MaxTasks /\ t \notin tasks
  /\ tasks' = tasks \union {t}
  /\ disturbed' = IF \E o \in tasks : o.std = t.std THEN disturbed \union {t.std} ELSE disturbed
Move(t, u) == tasks' = (tasks \ {t}) \union {u}
End(t) == tasks' = tasks \ {t}
Disturb(s) == disturbed' = disturbed \union {s}

AllFields == {"content", "enabled", "draft", "source"}
ValidateStandardCode(c) == c.code # "broken"

\* The row is new, its first version not there yet.
Create(s, row) ==
  /\ use = "attach" /\ std[s] = NoStd
  /\ std' = [std EXCEPT ![s] = row]
  /\ Begin(Task(s, "number", row))
  /\ UNCHANGED <<use, versions, market, attached, runs>>
CreateStandardView(s, c, on, draft) ==
  ValidateStandardCode(c) /\ Create(s, Row(c, on /\ ~draft, draft, 0))
CreateStandard(s, c, draft) ==
  ValidateStandardCode(c) /\ Create(s, Row(c, ~draft, draft, 0))

\* Of the one marketplace standard; installing a copy again changes nothing.
InstalledBySlug == {s \in LiveStandards : std[s].source # 0}
InstallStandard(s) ==
  InstalledBySlug = {} /\ Create(s, Row(Offered[market], TRUE, FALSE, market))
PublishOnMarketplace ==
  /\ use = "write" /\ market < Len(Offered)
  /\ market' = market + 1
  /\ UNCHANGED <<use, std, versions, attached, runs, tasks, disturbed>>

\* A standard is loaded: by the edit form, revert and marketplace update, which
\* save every field of it, or by the API, which saves the fields it was sent.
BeginSave(s, row, only) ==
  /\ use = "write" /\ s \in LiveStandards
  /\ Begin([Task(s, "save", row) EXCEPT !.only = only])
  /\ UNCHANGED <<use, std, versions, market, attached, runs>>
EditStandardView(s, c, on, draft) ==
  /\ ValidateStandardCode(c)
  /\ BeginSave(s, Row(c, on /\ ~draft, draft, std[s].source), AllFields)
UpdateStandard(s, fields, c, on, draft) ==
  LET row == [std[s] EXCEPT !.content = IF "content" \in fields THEN c ELSE @,
                            !.draft = IF "draft" \in fields THEN draft ELSE @,
                            !.enabled = IF "enabled" \in fields THEN on ELSE @]
      off == row.draft /\ row.enabled
  IN /\ "content" \in fields => ValidateStandardCode(c)
     /\ BeginSave(s, [row EXCEPT !.enabled = @ /\ ~off],
                  IF off THEN fields \union {"enabled"} ELSE fields)
RevertStandardVersion(s) ==
  \E v \in 1..Latest(s) :
    BeginSave(s, [std[s] EXCEPT !.content = versions[s][v]], AllFields)
UpdateFromMarketplace(s) ==
  /\ s \in InstalledBySlug
  /\ BeginSave(s, [std[s] EXCEPT !.content = Offered[market], !.source = market], AllFields)

\* save(): an archived standard whose every field is saved is live again.
Merge(old, t) ==
  [f \in DOMAIN old |-> IF f = "is" THEN IF t.only = AllFields THEN "live" ELSE old.is
                        ELSE IF f \in t.only THEN t.row[f] ELSE old[f]]
Save(t) ==
  /\ t.stage = "save"
  /\ std' = [std EXCEPT ![t.std] = Merge(@, t)]
  /\ Move(t, [t EXCEPT !.stage = "number", !.only = {}])
  /\ UNCHANGED <<use, versions, market, attached, runs, disturbed>>

\* create_standard_version: the next number is read, then used.
Number(t) ==
  /\ t.stage = "number"
  /\ Move(t, [t EXCEPT !.stage = "insert", !.num = Latest(t.std) + 1])
  /\ UNCHANGED <<use, std, versions, market, attached, runs, disturbed>>
Insert(t) ==
  /\ t.stage = "insert" /\ Latest(t.std) < MaxVersions
  /\ IF t.num = Latest(t.std) + 1
     THEN /\ versions' = [versions EXCEPT ![t.std] = Append(@, t.row.content)]
          /\ IF t.row.enabled /\ ~t.row.draft THEN Move(t, Task(t.std, "queue", NoStd)) ELSE End(t)
          /\ UNCHANGED disturbed
     ELSE UNCHANGED versions /\ End(t) /\ Disturb(t.std)
  /\ UNCHANGED <<use, std, market, attached, runs>>

\* set_enabled and toggle_standard; turning a standard on queues it.
SetEnabled(s, on) ==
  /\ use = "write" /\ s \in LiveStandards /\ ~(on /\ std[s].draft)
  /\ std' = [std EXCEPT ![s].enabled = on]
  /\ IF on THEN Begin(Task(s, "queue", NoStd)) ELSE UNCHANGED <<tasks, disturbed>>
  /\ UNCHANGED <<use, versions, market, attached, runs>>

ToggleStandard(s) == SetEnabled(s, ~std[s].enabled)

\* Hidden, and detached.
Archive(s) ==
  /\ std' = [std EXCEPT ![s].is = "archived"]
  /\ attached' = [x \in DOMAIN attached \ {s} |-> attached[x]]
DeleteStandard(s) ==
  /\ use = "write" /\ s \in LiveStandards
  /\ Archive(s)
  /\ disturbed' = IF \E o \in tasks : o.std = s THEN disturbed \union {s} ELSE disturbed
  /\ UNCHANGED <<use, versions, market, runs, tasks>>

-----------------------------------------------------------------------------
(* Queueing *)

\* Mutant of IsDefinition: the same code is enough.
SameCode(v, c) == v.code = c.code
IsDefinition(v, c) == v = c

\* version_to_run: the newest version if it still is the definition, else a new
\* snapshot under the next number.
ToRun(t, row) ==
  LET s == t.std
      kept == Latest(s) > 0 /\ IsDefinition(versions[s][Latest(s)], row.content)
  IN [t EXCEPT !.stage = "snapshot", !.row = row, !.new = ~kept,
               !.num = IF kept THEN Latest(s) ELSE Latest(s) + 1]

\* _on_standard_changed and _on_standards_attached load the standard again;
\* enqueue_manual_run keeps it if it is runnable, enqueue_run if it is not
\* running yet.
Queue(t) ==
  /\ t.stage = "queue"
  /\ LET s == t.std row == std[t.std]
     IN IF row.is # "live" \/ s \notin DOMAIN attached \/ ~Runnable(row)
        THEN End(t) /\ UNCHANGED disturbed
        ELSE IF InFlight(s)
        THEN End(t) /\ Disturb(s)
        ELSE Move(t, ToRun(t, row)) /\ UNCHANGED disturbed
  /\ UNCHANGED <<use, std, versions, market, attached, runs>>

\* A webhook event's run: every event gets one.
EnqueueForEvent(s) ==
  /\ use = "write" /\ s \in DOMAIN attached /\ Runnable(std[s])
  /\ Begin(ToRun(Task(s, "snapshot", std[s]), std[s]))
  /\ UNCHANGED <<use, std, versions, market, attached, runs>>

\* The Run button of one standard skips the criteria; Run All does not.
Attached(s) == s \in DOMAIN attached /\ std[s].enabled /\ ~std[s].draft
RunProjectStandards(s) ==
  /\ use = "write" /\ Attached(s) /\ ~InFlight(s)
  /\ Begin(ToRun(Task(s, "snapshot", std[s]), std[s]))
  /\ UNCHANGED <<use, std, versions, market, attached, runs>>

Execution(t) ==
  [std |-> t.std, version |-> t.num, content |-> t.row.content, going |-> TRUE]

\* The snapshot and the row of the run are one transaction; if somebody else
\* took the number, nothing is queued.
Snapshot(t) ==
  /\ t.stage = "snapshot" /\ t.num <= MaxVersions
  /\ versions' = IF t.new THEN [versions EXCEPT ![t.std] = Append(@, t.row.content)] ELSE versions
  /\ ~t.new \/ t.num = Latest(t.std) + 1
  /\ runs' = runs \union {Execution(t)}
  /\ End(t)
  /\ UNCHANGED <<use, std, market, attached, disturbed>>
SnapshotFails(t) ==
  /\ t.stage = "snapshot" /\ t.new /\ t.num <= Latest(t.std)
  /\ End(t) /\ Disturb(t.std)
  /\ UNCHANGED <<use, std, versions, market, attached, runs>>

RunEnds(r) ==
  /\ r.going
  /\ runs' = (runs \ {r}) \union {[r EXCEPT !.going = FALSE]}
  /\ UNCHANGED <<use, std, versions, market, attached, tasks, disturbed>>

-----------------------------------------------------------------------------
(* The standards of the project *)

\* Mutant of SetAttached: the attachments are made anew.
AttachAnew(wanted) == attached' = [s \in wanted |-> 1]

\* project.standards.set: what stays keeps its row.
SetAttached(wanted) ==
  attached' = [s \in wanted |-> IF s \in DOMAIN attached THEN attached[s] ELSE 1]

\* Mutant of RunNewlyAttached: only the first attachment ever queues.
RunFirstAttached(wanted) ==
  LET new == {s \in wanted \ DOMAIN attached : Runnable(std[s]) /\ DOMAIN attached = {}}
  IN tasks' = tasks \union {Task(s, "queue", NoStd) : s \in new}

\* run_newly_attached, of what set_project_standards attaches.
RunNewlyAttached(wanted) ==
  LET new == {s \in wanted \ DOMAIN attached : Runnable(std[s])}
  IN tasks' = tasks \union {Task(s, "queue", NoStd) : s \in new}

SetProjectStandards(wanted) ==
  /\ use = "attach" /\ wanted \subseteq LiveStandards /\ wanted # DOMAIN attached
  /\ \A t \in tasks : t.std \notin wanted \ DOMAIN attached
  /\ SetAttached(wanted)
  /\ RunNewlyAttached(wanted)
  /\ UNCHANGED <<use, std, versions, market, runs, disturbed>>
\* The form's importances are further SetImportance steps.
AttachStandards(more) == SetProjectStandards(DOMAIN attached \union more)
DetachStandards(fewer) == SetProjectStandards(DOMAIN attached \ fewer)

SetImportance(s, i) ==
  /\ use = "attach" /\ s \in DOMAIN attached /\ attached[s] # i
  /\ attached' = [attached EXCEPT ![s] = i]
  /\ UNCHANGED <<use, std, versions, market, runs, tasks, disturbed>>

-----------------------------------------------------------------------------
\* Nothing is there yet; or ("write") a copy from the marketplace, attached,
\* has run.
StandardsInit ==
  /\ use \in Uses
  /\ market = 1 /\ tasks = {} /\ disturbed = {}
  /\ IF use = "attach"
     THEN /\ std = [s \in Stds |-> NoStd] /\ versions = [s \in Stds |-> <<>>]
          /\ attached = <<>> /\ runs = {}
     ELSE \E s \in Stds : LET c == Offered[1] IN
          /\ std = [x \in Stds |-> IF x = s THEN Row(c, TRUE, FALSE, 1) ELSE NoStd]
          /\ versions = [x \in Stds |-> IF x = s THEN <<c>> ELSE <<>>]
          /\ attached = [x \in {s} |-> 1]
          /\ runs = {[std |-> s, version |-> 1, content |-> c, going |-> FALSE]}

Define(s) ==
  \/ InstallStandard(s) \/ RevertStandardVersion(s) \/ UpdateFromMarketplace(s) \/ DeleteStandard(s)
  \/ ToggleStandard(s)
  \/ \E c \in Contents, on, draft \in BOOLEAN :
       \/ CreateStandard(s, c, draft) \/ CreateStandardView(s, c, on, draft)
       \/ EditStandardView(s, c, on, draft)
       \/ \E fields \in SUBSET {"content", "draft"} : UpdateStandard(s, fields, c, on, draft)
  \/ \E on \in BOOLEAN : SetEnabled(s, on)

StandardsNext ==
  \/ \E s \in Stds :
       \/ Define(s) \/ EnqueueForEvent(s) \/ RunProjectStandards(s)
       \/ \E i \in Importance : SetImportance(s, i)
  \/ \E some \in SUBSET Stds :
       SetProjectStandards(some) \/ AttachStandards(some) \/ DetachStandards(some)
  \/ PublishOnMarketplace
  \/ \E t \in tasks :
       Save(t) \/ Number(t) \/ Insert(t) \/ Queue(t) \/ Snapshot(t) \/ SnapshotFails(t)
  \/ \E r \in runs : RunEnds(r)

StandardsSpec == StandardsInit /\ [][StandardsNext]_standardsVars

-----------------------------------------------------------------------------
(* Properties *)

\* The version a run records is the definition the run was queued with
\* (version_to_run): code and criteria, even while an edit has saved the
\* standard and not its version yet, and however numbers were taken.
RunsRecordWhatTheyRun ==
  \A r \in runs : versions[r.std][r.version] = r.content

\* Changing what is attached never touches the importance of what stays
\* attached, unless the step sets that importance.
ImportancesAreKept ==
  [][DOMAIN attached' # DOMAIN attached =>
       \A s \in DOMAIN attached \intersect DOMAIN attached' : attached'[s] = attached[s]]_standardsVars

\* When its handlers are through, the current version is the definition (what
\* StandardVersionDetailView marks as current), and the definition of an
\* attached, runnable standard has been run, whichever way it got there:
\* created and attached, attached again, edited, turned on, taken out of draft,
\* reverted, updated from the marketplace.  Not so when two handlers overlapped
\* or a run of the standard was going on (enqueue_run leaves that one alone).
QuietStandardsAreSettled ==
  \A s \in LiveStandards : s \notin disturbed /\ (\A t \in tasks : t.std # s) =>
    /\ Latest(s) > 0 /\ versions[s][Latest(s)] = std[s].content
    /\ s \in DOMAIN attached /\ Runnable(std[s]) =>
         \E r \in runs : r.std = s /\ r.content = std[s].content

=============================================================================
