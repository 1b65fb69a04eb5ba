---------------------------- MODULE Notifications ----------------------------
(***************************************************************************)
(* What people are told.  A finished run or a change to the workspace      *)
(* publishes an event; the notification policies turn it into a stored     *)
(* notification and a job in one transaction; the job asks the routing who *)
(* hears it and puts it in their inboxes.                                  *)
(*                                                                         *)
(* One project and its checks ("runs"), or one workspace and its people    *)
(* ("people").  The runs of a project come one at a time (the project's    *)
(* lock: see StandardRuns); a worker may be killed anywhere.               *)
(***************************************************************************)
EXTENDS CommitTimeline, Sequences

CONSTANTS People, Outcomes,
          Branches,        \* "main" is the default branch
          MaxCommits, MaxChecks, MaxNotes, MaxCrashes,
          Uses             \* what is followed: "runs" or "people"

ASSUME NotificationsAssumption ==
  /\ \A s \in Outcomes : s.value \in -1 .. 100 /\ s.failed \in BOOLEAN
  /\ Uses \subseteq {"runs", "people"}

VARIABLES use, clock,
          commits,      \* of the repository: branch and time
          checks,
          stage,        \* of each check's job: "queued", "scored", "done"
          roles,        \* of each person in the workspace, "none" outside
          notes,        \* the stored notifications, in order
          jobs,         \* of each: "todo", "doing", "ending", "stalled", "done"
          to,           \* of each: who the dispatcher has found
          logs,         \* DeliveryLog: <<note, "sent" or "failed">>
          items,        \* InboxItem, one copy each
          crashes

runVars == <<clock, commits, checks, stage>>
jobVars == <<jobs, to, logs, items>>
notifyVars == <<use, runVars, roles, notes, jobVars, crashes>>

Roles == {"owner", "admin", "member"}
With(role) == {p \in People : roles[p] \in role}
Nobody == "nobody"

\* What a notification names: its kind, who made the change, the member it is
\* about, who started the run, and the run.
Note(kind, actor, member, by, run) == [kind |-> kind, actor |-> actor, member |-> member, by |-> by, run |-> run]
RunNote(kind, k) == Note(kind, Nobody, Nobody, Nobody, k.created)

\* raise_notification: the row and its job, or neither.
Raise(new) ==
  /\ notes' = notes \o new
  /\ jobs' = jobs \o [i \in DOMAIN new |-> "todo"]
  /\ to' = to \o [i \in DOMAIN new |-> {}]
RaiseOne(note) == Len(notes) < MaxNotes /\ Raise(<<note>>) /\ UNCHANGED <<logs, items>>

-----------------------------------------------------------------------------
(* Checks and runs *)

Tick == clock' = clock + 1
AddCheck(k) ==
  /\ Cardinality(checks) < MaxChecks
  /\ checks' = checks \union {k}
  /\ stage' = [n \in DOMAIN stage \union {k.created} |-> IF n = k.created THEN "queued" ELSE stage[n]]
KnownOr0(t) == {t, 0}

\* A push, and the check its webhook queues.
Push(branch, heard) ==
  /\ use = "runs" /\ Len(commits) < MaxCommits
  /\ commits' = Append(commits, [branch |-> branch, at |-> clock])
  /\ IF heard THEN AddCheck(Check(Len(commits) + 1, clock, branch, clock)) ELSE UNCHANGED <<checks, stage>>
  /\ Tick /\ UNCHANGED <<use, roles, notes, jobVars, crashes>>

\* run_on_branch: a branch, pinned when the job starts, or one commit.  A run
\* somebody asks for leaves alone the standards that are already in flight; here
\* one set of standards always runs together.
NoneInFlight == \A n \in DOMAIN stage : stage[n] # "queued"
RunOnBranch(branch) ==
  /\ use = "runs" /\ NoneInFlight /\ \E i \in DOMAIN commits : commits[i].branch = branch
  /\ AddCheck(Check(0, 0, branch, clock))
  /\ Tick /\ UNCHANGED <<use, commits, roles, notes, jobVars, crashes>>
RunOnCommit(i, at) ==
  /\ use = "runs" /\ NoneInFlight /\ at \in KnownOr0(commits[i].at)
  /\ AddCheck(Check(i, at, commits[i].branch, clock))
  /\ Tick /\ UNCHANGED <<use, commits, roles, notes, jobVars, crashes>>

\* waiting_for_commit, then pin_head_commits; a platform that does not answer
\* leaves the check without its commit.
WaitingForCommit(k) == k.commit = 0 /\ stage[k.created] = "queued"
HeadOf(branch) ==
  CHOOSE i \in DOMAIN commits : commits[i].branch = branch /\ \A j \in i + 1 .. Len(commits) : commits[j].branch # branch
Pin(k, at) ==
  LET head == HeadOf(k.branch)
  IN /\ WaitingForCommit(k) /\ at \in KnownOr0(commits[head].at)
     /\ checks' = (checks \ {k}) \union {[k EXCEPT !.commit = head, !.at = at]}
     /\ UNCHANGED <<use, clock, commits, stage, roles, notes, jobVars, crashes>>

\* The last of a check's runs ends and its score is saved.  The project's lock
\* is held from here until the job ends.
EndRun(k, score) ==
  /\ stage[k.created] = "queued"
  /\ \A n \in DOMAIN stage : stage[n] \in {"queued", "done"}
  /\ checks' = (checks \ {k}) \union {[k EXCEPT !.saved = clock, !.score = score]}
  /\ stage' = [stage EXCEPT ![k.created] = "scored"]
  /\ Tick /\ UNCHANGED <<use, commits, roles, notes, jobVars, crashes>>

NotEvaluated(k) == Tone(k.score) = "unknown"
\* Mutant of BecameFailed: any run that leaves the project failed.
IsFailed(before, after) == after = "failed"
BecameFailed(before, after) == before \notin {"unknown", "failed"} /\ after = "failed"

\* The three policies on StandardRunFinished, in the order they subscribe.
CouldNotEvaluate(k) == IF NotEvaluated(k) THEN <<RunNote("run.failed", k)>> ELSE <<>>
StandardsFailing(k) ==
  IF NotEvaluated(k) \/ k.score.value = 100 THEN <<>> ELSE <<RunNote("standards.failing", k)>>
ProjectFailed(k) ==
  LET before == Tone(ScoreBefore(checks, "main", k.created))
      after == Tone(BranchScore(checks, "main"))
  IN IF ~NotEvaluated(k) /\ BecameFailed(before, after) THEN <<RunNote("project.critical", k)>> ELSE <<>>

\* The job's last step.  (Killed here, it would publish again when recovered:
\* not modelled.)
Publish(k) ==
  /\ stage[k.created] = "scored"
  /\ Raise(CouldNotEvaluate(k) \o StandardsFailing(k) \o ProjectFailed(k))
  /\ stage' = [stage EXCEPT ![k.created] = "done"]
  /\ UNCHANGED <<use, clock, commits, checks, roles, logs, items, crashes>>

-----------------------------------------------------------------------------
(* The workspace *)

ByAdmin(a) == use = "people" /\ a \in With({"owner", "admin"})
Changed(note) == RaiseOne(note) /\ UNCHANGED <<use, runVars, roles, crashes>>

ProjectAdded(a) == ByAdmin(a) /\ Changed(Note("project.added", a, Nobody, Nobody, 0))
ProjectRemoved(a) == ByAdmin(a) /\ Changed(Note("project.removed", a, Nobody, Nobody, 0))
StandardChanged(a) == ByAdmin(a) /\ Changed(Note("standard.changed", a, Nobody, Nobody, 0))
ConnectionBroken(p) == use = "people" /\ Changed(Note("connection.broken", Nobody, Nobody, p, 0))
RunsTimedOut(p) == use = "people" /\ Changed(Note("run.timed_out", Nobody, Nobody, p, 0))

\* An inference that failed for good: the provider refused GitGrit, or a map
\* that had been built broke; nothing is said of a map that never was.
AIProviderFailed == use = "people" /\ Changed(Note("ai_provider.failed", Nobody, Nobody, Nobody, 0))
GraphBroke(hadWorked) == use = "people" /\ hadWorked /\ Changed(Note("graph.failed", Nobody, Nobody, Nobody, 0))

MemberJoined(p, role, a) ==
  /\ ByAdmin(a) /\ roles[p] = "none"
  /\ RaiseOne(Note("member.joined", a, p, Nobody, 0))
  /\ roles' = [roles EXCEPT ![p] = role]
  /\ UNCHANGED <<use, runVars, crashes>>
MemberRoleChanged(p, role, a) ==
  /\ ByAdmin(a) /\ p \in With(Roles \ {role, "owner"})
  /\ RaiseOne(Note("member.role_changed", a, p, Nobody, 0))
  /\ roles' = [roles EXCEPT ![p] = role]
  /\ UNCHANGED <<use, runVars, crashes>>
MemberRemoved(p, a) ==
  /\ use = "people" /\ p \in With(Roles \ {"owner"}) /\ a \in With({"owner", "admin"}) \union {p}
  /\ RaiseOne(Note("member.removed", a, p, Nobody, 0))
  /\ roles' = [roles EXCEPT ![p] = "none"]
  /\ UNCHANGED <<use, runVars, crashes>>

-----------------------------------------------------------------------------
(* Routing and delivery *)

Admins(note) == With({"owner", "admin"})
Triggerer(note) == {note.by} \intersect With(Roles)
AffectedMember(note) == {note.member} \intersect With(Roles)
RunKinds == {"run.failed", "standards.failing", "project.critical", "run.timed_out", "connection.broken", "graph.failed"}
Recipients(note) ==
  (Admins(note)
    \union (IF note.kind \in RunKinds THEN Triggerer(note) ELSE {})
    \union (IF note.kind = "member.role_changed" THEN AffectedMember(note) ELSE {}))
  \ {note.actor}

Job(n, from, next) == use = "people" /\ jobs[n] = from /\ jobs' = [jobs EXCEPT ![n] = next]

\* Mutant of AlreadySent: the log is not looked at.
NeverSent(n) == FALSE
AlreadySent(n) == <<n, "sent">> \in logs

Dispatch(n) ==
  /\ Job(n, "todo", IF AlreadySent(n) THEN "ending" ELSE "doing")
  /\ to' = [to EXCEPT ![n] = Recipients(notes[n])]
  /\ UNCHANGED <<use, runVars, roles, notes, logs, items, crashes>>

Copies(n, p) == Cardinality({i \in items : i.note = n /\ i.to = p})
\* One transaction: every inbox, and the log.
Deliver(n) ==
  /\ Job(n, "doing", "ending")
  /\ items' = items \union {[note |-> n, to |-> p, copy |-> Copies(n, p) + 1, read |-> FALSE] : p \in to[n]}
  /\ logs' = logs \union {<<n, "sent">>}
  /\ UNCHANGED <<use, runVars, roles, notes, to, crashes>>
ChannelFails(n) ==
  /\ Job(n, "doing", "ending")
  /\ logs' = logs \union {<<n, "failed">>}
  /\ UNCHANGED <<use, runVars, roles, notes, to, items, crashes>>
EndDelivery(n) ==
  /\ Job(n, "ending", "done")
  /\ UNCHANGED <<use, runVars, roles, notes, to, logs, items, crashes>>

\* The worker is killed; the job is queued again once it is found stalled.
Crash(n) ==
  /\ crashes < MaxCrashes /\ jobs[n] \in {"doing", "ending"}
  /\ Job(n, jobs[n], "stalled")
  /\ crashes' = crashes + 1
  /\ UNCHANGED <<use, runVars, roles, notes, to, logs, items>>
Recover(n) ==
  /\ Job(n, "stalled", "todo")
  /\ UNCHANGED <<use, runVars, roles, notes, to, logs, items, crashes>>

\* The inbox.
InInbox(p) == {i \in items : i.to = p}
Rewrite(old, read) ==
  /\ items' = (items \ old) \union {[i EXCEPT !.read = read] : i \in old}
  /\ UNCHANGED <<use, runVars, roles, notes, jobs, to, logs, crashes>>
MarkRead(i) == ~i.read /\ Rewrite({i}, TRUE)
MarkUnread(i) == i.read /\ Rewrite({i}, FALSE)
MarkAllRead(p) == (\E i \in InInbox(p) : ~i.read) /\ Rewrite({i \in InInbox(p) : ~i.read}, TRUE)

-----------------------------------------------------------------------------
NotifyInit ==
  /\ use \in Uses /\ clock = 1
  /\ commits = <<>> /\ checks = {} /\ stage = <<>>
  /\ notes = <<>> /\ jobs = <<>> /\ to = <<>> /\ logs = {} /\ items = {}
  /\ crashes = 0
  /\ \E o \in People : roles = [p \in People |-> IF p = o THEN "owner" ELSE "none"]

NotifyNext ==
  \/ \E b \in Branches : RunOnBranch(b) \/ \E heard \in BOOLEAN : Push(b, heard)
  \/ \E i \in DOMAIN commits : \E at \in KnownOr0(commits[i].at) : RunOnCommit(i, at)
  \/ \E k \in checks :
       \/ WaitingForCommit(k) /\ \E at \in KnownOr0(commits[HeadOf(k.branch)].at) : Pin(k, at)
       \/ \E s \in Outcomes : EndRun(k, s)
       \/ Publish(k)
  \/ \E a \in People :
       \/ ProjectAdded(a) \/ ProjectRemoved(a) \/ StandardChanged(a) 
       \/ RunsTimedOut(a) \/ ConnectionBroken(a)
       \/ \E p \in People :
            \/ MemberRemoved(p, a)
            \/ \E r \in {"admin", "member"} : MemberJoined(p, r, a) \/ MemberRoleChanged(p, r, a)
  \/ AIProviderFailed \/ \E hadWorked \in BOOLEAN : GraphBroke(hadWorked)
  \/ \E n \in DOMAIN notes :
       Dispatch(n) \/ Deliver(n) \/ ChannelFails(n) \/ EndDelivery(n) \/ Crash(n) \/ Recover(n)
  \/ \E i \in items : MarkRead(i) \/ MarkUnread(i)
  \/ \E p \in People : MarkAllRead(p)

NotifySpec == NotifyInit /\ [][NotifyNext]_notifyVars

-----------------------------------------------------------------------------
(* Properties *)

\* Checking an old commit again never replaces a newer commit's result: the
\* commit the project reads only ever gets newer, as long as the platform gives
\* the commits' times and the newest commit is among the recent checks.
OldChecksNeverMoveTheBranch ==
  [][LET now == BranchHead(checks, "main")
         then == BranchHead(checks', "main")
     IN (\A k \in checks' : k.commit # 0 => k.at # 0) /\ now \in Recent(On(checks', "main"))
        => then.commit >= now.commit]_notifyVars

ColourOf(grade) ==
  IF grade \in {"A+", "A"} THEN "healthy" ELSE IF grade = "F" THEN "failed" ELSE "needs_attention"

\* The dashboard (project_heads), the project's page (branch_head) and the list
\* of commits (CommitRow.shown) read the same check, and the colour the
\* dashboard counts the project under is that of the grade the API gives its
\* branch, whatever was checked again and in whatever order runs ended, as long
\* as the newest commit was checked among the last RECENT_CHECKS; the list, as
\* long as the platform gave the commits' times.
HeadsAgree ==
  LET head == ProjectHead(checks) IN
  head \in Recent(On(checks, "main")) =>
    /\ head = BranchHead(checks, "main")
    /\ (\A k \in checks : k.commit # 0 => k.at # 0) => head = Shown(checks, head.commit, "main")
    /\ ProjectHealthCount(checks) = ColourOf(Health(checks, "main"))

Tellings == {i \in DOMAIN notes : notes[i].kind = "project.critical"}
CheckOf(n) == CHOOSE k \in checks : k.created = n

\* People are told once that a project failed: between a telling by a check of
\* the default branch and the next one, the branch had a passing score no older
\* than that failure.  (The policy reads the project whatever branch its run is
\* of: of tellings by other branches' runs nothing is promised.)
FailureIsToldOnce ==
  \A i, j \in Tellings : i < j /\ CheckOf(notes[i].run).branch = "main" =>
    \E k \in Saved(On(checks, "main")) :
      Tone(k.score) \in {"healthy", "needs_attention"} /\ OrderedAt(k) >= OrderedAt(CheckOf(notes[i].run))

\* A stored notification is in an inbox once, however often its job is run
\* again, and its delivery or its failure is on record unless its job is still
\* there to do it, through any crash.
DeliveredOnce ==
  \A n \in DOMAIN notes :
    /\ \A p \in People : Copies(n, p) <= 1
    /\ jobs[n] # "done" \/ {<<n, "sent">>, <<n, "failed">>} \intersect logs # {}
=============================================================================
