# GitGrit in TLA+

Models of GitGrit's own logic, the TLC runs that check them on small instances,
and theorems about them that TLAPS checks for every value of the constants. The
code is the reference: every definition translates the lines `PROJECT.json`
names for it under `map`. A few definitions stand for what lies outside the
repository (the Procrastinate queue, GitHub and GitLab, Django's session
middleware), modelled from how the code uses them and marked external there.

GitGrit attaches *standards* to projects. An event (a push, a pull request, a
user's click, an edit of a standard) queues runs; a background worker executes
them in a sandbox; a finished *check* of a commit is scored, shown and told to
people. Beside that, each push queues a refresh of the project's dependency map
by a language model. People join by invitation or by an approved request, a
session says which workspace they act in, and a command line client waits for
checks in pipelines. Everything hard comes from the same sources: several
requests and workers over one database without locks around most
read-then-write pairs, workers that die, platforms that refuse or answer late,
and periodic jobs that clean up after them.

## Inventory

| Component | State it keeps | Operations | Hard behaviour | What makes it correct |
|---|---|---|---|---|
| Standard runs (`app/tasks.py`, `application/standard_runs.py`, `standard_engine.py`) | `StandardExecution`, `CommitCheck`, the queue | `enqueue_run`, `run_on_branch`, `enqueue_for_event`, `run_standards`, `expire_stale_runs` | two attempts of a job, the sweep beside a late runner, a moving branch | every run settles once, at its commit, and is reported |
| Commit scoring (`domain/scoring`, `application/scoring`) | `CommitScore` | `score_check`, the policy | two scorers of one check; re-runs in any order | one decision per check, never early |
| Heads, health (`branch_commit_timeline.py`, `score_representation`) | none | `branch_head`, `project_heads`, `CommitRow.shown` | old commits checked again, unknown times | the pages agree; an old check moves nothing |
| Dependency map jobs (`application/subscribers.py`, `app/tasks.py`) | `deps_status`, the queue | events, `infer_project_dependencies` | coalescing, retries inside a job | no push lost, no status stuck |
| Job recovery (`recover_stalled_jobs`) | the queue | select, look for a twin, requeue or fail | races with twins and live workers | orphans are released |
| Topology (`application/architecture`, `domain/architecture`) | components, edges, stacks | infer, reconcile, resolve, store | a roster read minutes before it is used; edges cut in other projects | the map is the last answer; stacks survive a new shape |
| Notifications (`application/notifications`, `domain/notifications`) | notifications, delivery log, inbox | policies, `raise_notification`, `dispatch` | a delivery run twice, overlapping checks | once per inbox; a failure is told once |
| Roles, invitations (`domain/workspace_roles.py`, `membership_service.py`, `invitations.py`) | memberships, invitations | invite, accept, revoke, decline, role changes | unlocked rows and guards | an owner stays; a seat is given once |
| Sign-up, superusers (`access.py`, `superuser_service.py`, `signals.py`) | accounts, requests | first run, sign up, confirm, submit, approve, reject, grant, revoke | two reviewers, the two halves of a request | only the vouched-for are active; one superuser stays |
| Sessions, support view (`middleware.py`, `workspace_access.py`) | one session per user | switch, enter, leave, log in | tabs saving the session whole | a foreign workspace only if entered |
| GitHub App (`github_app_views.py`, `base_webhook.py`) | connections, projects | install, callback, choose, confirm, deliveries | answers parked across a switch | connections GitHub vouched for, gone when it says so |
| Standards (`standard_service.py`, `marketplace_service.py`) | standards, versions | create, edit, toggle, revert, install, update, archive | edits beside runs | a run records what it ran |
| Attachments (`project_management.py`) | attachments | attach, detach, importance | read, then replace | importances are kept, new standards run |
| Projects, webhooks (`project_management.py`, `base_webhook.py`) | projects, hooks on the platform | add, register, delete, receive | any call refused, shared repositories | hooks and rows match, pushes arrive |
| Platform lists (`commit_checks.py`) | a cache by generation | fetch, forget | a push during a fetch | an answered push shows |
| Artifact projects (`artifact_service.py`) | commits, archives | create, upload, delete | the storage beside the database | a commit has its archive |
| API tokens (`api_token_service.py`) | tokens | issue, revoke, resolve | people leaving | automation goes on |
| Command line client (`cli/`) | `hosts.yml`, the binary | login, calls, `check --wait`, `update` | rotating tokens, another's checks, a release replaced under a download | logins work, exits mean what they say, a build is installed |
| Event bus | none | publish | synchronous | part of the publisher's step |
| Mail, sandbox, language models, rendering, deployment | none of interest | | any answer or none | |

How they interact. A webhook delivery drops the cached lists, queues standard
runs (`enqueue_for_event`) and publishes `RepositoryPushed` on the in-process
event bus, whose subscriber queues a map refresh. Subscribers run
synchronously, inside the publisher's transaction if it has one.
`run_standards` and the sweep call `score_checks` and then publish
`StandardRunFinished` or `StandardRunsTimedOut`, whose listeners raise
notifications. Edits and attachments of standards publish events that queue
runs. `recover_stalled_jobs` touches jobs of all kinds. The client asks for a
check through the API and polls what `CommitTimeline` and `CommitScoring`
decide. `PROJECT.json` lists the components with what is modelled of each, and
the hazards at their lines with the properties that would catch them.

## Modules

| Module | What it models |
|---|---|
| `CommitScoring` | operators: which runs count, when a check decides, the required-gate weighted average and its rounding |
| `CheckRuns` | a check collecting runs, so that TLC visits every history of up to `MaxRuns` runs |
| `CheckLifecycle` | the abstract life of a check: queued, pinned, over, scored, told |
| `StandardRuns` | requests, events, the queue, `run_standards`, the sweep, recovery and scoring of one project, one database statement per step |
| `CommitTimeline` | operators: the newest checked commit of a branch and a project, health, letters, the colour a project is counted under |
| `Notifications` | pushes and checks over time, the policies, the delivery jobs and the inbox; uses `CommitTimeline` |
| `DependencyJobs` | requests, the queueing lock, `infer_project_dependencies`, the storing transaction and `recover_stalled_jobs` |
| `Topology` | rosters, answers, name resolution, reconciliation, stacks, edges, affected projects, diagrams |
| `WorkspaceRoles` | operators: who may do what in a workspace and among superusers |
| `People` | accounts, requests, invitations, seats and the back office; a handler that acts on a row it loaded is two steps |
| `WorkspaceSession` | one user's session under several tabs, the support view, the install flow and GitHub's deliveries |
| `Standards` | definitions, versions, marketplace copies, attachments and the runs they queue |
| `Projects` | hooks, deliveries, the list cache, uploads and archives |
| `CliSession`, `CheckWait`, `CliUpdate`, `ApiTokens` | the client's file and tokens; a pipeline waiting; the self-update; API tokens |
| `Cli` | the four together |
| `MC*` | constants, symmetry and compositions for TLC |
| `StandardRunsProofs`, `CheckLifecycleProofs`, `DependencyJobsProofs`, `PeopleProofs`, `ProjectsProofs`, `CliProofs` | theorems about the module they are named after |
| `ReportsProofs` | theorems about `CheckRuns`, `Notifications` and `Topology` |
| `WorkspaceProofs` | theorems about `WorkspaceSession` and `Standards` |

Definitions introduced by "Mutant of" are not part of the model: each is the
mutated form of the definition after it, which `PROJECT.json` uses to confirm
that a property fails when the code has that bug.

Composition. `MCWorkspace` (which extends People and WorkspaceSession),
`MCReports` (CheckRuns and Notifications) and `Cli` put models side by side that
share no variable; a
behaviour follows one of them, since no step of one helps or hinders a step of
another. Models that do share state are one module (`StandardRuns`: queue, runs,
sweep, scoring; `Notifications`: checks, policies, delivery; `Projects`:
hooks, deliveries, tasks) or use each other's operators.

### StandardRuns and the code

One job is one call of `run_standards.defer`; `Execs` is its
`StandardExecution` rows, one per standard, `Checks` its `CommitCheck` rows, one
per branch it reads. A runner walks through `run_standards`:

| `pc` | code | action |
|---|---|---|
| idle | the worker fetches a job under the lock `standards:<project>` | `Fetch` |
| load | the query of the executions; everything later reads this copy | `LoadRows` |
| pin | `pin_head_commits`, one branch at a time, then `build_input_config` | `PinHead`, `BuildConfig` |
| run | the loop: run, or fail an archived standard's row | `RunExecution`, `FailArchived`, `EndRun` |
| failing | the `except` block's `_fail` | `Raise`, `FailRemaining` |
| score | `_publish_finished`: `score_check` per check (read, then insert), then the event | `ScoreJob`, `PublishFinished` |
| finish | the queue records the end | `Finish` |

`Crash` forgets all of it and leaves the job "doing"; `Recover` queues it again.
`RecoverSilent` does that to a live worker's job, so that two runners execute
it. `LoseDatabase` fails the handlers themselves. The sweep has its own steps:
select, conditional update, score, publish. A stale row is one in `aged`; with
`MayOutliveCutoff = FALSE` a row ages only when its job is over, which is what
the code's cutoff assumes, and with `TRUE` at any time. Rows run in order of
creation in the code and in any order here. A result is any of `Outcomes`.

### CheckLifecycle and the refinement

`CheckLifecycle` says what the rest of the application relies on: a check is
queued with its job, pinned at most once, its runs end once, its score is
decided once from runs that are over, and a job reports checks that have their
score. `StandardRuns` maps `stage` to whether a check has rows and whether one
is RUNNING, `commit` to the pinned sha, `outcome` to `CheckRun.decide` once the
check is over, `score` to the newest `CommitScore` and `told` to the jobs that
reported. Attempts, recoveries, the sweep and a second report are stutters.
The refinement (`ChecksAreDecidedOnce`) is model-checked, and proved for every
instance in which no live worker is taken for dead and no job outlives its
cutoff; that the abstract specification has the properties people rely on is
proved as well.

### The other modules and the code

- `DependencyJobs`: `Mark` and `Defer` are the two statements of
  `_enqueue_dependency_refresh`, also taken by a runner for the projects whose
  edges its transaction cut (`Announce`). `heard` is the branch's head when a
  refresh was last asked for, `stored` the commit the stored map was read at.
  `SelectStalled`, `LookForTwin` and `HandleStalled` are the three database
  calls of the recovery, and everything may happen between them.
- `Topology`: `Start` reads the roster, `Save` is the transaction of
  `RefreshProjectTopology.run` (reconcile, inherit stacks, resolve, replace
  edges, queue the affected) with any answer of a small set. A component is its
  project, path and how often that path became a component, so a row that went
  and came back is another row.
- `Notifications`: a clock orders checks and commits; `at = 0` is a commit the
  platform gave no time for. Ending a run, pinning, and the three policies on
  `StandardRunFinished` follow in the order the code takes them. A delivery is
  fetch, deliver or fail (each one transaction), end; a crash may come anywhere.
- `People`: a task is a handler between its read and its write, on a row held
  without a lock; what a service does under the workspace's lock is one step.
  `crossed` notes an admin write that passed a guard whose answer had become
  false: `app/signals.py` takes no lock and promises nothing then, so the
  behaviour ends there.
- `WorkspaceSession`: a request loads the session, is resolved by
  `TenantMiddleware`, acts and saves the session whole. `vouched` records what
  GitHub answered for which workspace, `missed` what it withdrew in a delivery
  that was lost, `late` connections made on an answer GitHub gave before.
- `Standards`: load, save, number, insert, queue: a handler may be overtaken
  between any two. `disturbed` are standards whose handlers overlapped.
- `Projects`: registering is drop, create, save, each of which may fail or be
  the last; a delivery is received, verified against every secret of the
  repository, then handled; `Forget` bumps the generation; an upload saves the
  archive, then commits the row.
- `CliSession`: a command is open, refresh, answer, save, act. A token is its
  grant and its turn in the rotation. `raced` says two commands met on the file
  or a command died holding a new token.
- `CheckWait`: pushes and requests start checks on one branch; a pipeline asks,
  polls, times out, and exits by the newest check of its commit.
- `CliUpdate`: the release, the checksums and the archive are three downloads of
  a release that is deleted and created again on each push; on Windows the
  binary is moved aside between two renames.

## Runs

Eleven runs pass; every property in them has a mutant of the code that breaks
it. The module of a run is `MC` and the name of what it instantiates; it only
gives bounds and model values (`MCWorkspace` and `MCReports` also put their
parts side by side).

| Run | Instance | Shows |
|---|---|---|
| `attempt` | 2 standards, 2 branches that move, 1 job, a crash and a lost database | types (`TypeOK`); a pinned run reads its commit (`PinnedRunReadsItsCommit`); one report per attempt (`ReportedOncePerAttempt`); settled rows stay (`SettledStaysSettled`); `StandardRuns` implements `CheckLifecycle` (`ChecksAreDecidedOnce`) |
| `hostile` | 1 job, 2 runners, a live worker taken for dead, rows that age at any time | no run reported as timed out goes on (`TimedOutRunsAreOver`); no early score (`NoScoreWhileGoing`) |
| `live` | 2 jobs of 1 standard, which may be archived, a crash, a lost database, a dying sweep | every run settles (`EveryRunSettles`); every check that can be is scored (`EveryCheckIsScored`) |
| `refresh` | 1 deletable project, 3 refreshes, 2 commits, 2 attempts, 2 runners, four kinds of fault | coalescing loses no push (`StoredMapIsCurrent`); one alarm per failed job (`OneAlarmPerFailedJob`) |
| `refresh_live` | 2 projects that cut each other's edges, 3 refreshes, a crash, a death while announcing, a death of the recovery | refreshes settle (`EveryRefreshSettles`); projects that lost edges are mapped again (`CutEdgesAreMappedAgain`) |
| `workspace` | 2 people, 1 invitation, 2 handlers at once, an invited and a repaired deployment; 2 workspaces, 2 tabs, 1 installation | somebody is in charge (`SomebodyIsInCharge`); accounts are vouched for (`EveryAccountIsVouchedFor`); ready requests are told (`ReadyRequestsAreTold`); seats are given once (`SeatsAreGivenOnce`); the support view, connections and deliveries (`SupportViewIsAsEntered`, `ConnectionsAreVouched`, `DeliveriesAreObeyed`) |
| `standards` | 2 standards, 2 versions each, 2 handlers at once, 2 importances | runs record what they run (`RunsRecordWhatTheyRun`); quiet standards are versioned and run (`QuietStandardsAreSettled`); importances are kept (`ImportancesAreKept`) |
| `projects` | 2 workspaces sharing a repository, 2 hooks, 2 pushes, 2 tasks; 2 artifact projects, 2 archives | hooks match projects (`HooksMatchProjects`); pushes arrive (`PushesArrive`); answered pushes show (`AnsweredPushesShow`); commits have their archive (`CommitsHaveTheirArchive`) |
| `reports` | histories of 3 runs of 2 standards; 3 commits, 3 checks, a window of 2, 2 people, 1 crash | the average and re-runs (`AverageIsNearestToTheMean`, `RerunReplacesItsStandard`); heads agree and move forward (`HeadsAgree`, `OldChecksNeverMoveTheBranch`); failures are told once (`FailureIsToldOnce`); one delivery (`DeliveredOnce`) |
| `topology` | 2 projects, 4 shapes, 2 stacks, 2 saves | stacks are kept (`StacksAreKept`); cut projects are mapped again (`CutProjectsAreMappedAgain`); the map is the last answer (`MapIsTheLastAnswer`) |
| `cli` | 2 hosts, 2 shells, 2 grants of 2 turns; 2 pipelines, 2 checks; 3 builds; 2 people, 2 workspaces, 2 tokens | saved logins work (`SavedLoginsWork`); the exit is of my check (`ExitIsOfMyCheck`); a build is installed (`ABuildIsInstalled`); automation survives people (`AutomationSurvivesPeople`) |

One run looks for a violation and finds one, a difference between the code and
its own comment (`ChecksReadOneCommit`): in `pin`, the head commit is pinned in
the table, but the runs read the copy loaded before, so two standards of one
check read two commits.

Bounds. Two of a kind give every race between two (runners, handlers, tabs,
tasks, shells, pipelines): a third repeats what the second does. Two commits
make "before and after a push"; three make an old, a middle and a new one for
the heads, with a window of two so that one falls out of it. Three refreshes
make one done, one being done and one waiting. One fault of a kind at a time:
each property names the faults it tolerates, and a second fault of the same kind
meets a system in which the first was handled. `People.SameRow` lets only
handlers of one row overlap, since handlers of different rows do not meet. The
bounds (`MaxJobs`, `MaxHead`, `MaxRuns`, `MaxFaults`, `MaxInvites`, `MaxTasks`,
`MaxVersions`, `MaxHooks`, `MaxPushes`, `MaxCommits`, `MaxChecks`, `MaxNotes`,
`MaxCrashes`, `MaxBirths`, `MaxSaves`, `MaxEdits`, `MaxGrants`, `MaxTurns`,
`MaxBuilds`, `MaxTokens`) stand in guards. Symmetry is used in runs without
liveness and only over model values the specification treats alike.

Deadlock is checked in `attempt`, `hostile`, `live`, `pin`, `refresh` and
`refresh_live`: `Rest` is enabled only when nothing is queued, going on or half
way, so a system in which everyone waits is an error. The other runs say
`CHECK_DEADLOCK FALSE`: nothing waits for anything there, and a behaviour ends
when its people, pushes or commands are used up, or at `crossed` or `raced`,
after which the code promises nothing.

Fairness. `live` and `refresh_live` assume weak fairness of a runner's own
steps (a live worker goes on), of fetching (the worker polls the queue), of the
two periodic jobs (cron entries of the worker), of the passage of time in
`StandardRuns`, and of a request that began. Nothing is assumed about events,
faults, or results. The other modules have no liveness: their handlers are
requests that may simply be cut off.

## Proofs

Every theorem holds for any sets and bounds, from the named assumptions on the
constants. All 37 safety properties the passing runs check are theorems; each
follows from an inductive invariant, proved initial, kept by every action
(one step per action) and implying the property. `PROJECT.json` lists the
theorems; what carries each proof is this.

| Theorem | Invariant, and why it is needed |
|---|---|
| `TypeCorrect` | `TypeOK`, which includes that a busy runner names a job |
| `NoScoreWhileGoingHolds` | `ScoreInv`: only queueing starts a run, of a job that had no row, so a check that stopped going never goes again, and a decision some actor holds was made about a check that is over for good. It assumes nothing about locks or who scores, which is why it survives a job executed twice and the sweep beside it |
| `OneRunAtATimeHolds`, `EndedJobLeavesNothingRunningHolds` | `LockIsHeld`: unless a live worker was taken for dead, a busy runner's job is "doing" under its name; `EndInv`: what a runner has left covers the RUNNING rows of its job |
| `PinnedRunReadsItsCommitHolds` | `PinInv`: a check queued with a commit is pinned to it in the table and in every copy |
| `TimedOutRunsAreOverHolds` | `SweptRowsEnd`: the sweep selects rows that were started, and the ones it is about to report are finished |
| `SettledStaysSettledHolds` | `SettleInv`, under `NoFalseAlarms` (below): rows age only with a job that is over, and what a runner has left is still RUNNING |
| `ReportedOncePerAttemptHolds` | `ReportInv`: reports, runners executing the job and jobs that wait for one number at most one more than the interruptions. A potential is counted, not the reports alone: a crash trades a runner for a waiting job |
| `ChecksAreDecidedOnceHolds` | step by step: every step of `StandardRuns` is a step of `CheckLifecycle` or a stutter (`LifecycleStep`), from `LifecycleInv`: what is pending or saved is `decide` of the rows, and a runner about to report has saved every check that decides something |
| `ScoresAreEarnedHolds`, `ScoredOnceHolds` | what every implementation of `CheckLifecycle` gets |
| `StoredMapIsCurrentHolds` | `MapInv`: a request not yet read is on its way (`Coming`): being published, queued, orphaned, or held by a runner that has not read past it. It needs `Locked` and in it `Exclusive` (one job of a project is done at a time, by the runner its row names, and a twin the recovery saw still waits), which a false alarm breaks; the invariant has it while `Trusted`, and that nothing is lost while `Calm` |
| `OneAlarmPerFailedJobHolds` | `AlarmInv`: the same kind of count as `ReportInv`, with the recovery's stalled jobs |
| `CutEdgesAreMappedAgainHolds` | `CutInv`: who lost edges and is shown as analyzed is in some runner's `publishing` |
| `SomebodyIsInChargeHolds`, `OfferedIsAllowedHolds` | `ChargeInv`: what a handler's guard saw; a guard's answer is used in the step that asked, or by an admin write that `crossed` excuses if it no longer holds |
| `SeatsAreGivenOnceHolds`, `ReadyRequestsAreToldHolds`, `EveryAccountIsVouchedForHolds` | `InviteInv`, `RequestInv`, `VouchInv`: a handler between its read and its write holds an unaccepted invitation or a pending request, so its save takes back no approval and no acceptance |
| `SupportViewIsAsEnteredHolds`, `ConnectionsAreVouchedHolds` | `SessionInv`: the session and every tab's copy of it, kept or stale, name a support view that was entered since the login and answers GitHub gave for the workspace they are parked for |
| `DeliveriesAreObeyedHolds` | `GitHubInv`: what is connected is installed, or its removal is on its way, or lost |
| `RunsRecordWhatTheyRunHolds`, `ImportancesAreKeptHolds` | `HeldInv`: a version a handler means to use is there and holds its content; versions are only appended |
| `QuietStandardsAreSettledHolds` | `SettleInv`: a lone handler of a standard is on its way (`OnItsWay`) to number what was saved and to queue the current version; overlapping ones are in `disturbed` |
| `HooksMatchProjectsHolds` | `HookInv`: hook numbers of workspaces are apart, a request knows the hook it made and the one it replaces |
| `PushesArriveHolds`, `AnsweredPushesShowHolds` | `PushInv`: a push owed to a project is in a delivery that names its hook, or in a handler; `ShowInv`: what is stored under the current generation is no older than the last answered push, and a page about to store under it neither |
| `CommitsHaveTheirArchiveHolds` | `ArtInv`: what is to be erased is of a project that is gone |
| `HeadsAgreeHolds`, `OldChecksNeverMoveTheBranchHolds`, `FailureIsToldOnceHolds` | `ChecksInv`: checks have creation times of their own and commits are in the order of their times, so that `Latest` has one answer; `TellInv`: a telling is of a check whose job is over, and two of them have a passing check between |
| `DeliveredOnceHolds` | `DeliveryInv`: an inbox item has its log, a job being done has none, an ended one has one |
| `RerunReplacesItsStandardHolds`, `RoundHalfEvenIsNearest` | the re-run lemmas over histories of any length; the rounded quotient is a nearest integer |
| `AverageIsNearestHolds`, `BetterResultNeverLowersTheScoreHolds` | the score sums over a set of runs by a recursive function, which no induction theorem of the library can be used on here. `SumsExist` shows instead that the function exists on a finite set, by a smallest subset without one (well-foundedness of the subset relation); `SumsAgree` that it is unique; `SumOfOneMore` that the sum does not depend on the order runs are chosen in, which `CHOOSE` leaves open. Bounds of each run then carry over to the sums (`SumsAreBounded`, `SumsOfFewer`), and rounding keeps bounds and order |
| `OneRefreshAtATimeHolds`, `MapsMoveForwardHolds` | `Locked`, the part of `MapInv` that needs only that no live worker was taken for dead: one job of a project is done at a time, and what a runner is about to store is no older than what is stored |
| `StacksAreKeptHolds`, `CutProjectsAreMappedAgainHolds`, `GraphsAgreeHolds`, `MapIsTheLastAnswerHolds` | by what `Save` keeps and inherits, whatever the answer |
| `ABuildIsInstalledHolds`, `AutomationSurvivesPeopleHolds`, `LogoutEndsTheGrantHolds`, `SavedLoginsWorkHolds` | `UpdateInv`: what is about to be swapped in was verified; `TokensInv`; `SessionInv` and `LoginsInv` of the client: while nobody raced, an answer in hand is its grant's newest token and no file holds it yet |
| `ExitIsOfMyCheckHolds` | `WaitInv`: checks keep their place and, once pinned, their commit |

Hypotheses beyond the constants' types. `NoFalseAlarms` (no live worker is taken
for dead and no job outlives its cutoff) is a condition on constants, true of
the `attempt` run; `hostile` gives it up, and the property there is
`TimedOutRunsAreOver`, proved without it. `FailureIsToldOnce` speaks of tellings
by checks of the default branch: the policy reads the project whatever branch
its run is of, so of another branch's runs nothing is promised. What a property
excuses is in its statement (`faults`, `crossed`, `raced`, `missed`, `late`,
`left`, `failed`, `overlap`, `disturbed`), and each of these is set by the step
that breaks the promise. The assumptions on constants are named where they are
declared: `ConstantsAssumption` (StandardRuns), `RefreshAssumption`
(DependencyJobs; finitely many projects, so that the ones to announce can be
counted), `PeopleAssumption`, `SessionAssumption`, `StandardsAssumption`,
`ProjectsAssumption`, `ScoringAssumption`, `NotificationsAssumption`,
`RecentChecksAssumption`, `CheckWaitAssumption`, `CliSessionAssumption`,
`CliUpdateAssumption` and `ApiTokensAssumption`. They are types, finiteness and
distinctness of model values; TLC evaluates them in every run.

Only model-checked:

- `EveryRunSettles`, `EveryCheckIsScored` and `EveryRefreshSettles`: liveness
  under fairness is outside the prover's reach.
- `ChecksReadOneCommit`, which the `pin` run shows violated.

## Known gaps

Where the code does not keep a promise in some circumstance, the property names
the circumstance; TLC finds the counterexample at once when the exemption is
taken out. The ones met while modelling:

Runs and scores
- `app/tasks.py:217` skips by rows loaded before the first run: a row the sweep
  turned into an error meanwhile is overwritten by the late result
  (`SettledStaysSettled` is checked where rows do not outlive the cutoff).
- `standard_runs.py:178` reads the runs in flight before its transaction, so two
  requests may both queue a standard; and a `check --wait` during the push's own
  check may exit 2 ("never ran") though every standard ran.
- A sweep that dies between its update and its scoring leaves checks nobody
  scores; so does a database that fails the scoring handler
  (`EveryCheckIsScored`). A job recovered after publishing publishes again.
- A commit's head is read differently on two pages past `RECENT_CHECKS`
  (`HeadsAgree`); commits without a time go by when they were checked.
- "Project failed" is not told when checks overlap so that an earlier failing
  one is never the newest when it ends, nor when the commit before had no score.

Map
- A worker that dies between the commit and the callback forgets the projects
  whose edges it cut (`announce`); the end of one refresh hides that another
  waits (`refresh.py:171`); a live worker taken for dead, a publisher that dies
  half way and a lost database may leave a map behind a push. A worker taken for
  dead while it is alive may also store what it read over a newer map
  (`MapsMoveForward` has `Trusted` for that).
- A component that appears after a roster was read stays unlinked until the next
  refresh; stack membership added during the transaction is not inherited.

People and sessions
- Renewing an invitation saves the whole row and may bring back a revoked one;
  revoking a loaded row marks an accepted one revoked; a form sent twice tells
  superusers twice; an open invitation lets a rejected or deactivated account in.
- The admin's guards take no lock (`crossed`).
- Sessions are saved whole, so a tab may undo another's switch; a parked GitHub
  answer may connect an installation that was deleted since (`late`).

Standards and projects
- Two marketplace installs at once create two copies; a version number taken
  twice fails a request after its save; an edit saved while an older run is in
  flight queues no run; attach and detach of two requests lose one; full saves
  un-archive.
- `add_project` creates the row before a step that may refuse; registering a
  webhook forgets the old one before the new one exists, and concurrent retries
  leave a hook behind; deleting ignores the platform's answer; removing a
  connection leaves hooks; `cache.incr` is a read and a write; deletions and
  crashes leave archives without a commit.
- A dispatcher requeued while it is alive delivers twice.

Client
- Two commands at once may refresh one token twice, which ends the grant, or
  lose another host's login; logging in again or out with a rotated token
  leaves the old grant alive; an edge update may install a newer build than it
  named; two updates at once are not modelled.

## Not modelled

Rendering, routing, serializers, the text of results and messages, the
validation of standards' Python, scanning of archives and encryption are
sequential functions of data with no protocol between them. Mail is one
deferred job per message. The sandbox, the language model, the platforms and
the queue are outside: the models take any answer they may give. The dashboard's
counts are sums of what `CommitTimeline` gives for each project. Deleting a
project while its runs or its map are worked on is modelled in `DependencyJobs`
only.

## Plan

1. The order of `add_project`'s steps beside a refusal, and `SaveArchive` beside
   a storage that fails, in the terms of `HooksMatchProjects` and
   `CommitsHaveTheirArchive`.
2. Deleting a project beside `run_standards`, and two updates at once.
3. The API's management views as actions of `Projects` and `ApiTokens`.
