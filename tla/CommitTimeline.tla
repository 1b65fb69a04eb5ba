--------------------------- MODULE CommitTimeline ---------------------------
(***************************************************************************)
(* What a branch, a commit and a project read from the checks stored for   *)
(* them (BranchCommitTimeline, branch_head, project_heads, branch_score),  *)
(* and the health a score gives (ScoreHealth, ScoreBands).                 *)
(*                                                                         *)
(* A check is the record Check below; times are positions on one clock.    *)
(***************************************************************************)
EXTENDS Integers, FiniteSets

CONSTANT RecentChecks     \* RECENT_CHECKS

ASSUME RecentChecksAssumption == RecentChecks \in Nat \ {0}

NoScore == [value |-> -1, failed |-> FALSE]
FailedScore == [value |-> -1, failed |-> TRUE]

\* commit: 0 until its job pins it; at: the commit's time, 0 when the platform
\* gave none; saved: when its score row was made, 0 while it is being checked.
Check(commit, at, branch, created) ==
  [commit |-> commit, at |-> at, branch |-> branch, created |-> created, saved |-> 0, score |-> NoScore]
NoCheck == Check(0, 0, "", 0)

Bands == <<[letter |-> "A+", lowest |-> 100], [letter |-> "A", lowest |-> 90], [letter |-> "B", lowest |-> 75],
           [letter |-> "C", lowest |-> 60], [letter |-> "D", lowest |-> 0]>>
BandOf(value) == CHOOSE i \in DOMAIN Bands : value >= Bands[i].lowest /\ \A j \in 1 .. i - 1 : value < Bands[j].lowest
HealthyFrom == (CHOOSE b \in {Bands[i] : i \in DOMAIN Bands} : b.letter = "A").lowest
Tone(score) ==
  IF score.failed THEN "failed"
  ELSE IF score.value = -1 THEN "unknown"
  ELSE IF score.value >= HealthyFrom THEN "healthy" ELSE "needs_attention"
Grade(score) == IF score.failed THEN "F" ELSE IF score.value = -1 THEN "none" ELSE Bands[BandOf(score.value)].letter

\* Mutant of OrderedAt: commits go by when they were checked.
WhenChecked(check) == check.created
OrderedAt(check) == IF check.at # 0 THEN check.at ELSE check.created

\* The one of S that comes first by time, then by age of its row.
Latest(S, Time(_), Row(_)) ==
  IF S = {} THEN NoCheck
  ELSE CHOOSE c \in S : \A d \in S : Time(c) > Time(d) \/ (Time(c) = Time(d) /\ Row(c) >= Row(d))
Created(check) == check.created
SavedAt(check) == check.saved
Saved(checks) == {c \in checks : c.saved # 0}

\* Mutant of NewestCheckedCommit: the newest check, whatever its commit.
NewestChecked(checks) == Latest({c \in checks : c.commit # 0}, Created, Created)
NewestCheckedCommit(checks) == Latest({c \in checks : c.commit # 0}, OrderedAt, Created)

On(checks, branch) == {c \in checks : c.branch = branch}
Recent(checks) ==
  {c \in checks : c.commit # 0 /\ Cardinality({d \in checks : d.commit # 0 /\ d.created > c.created}) < RecentChecks}
BranchHead(checks, branch) == NewestCheckedCommit(Recent(On(checks, branch)))
ProjectHead(checks) == Latest({c \in On(checks, "main") : c.commit # 0}, OrderedAt, Created)

\* branch_score: the head's, or the newest one not decided from some runs.
BranchScore(checks, branch) == LET head == BranchHead(checks, branch) IN IF head.saved = 0 THEN NoScore ELSE head.score
\* project_scores, and the colour the dashboard counts a project under: one
\* with no grade needs attention.
ProjectScore(checks) == LET head == ProjectHead(checks) IN IF head.saved = 0 THEN NoScore ELSE head.score
CountedLevel(tone) == IF tone = "unknown" THEN "needs_attention" ELSE tone
ProjectHealthCount(checks) == CountedLevel(Tone(ProjectScore(checks)))
\* ProjectHealthService.health: what the API says of a branch.
Health(checks, branch) == Grade(BranchScore(checks, branch))

Without(checks, run) == {c \in Saved(checks) : c.created # run}
ScoreBefore(checks, branch, run) == Latest(Without(On(checks, branch), run), OrderedAt, SavedAt).score

\* CommitRow.shown: a commit's newest check.
Shown(checks, commit, branch) == Latest({c \in On(checks, branch) : c.commit = commit}, Created, Created)
=============================================================================
