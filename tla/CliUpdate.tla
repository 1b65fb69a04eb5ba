----------------------------- MODULE CliUpdate -----------------------------
(***************************************************************************)
(* `gitgrit update` (cli/internal/update, cli/cmd/update.go) on the edge   *)
(* channel, whose one release is deleted and created again on every push,  *)
(* under the same download addresses: an updater may read the release, the *)
(* checksums and the archive of different builds.  A build is a number; a  *)
(* download may arrive broken.                                             *)
(***************************************************************************)
EXTENDS Naturals

CONSTANTS MaxBuilds   \* builds ever published

ASSUME CliUpdateAssumption == MaxBuilds \in Nat \ {0}

VARIABLES published,  \* the newest build
          release,    \* the build the release holds, 0 while there is none
          windows,    \* a running binary cannot be overwritten
          binary,     \* the installed build, 0 when there is no file
          aside,      \* the build moved aside on Windows
          noticed,    \* state.yml: the newest build the notifier read
          update      \* the update under way

updateVars == <<published, release, windows, binary, aside, noticed, update>>

Broken == MaxBuilds + 1
NoUpdate == [at |-> "none", latest |-> 0, sums |-> 0, archive |-> 0]

UpdateInit ==
  /\ published = 1 /\ release = 1 /\ binary = 1
  /\ windows \in BOOLEAN
  /\ aside = 0 /\ noticed = 0
  /\ update = NoUpdate

\* The publish workflow replaces the release.
DeleteRelease ==
  /\ release # 0 /\ published < MaxBuilds
  /\ release' = 0
  /\ UNCHANGED <<published, windows, binary, aside, noticed, update>>
CreateRelease ==
  /\ release = 0
  /\ published' = published + 1 /\ release' = published + 1
  /\ UNCHANGED <<windows, binary, aside, noticed, update>>

\* On the edge channel any other build is newer.  (With no binary there is
\* nothing to run the command with.)
Newer(latest) == binary # 0 /\ latest # binary
\* At most once a day the notifier asks for the latest release.
Notice ==
  /\ release # 0 /\ noticed' = release
  /\ UNCHANGED <<published, release, windows, binary, aside, update>>

Step(from, to) == update.at = from /\ update' = to /\ UNCHANGED <<published, release, windows, noticed>>
Latest ==
  /\ release # 0 /\ Newer(release)
  /\ Step("none", [NoUpdate EXCEPT !.at = "sums", !.latest = release])
  /\ UNCHANGED <<binary, aside>>
ReadChecksums ==
  /\ release # 0
  /\ Step("sums", [update EXCEPT !.at = "archive", !.sums = release])
  /\ UNCHANGED <<binary, aside>>
ReadArchive ==
  /\ release # 0
  /\ \E archive \in {release, Broken} : Step("archive", [update EXCEPT !.at = "verify", !.archive = archive])
  /\ UNCHANGED <<binary, aside>>
\* Mutant of Verified: the archive is taken as it came.
Unverified == TRUE
Verified == update.archive = update.sums
Refuse == update.at = "verify" /\ ~Verified /\ Step("verify", NoUpdate) /\ UNCHANGED <<binary, aside>>

\* The new binary is renamed over the old, which Windows moves aside first.
MoveAside ==
  /\ windows /\ Verified
  /\ Step("verify", [update EXCEPT !.at = "swap"])
  /\ aside' = binary /\ binary' = 0
Replace ==
  /\ Verified
  /\ Step(IF windows THEN "swap" ELSE "verify", NoUpdate)
  /\ binary' = update.archive /\ UNCHANGED aside

\* A download fails, or the process dies.
Abandon == update.at # "none" /\ Step(update.at, NoUpdate) /\ UNCHANGED <<binary, aside>>

UpdateNext ==
  \/ DeleteRelease \/ CreateRelease \/ Notice \/ Latest \/ ReadChecksums \/ ReadArchive
  \/ Refuse \/ MoveAside \/ Replace \/ Abandon

\* Whatever the release turns into under an update and wherever it dies, there
\* is a whole published build to run: the installed binary, or, on Windows
\* between the two renames, the one moved aside.
ABuildIsInstalled ==
  \/ binary \in 1 .. published
  \/ windows /\ binary = 0 /\ aside \in 1 .. published
=============================================================================
