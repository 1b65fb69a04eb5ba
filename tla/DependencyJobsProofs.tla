------------------------ MODULE DependencyJobsProofs ------------------------
(***************************************************************************)
(* Theorems about DependencyJobs, for any number of projects, publishers,  *)
(* runners, attempts and jobs: no push is lost by coalescing, a failure is *)
(* told once per attempt at a job, and what a refresh cut is mapped again. *)
(***************************************************************************)
EXTENDS DependencyJobs, FiniteSetTheorems, TLAPS

USE DEF asking, queue, maps, worker, recovery

TypeOK ==
  /\ head \in [Projects -> 1..MaxHead]
  /\ heard \in [Projects -> 0..MaxHead]
  /\ asked \in Nat
  /\ job \in [Jobs -> [project : Projects \cup {Nobody}, status : JobStatus]]
  /\ \A j \in Jobs : job[j].status # "none" => job[j].project \in Projects
  /\ owner \in [Jobs -> Runners \cup {Nobody}]
  /\ status \in [Projects -> DepsStatus \cup {"gone"}]
  /\ stored \in [Projects -> 0..MaxHead]
  /\ cut \subseteq Projects
  /\ told \in [Jobs -> Nat]
  /\ publishing \in [Actors -> SUBSET Projects]
  /\ marked \in [Actors -> Projects \cup {Nobody}]
  /\ pc \in [Runners -> {"idle", "start", "infer", "store", "announce", "caught", "tell", "finish"}]
  /\ at \in [Runners -> Jobs \cup {Nobody}]
  /\ \A w \in Runners : pc[w] # "idle" => at[w] \in Jobs /\ job[at[w]].status # "none"
  /\ attempt \in [Runners -> Nat]
  /\ snapshot \in [Runners -> 0..MaxHead]
  /\ ending \in [Runners -> Ended]
  /\ stalled \subseteq Jobs
  /\ looked \in [job : Jobs \cup {Nobody}, twin : BOOLEAN]
  /\ faults \in [Faults -> Nat]

\* Who lost edges and is still shown as analyzed is about to be queued by the
\* runner that cut them, and only a runner that announces queues anything.
CutInv ==
  /\ \A w \in Runners : pc[w] # "announce" => publishing[w] = {}
  /\ faults["announce"] = 0 =>
       \A p \in cut : status[p] = "ok" => \E w \in Runners : p \in publishing[w]

\* What the recovery is about: jobs once selected while they were being done.
RecoveryInv ==
  /\ \A j \in stalled : job[j].status \in {"doing"} \cup Ended
  /\ looked # NotLooked => looked.job \in stalled

\* The runner that the row of a job being done names executes that job.
OwnersExecute ==
  \A j \in Jobs : job[j].status = "doing" /\ owner[j] # Nobody =>
    pc[owner[j]] # "idle" /\ at[owner[j]] = j

Interrupted == faults["crash"] + faults["announce"] + faults["silence"]

\* An attempt at a job is an alarm raised, a runner that may still raise it, or
\* a job that waits for a runner or is about to be given another one.
Active(j) == {w \in Runners : at[w] = j /\ pc[w] \notin {"idle", "finish"}}
Waits(j) ==
  IF \/ job[j].status \in {"none", "todo"}
     \/ job[j].status = "doing" /\ (owner[j] = Nobody \/ j \in stalled)
  THEN 1 ELSE 0

Counted(j) ==
  /\ IsFiniteSet(Active(j))
  /\ told[j] + Cardinality(Active(j)) + Waits(j) <= 1 + Interrupted

\* Without an interruption, a job has one execution, which tells what its end
\* will say.
Undisturbed ==
  /\ stalled = {}
  /\ \A j \in Jobs : job[j].status = "doing" => owner[j] # Nobody
  /\ \A w \in Runners : pc[w] # "idle" => job[at[w]].status = "doing" /\ owner[at[w]] = w
  /\ \A w \in Runners : pc[w] \notin {"idle", "finish"} => told[at[w]] = 0
  /\ \A w \in Runners : pc[w] = "finish" => (ending[w] = "failed" <=> told[at[w]] > 0)
  /\ \A j \in Jobs :
       /\ job[j].status \in {"none", "todo", "succeeded"} => told[j] = 0
       /\ job[j].status = "failed" => told[j] > 0 \/ faults["database"] > 0

AlarmInv ==
  /\ RecoveryInv /\ OwnersExecute
  /\ \A j \in Jobs : Counted(j)
  /\ \A w \in Runners : pc[w] # "finish" => ending[w] = "succeeded"
  /\ Interrupted = 0 => Undisturbed

\* Without a false alarm, a project has one job being done, the runner its row
\* names executes it, and the recovery handles orphans only; a twin it saw is
\* still waiting.
Exclusive ==
  /\ \A w \in Runners : pc[w] # "idle" => job[at[w]].status = "doing" /\ owner[at[w]] = w
  /\ \A j, k \in Jobs : job[j].status = "doing" /\ job[k].status = "doing"
       /\ job[j].project = job[k].project => j = k
  /\ \A j \in stalled : job[j].status = "doing" /\ owner[j] = Nobody
  /\ looked # NotLooked /\ looked.twin => Waiting(job[looked.job].project)

\* A refresh of p that will read its head at the latest request, or later.
Reads(j, p) ==
  \/ job[j].status = "todo"
  \/ job[j].status = "doing" /\ owner[j] = Nobody
  \/ /\ job[j].status = "doing" /\ owner[j] \in Runners
     /\ \/ pc[owner[j]] \in {"start", "infer", "caught"}
        \/ pc[owner[j]] = "store" /\ snapshot[owner[j]] >= heard[p]

Coming(p) ==
  \/ \E a \in Publishers : p \in publishing[a] \/ marked[a] = p
  \/ \E j \in Jobs : job[j].project = p /\ Reads(j, p)

GaveUp(p) ==
  /\ status[p] # "ok"
  /\ \A w \in Runners : pc[w] = "store" => ProjectAt(w) # p

UpToDate(p) == stored[p] >= heard[p] \/ Coming(p) \/ GaveUp(p)

\* A runner about to store a map read a commit no older than the stored one's.
Locked ==
  /\ Exclusive
  /\ \A w \in Runners : pc[w] = "store" => stored[ProjectAt(w)] <= snapshot[w]

NoPushIsLost == Locked /\ \A p \in Projects : UpToDate(p)

\* No live worker was taken for dead.
Trusted == faults["silence"] = 0

\* No request for a refresh was given up either.
Calm == faults["silence"] = 0 /\ faults["publisher"] = 0 /\ faults["database"] = 0

\* Commits are numbered in the order they are pushed.
CommitsInOrder ==
  /\ \A p \in Projects : heard[p] <= head[p] /\ stored[p] <= head[p]
  /\ \A w \in Runners : pc[w] = "store" => snapshot[w] <= head[ProjectAt(w)]

MapInv ==
  /\ RecoveryInv /\ OwnersExecute /\ CommitsInOrder
  /\ (Trusted => Locked)
  /\ (Calm => NoPushIsLost)
-----------------------------------------------------------------------------
(***************************************************************************)
(* Types.                                                                  *)
(***************************************************************************)

LEMMA FaultType ==
  ASSUME TypeOK, NEW f \in Faults, Fault(f)
  PROVE  /\ faults' \in [Faults -> Nat]
         /\ faults'[f] = faults[f] + 1
         /\ \A g \in Faults \ {f} : faults'[g] = faults[g]
BY DEF Fault, TypeOK

LEMMA ShowType ==
  ASSUME TypeOK, NEW p \in Projects, NEW shown \in DepsStatus, Show(p, shown)
  PROVE  /\ status' \in [Projects -> DepsStatus \cup {"gone"}]
         /\ \A q \in Projects \ {p} : status'[q] = status[q]
         /\ status'[p] \in {shown, "gone"}
         /\ status'[p] = "gone" <=> status[p] = "gone"
BY DEF Show, TypeOK, DepsStatus

\* Every actor's job is one that was queued for a project.
LEMMA Executing ==
  ASSUME TypeOK, NEW w \in Runners, pc[w] # "idle"
  PROVE  at[w] \in Jobs /\ job[at[w]].status # "none" /\ ProjectAt(w) \in Projects
BY DEF TypeOK, ProjectAt

LEMMA AskingType ==
  ASSUME TypeOK, NEW a \in Actors, EnqueueRefresh(a)
  PROVE  TypeOK'
<1>1. CASE Mark(a)
  <2>1. PICK p \in publishing[a] : Mark(a)!(p)
    BY <1>1 DEF Mark
  <2>2. p \in Projects /\ "pending" \in DepsStatus
    BY <2>1 DEF TypeOK, DepsStatus
  <2>3. status' \in [Projects -> DepsStatus \cup {"gone"}]
    BY <2>1, <2>2, ShowType
  <2>. QED
    BY <2>1, <2>2, <2>3 DEF TypeOK
<1>2. CASE Defer(a)
  <2>1. /\ marked[a] \in Projects /\ marked' \in [Actors -> Projects \cup {Nobody}]
        /\ QueueJob(marked[a])
        /\ UNCHANGED <<head, heard, asked, publishing, owner, maps, told, worker, recovery, faults>>
    BY <1>2 DEF Defer, TypeOK
  <2>2. CASE UNCHANGED job
    BY <2>1, <2>2 DEF TypeOK
  <2>3. ASSUME NEW k \in Jobs,
               job' = [job EXCEPT ![k] = [project |-> marked[a], status |-> "todo"]]
        PROVE  TypeOK'
    <3>1. job' \in [Jobs -> [project : Projects \cup {Nobody}, status : JobStatus]]
      BY <2>1, <2>3 DEF TypeOK, JobStatus
    <3>2. \A j \in Jobs : /\ job'[j].status # "none" => job'[j].project \in Projects
                          /\ job[j].status # "none" => job'[j].status # "none"
      BY <2>1, <2>3 DEF TypeOK
    <3>. QED
      BY <2>1, <3>1, <3>2 DEF TypeOK
  <2>. QED
    BY <2>1, <2>2, <2>3 DEF QueueJob
<1>. QED
  BY <1>1, <1>2 DEF EnqueueRefresh

LEMMA ForgetType ==
  ASSUME TypeOK, NEW w \in Runners, Forget(w)
  PROVE  /\ pc' \in [Runners -> {"idle", "start", "infer", "store", "announce", "caught", "tell",
                                 "finish"}]
         /\ at' \in [Runners -> Jobs \cup {Nobody}]
         /\ attempt' \in [Runners -> Nat] /\ snapshot' \in [Runners -> 0..MaxHead]
         /\ ending' \in [Runners -> Ended]
         /\ pc'[w] = "idle" /\ at'[w] = Nobody /\ ending'[w] = "succeeded"
         /\ \A v \in Runners \ {w} : /\ pc'[v] = pc[v] /\ at'[v] = at[v] /\ ending'[v] = ending[v]
                                     /\ snapshot'[v] = snapshot[v]
BY RefreshAssumption DEF Forget, TypeOK, Ended

LEMMA EndJobType ==
  ASSUME TypeOK, NEW j \in Jobs, NEW how \in Ended, EndJob(j, how)
  PROVE  /\ job' \in [Jobs -> [project : Projects \cup {Nobody}, status : JobStatus]]
         /\ owner' \in [Jobs -> Runners \cup {Nobody}]
         /\ \A k \in Jobs : job'[k].project = job[k].project
         /\ \A k \in Jobs \ {j} : job'[k] = job[k] /\ owner'[k] = owner[k]
         /\ owner'[j] = Nobody
         /\ job'[j].status = IF job[j].status \in Ended THEN job[j].status ELSE how
<1>1. owner' \in [Jobs -> Runners \cup {Nobody}] /\ owner'[j] = Nobody
      /\ \A k \in Jobs \ {j} : owner'[k] = owner[k]
  BY DEF EndJob, TypeOK
<1>2. CASE job[j].status \in Ended
  BY <1>1, <1>2 DEF EndJob, TypeOK
<1>3. CASE job[j].status \notin Ended
  <2>1. job' = [job EXCEPT ![j].status = how] /\ how \in JobStatus
    BY <1>3 DEF EndJob, Ended, JobStatus
  <2>. QED
    BY SMTT(30), <1>1, <1>3, <2>1 DEF TypeOK
<1>. QED
  BY <1>2, <1>3

LEMMA EndingType ==
  ASSUME TypeOK, NEW w \in Runners, pc[w] # "idle", NEW how \in Ended, EndJob(at[w], how), Forget(w),
         faults' \in [Faults -> Nat], UNCHANGED <<head, asking, maps, told, recovery>>
  PROVE  TypeOK'
<1>1. at[w] \in Jobs
  BY Executing
<1>2. \A k \in Jobs : job[k].status # "none" => job'[k].status # "none"
  BY <1>1, EndJobType DEF Ended
<1>3. \A k \in Jobs : job'[k].status # "none" => job'[k].project \in Projects
  <2>1. job[at[w]].status # "none"
    BY Executing
  <2>2. /\ \A k \in Jobs : job'[k].project = job[k].project
        /\ \A k \in Jobs \ {at[w]} : job'[k] = job[k]
    BY <1>1, EndJobType
  <2>. QED
    BY <1>1, <2>1, <2>2 DEF TypeOK
<1>4. /\ job' \in [Jobs -> [project : Projects \cup {Nobody}, status : JobStatus]]
      /\ owner' \in [Jobs -> Runners \cup {Nobody}]
  BY <1>1, EndJobType
<1>5. \A v \in Runners : pc'[v] # "idle" => at'[v] \in Jobs /\ job'[at'[v]].status # "none"
  BY <1>2, ForgetType DEF TypeOK
<1>. QED
  BY <1>3, <1>4, <1>5, ForgetType DEF TypeOK

\* The counter of the refreshes asked for.
LEMMA AskedType ==
  ASSUME TypeOK, NEW ps \in SUBSET Projects
  PROVE  asked + Cardinality(ps) \in Nat
<1>1. Cardinality(ps) \in Nat
  BY FS_Subset, FS_CardinalityType, RefreshAssumption
<1>. QED
  BY <1>1 DEF TypeOK

LEMMA StoreType ==
  ASSUME TypeOK, NEW w \in Runners, Store(w)
  PROVE  TypeOK'
<1>. DEFINE p == ProjectAt(w)
<1>1. p \in Projects /\ snapshot[w] \in 0..MaxHead
  BY Executing DEF Store, TypeOK
<1>2. /\ pc[w] = "store" /\ pc' = [pc EXCEPT ![w] = "announce"]
      /\ stored' = [stored EXCEPT ![p] = snapshot[w]] /\ Show(p, "ok")
      /\ UNCHANGED <<head, heard, queue, told, marked, at, attempt, snapshot, ending, recovery,
                     faults>>
  BY DEF Store
<1>3. PICK affected \in SUBSET {q \in Projects \ {p} : status[q] # "gone"} :
        /\ asked + Cardinality(affected) <= MaxJobs
        /\ asked' = asked + Cardinality(affected)
        /\ cut' = (cut \ {p}) \cup affected
        /\ publishing' = [publishing EXCEPT ![w] = affected]
  BY DEF Store
<1>4. status' \in [Projects -> DepsStatus \cup {"gone"}]
  BY <1>1, <1>2, ShowType DEF DepsStatus
<1>. HIDE DEF p
<1>5. asked' \in Nat
  BY <1>3, AskedType
<1>. QED
  BY <1>1, <1>2, <1>3, <1>4, <1>5 DEF TypeOK, Actors

\* A step of the recovery that selects or forgets jobs, or looks at one.
LEMMA RecoveryType ==
  ASSUME TypeOK, stalled' \subseteq Jobs, looked' \in [job : Jobs \cup {Nobody}, twin : BOOLEAN],
         faults' \in [Faults -> Nat], UNCHANGED <<head, asking, queue, maps, told, worker>>
  PROVE  TypeOK'
BY DEF TypeOK

LEMMA HandleType ==
  ASSUME TypeOK, RecoveryInv, NEW j \in Jobs, HandleStalled(j)
  PROVE  TypeOK'
<1>1. /\ stalled' = stalled \ {j} /\ looked' = NotLooked
      /\ UNCHANGED <<head, asking, maps, told, worker, faults>>
  BY DEF HandleStalled
<1>2. CASE UNCHANGED queue
  BY <1>1, <1>2 DEF TypeOK, NotLooked
<1>3. CASE EndJob(j, "failed") /\ job[j].status \in {"todo", "doing"}
  <2>1. \A k \in Jobs : /\ job[k].status # "none" => job'[k].status # "none"
                        /\ job'[k].status # "none" => job'[k].project \in Projects
    BY <1>3, EndJobType DEF Ended, TypeOK
  <2>. QED
    BY <1>1, <1>3, <2>1, EndJobType DEF TypeOK, NotLooked, Ended
<1>4. CASE /\ job[j].status = "doing" /\ job' = [job EXCEPT ![j].status = "todo"]
           /\ owner' = [owner EXCEPT ![j] = Nobody]
  <2>1. job' \in [Jobs -> [project : Projects \cup {Nobody}, status : JobStatus]]
    BY <1>4 DEF TypeOK, JobStatus
  <2>2. \A k \in Jobs : /\ job[k].status # "none" => job'[k].status # "none"
                        /\ job'[k].status # "none" => job'[k].project \in Projects
    BY <1>4 DEF TypeOK
  <2>. QED
    BY <1>1, <1>4, <2>1, <2>2 DEF TypeOK, NotLooked
<1>. QED
  BY <1>2, <1>3, <1>4 DEF HandleStalled

LEMMA FetchType ==
  ASSUME TypeOK, NEW w \in Runners, NEW j \in Jobs, Fetch(w, j)
  PROVE  TypeOK'
<1>1. job' \in [Jobs -> [project : Projects \cup {Nobody}, status : JobStatus]]
  BY SMTT(30) DEF Fetch, TypeOK, JobStatus
<1>2. \A k \in Jobs : /\ job[k].status # "none" => job'[k].status # "none"
                      /\ job'[k].status # "none" => job'[k].project \in Projects
  BY DEF Fetch, TypeOK
<1>3. job'[j].status # "none"
  BY DEF Fetch, TypeOK
<1>. QED
  BY <1>1, <1>2, <1>3 DEF Fetch, TypeOK

LEMMA TypeInit == Init => TypeOK
<1>. SUFFICES ASSUME Init PROVE TypeOK
  OBVIOUS
<1>1. Nobody \in Jobs \cup {Nobody} /\ [project |-> Nobody, status |-> "none"]
        \in [project : Projects \cup {Nobody}, status : JobStatus]
  BY DEF JobStatus
<1>. QED
  BY <1>1, RefreshAssumption DEF Init, TypeOK, NotLooked, Faults, Actors, Ended, DepsStatus

LEMMA TypeStep ==
  ASSUME TypeOK, RecoveryInv, [Next]_vars
  PROVE  TypeOK'
<1>1. CASE UNCHANGED vars
  BY <1>1 DEF vars, TypeOK
<1>2. ASSUME NEW p \in Projects, Push(p) PROVE TypeOK'
  <2>1. /\ head[p] \in 1..MaxHead /\ MaxHead \in Nat /\ head[p] < MaxHead
        /\ head' = [head EXCEPT ![p] = @ + 1]
    BY <1>2, RefreshAssumption DEF Push, TypeOK
  <2>2. head' \in [Projects -> 1..MaxHead]
    BY <2>1 DEF TypeOK
  <2>. QED
    BY <1>2, <2>2 DEF Push, TypeOK
<1>3. ASSUME NEW p \in Projects, DeleteProject(p) PROVE TypeOK'
  BY <1>3 DEF DeleteProject, TypeOK
<1>4. ASSUME NEW a \in Publishers, Ask(a) PROVE TypeOK'
  <2>1. PICK ps \in (SUBSET {p \in Projects : status[p] # "gone"}) \ {{}} :
          /\ asked' = asked + Cardinality(ps)
          /\ publishing' = [publishing EXCEPT ![a] = ps]
          /\ heard' = [p \in Projects |-> IF p \in ps THEN head[p] ELSE heard[p]]
    BY <1>4 DEF Ask
  <2>2. UNCHANGED <<head, queue, maps, told, marked, worker, recovery, faults>>
    BY <1>4 DEF Ask
  <2>3. asked' \in Nat
    BY <2>1, AskedType
  <2>. QED
    BY <2>1, <2>2, <2>3 DEF TypeOK, Actors
<1>5. ASSUME NEW a \in Actors, EnqueueRefresh(a) PROVE TypeOK'
  BY <1>5, AskingType
<1>6. ASSUME NEW a \in Publishers, PublisherDies(a) PROVE TypeOK'
  <2>1. faults' \in [Faults -> Nat]
    BY <1>6, FaultType DEF PublisherDies, Faults
  <2>. QED
    BY <1>6, <2>1 DEF PublisherDies, TypeOK
<1>7. ASSUME NEW w \in Runners, NEW j \in Jobs, Fetch(w, j) PROVE TypeOK'
  BY <1>7, FetchType
<1>8. ASSUME NEW w \in Runners, RunnerStep(w) PROVE TypeOK'
  <2>1. CASE Start(w)
    <3>1. ProjectAt(w) \in Projects /\ "running" \in DepsStatus
      BY <2>1, Executing DEF Start, DepsStatus
    <3>2. status' \in [Projects -> DepsStatus \cup {"gone"}]
      BY <2>1, <3>1, ShowType DEF Start, TypeOK
    <3>. QED
      BY <2>1, <3>2 DEF Start, TypeOK
  <2>2. CASE Infer(w)
    BY <2>2, Executing DEF Infer, TypeOK
  <2>3. CASE Store(w)
    BY <2>3, StoreType
  <2>4. CASE StoreFails(w)
    BY <2>4 DEF StoreFails, TypeOK
  <2>5. CASE Announce(w)
    BY <2>5, <1>5 DEF Announce, TypeOK, Actors
  <2>6. CASE Caught(w)
    <3>1. ProjectAt(w) \in Projects /\ "failed" \in DepsStatus
      BY <2>6, Executing DEF Caught, DepsStatus
    <3>2. status' \in [Projects -> DepsStatus \cup {"gone"}]
      BY <2>6, <3>1, ShowType DEF Caught, TypeOK
    <3>3. at' = at /\ job' = job /\ at[w] \in Jobs /\ job[at[w]].status # "none"
      BY <2>6, Executing DEF Caught
    <3>4. attempt' \in [Runners -> Nat]
      BY <2>6 DEF Caught, TypeOK
    <3>5. pc' \in [Runners -> {"idle", "start", "infer", "store", "announce", "caught", "tell",
                              "finish"}]
          /\ \A v \in Runners \ {w} : pc'[v] = pc[v]
      BY <2>6 DEF Caught, TypeOK
    <3>6. \A v \in Runners : pc'[v] # "idle" => at'[v] \in Jobs /\ job'[at'[v]].status # "none"
      BY <3>3, <3>5 DEF TypeOK
    <3>. QED
      BY <2>6, <3>2, <3>3, <3>4, <3>5, <3>6 DEF Caught, TypeOK
  <2>7. CASE Tell(w)
    BY <2>7 DEF Tell, TypeOK, Ended
  <2>8. CASE Finish(w)
    <3>1. pc[w] # "idle" /\ ending[w] \in Ended /\ UNCHANGED faults /\ faults \in [Faults -> Nat]
      BY <2>8 DEF Finish, TypeOK
    <3>. QED
      BY <2>8, <3>1, EndingType DEF Finish
  <2>. QED
    BY <1>8, <2>1, <2>2, <2>3, <2>4, <2>5, <2>6, <2>7, <2>8 DEF RunnerStep
<1>9. ASSUME NEW w \in Runners, Crash(w) PROVE TypeOK'
  <2>1. faults' \in [Faults -> Nat]
    BY <1>9, FaultType DEF Crash, Faults
  <2>2. /\ Forget(w) /\ UNCHANGED <<head, heard, asked, job, maps, told, recovery>>
        /\ publishing' = [publishing EXCEPT ![w] = {}]
        /\ marked' = [marked EXCEPT ![w] = Nobody]
        /\ owner' = [j \in Jobs |-> IF owner[j] = w THEN Nobody ELSE owner[j]]
    BY <1>9 DEF Crash
  <2>3. \A v \in Runners : pc'[v] # "idle" => at'[v] \in Jobs /\ job'[at'[v]].status # "none"
    BY <2>2, ForgetType DEF TypeOK
  <2>4. /\ publishing' \in [Actors -> SUBSET Projects]
        /\ marked' \in [Actors -> Projects \cup {Nobody}]
        /\ owner' \in [Jobs -> Runners \cup {Nobody}]
    BY <2>2 DEF TypeOK
  <2>. QED
    BY <2>1, <2>2, <2>3, <2>4, ForgetType DEF TypeOK
<1>10. ASSUME NEW w \in Runners, LoseDatabase(w) PROVE TypeOK'
  <2>1. faults' \in [Faults -> Nat] /\ pc[w] # "idle" /\ "failed" \in Ended
    BY <1>10, FaultType DEF LoseDatabase, Faults, Ended
  <2>. QED
    BY <1>10, <2>1, EndingType DEF LoseDatabase
<1>11. ASSUME NEW w \in Runners, AnnounceFails(w) PROVE TypeOK'
  <2>1. faults' \in [Faults -> Nat]
    BY <1>11, FaultType DEF AnnounceFails, Faults
  <2>. QED
    BY <1>11, <2>1 DEF AnnounceFails, TypeOK
<1>12. ASSUME SelectStalled PROVE TypeOK'
  BY <1>12, RecoveryType DEF SelectStalled, TypeOK, Orphans
<1>13. ASSUME NEW j \in Jobs, LookForTwin(j) PROVE TypeOK'
  BY <1>13, RecoveryType DEF LookForTwin, TypeOK, Waiting
<1>14. ASSUME NEW j \in Jobs, HandleStalled(j) PROVE TypeOK'
  BY <1>14, HandleType
<1>15. ASSUME RecoveryDies PROVE TypeOK'
  BY <1>15, FaultType, RecoveryType DEF RecoveryDies, Faults, NotLooked
<1>16. ASSUME NEW j \in Jobs, SelectSilent(j) PROVE TypeOK'
  <2>1. faults' \in [Faults -> Nat]
    BY <1>16, FaultType DEF SelectSilent, Faults
  <2>. QED
    BY <1>16, <2>1, RecoveryType DEF SelectSilent, TypeOK, Orphans
<1>. QED
  BY <1>1, <1>2, <1>3, <1>4, <1>5, <1>6, <1>7, <1>8, <1>9, <1>10, <1>11, <1>12, <1>13, <1>14,
     <1>15, <1>16 DEF Next, RecoveryStep, Rest, Actors
-----------------------------------------------------------------------------
(***************************************************************************)
(* What a step does to the queue.                                          *)
(***************************************************************************)

\* A job is queued, handed out, ended, or put back by the recovery, and stays
\* its project's.
JobMove(j) ==
  /\ job[j].status # "none" => job'[j].project = job[j].project
  /\ \/ job'[j].status = job[j].status
     \/ job[j].status = "none" /\ job'[j].status = "todo" /\ UNCHANGED recovery
     \/ job[j].status = "todo" /\ job'[j].status = "doing" /\ UNCHANGED recovery
     \/ job[j].status \in {"todo", "doing"} /\ job'[j].status \in Ended
     \/ job[j].status = "doing" /\ job'[j].status = "todo" /\ HandleStalled(j)

LEMMA JobMoves ==
  ASSUME TypeOK, RecoveryInv, [Next]_vars, NEW j \in Jobs
  PROVE  JobMove(j)
<1>1. ASSUME UNCHANGED job PROVE JobMove(j)
  BY <1>1 DEF JobMove
<1>2. ASSUME NEW a \in Actors, Defer(a) PROVE JobMove(j)
  <2>1. CASE UNCHANGED job
    BY <2>1 DEF JobMove
  <2>2. ASSUME NEW k \in Jobs, job[k].status = "none",
               job' = [job EXCEPT ![k] = [project |-> marked[a], status |-> "todo"]]
        PROVE  JobMove(j)
    BY <1>2, <2>2 DEF Defer, TypeOK, JobMove
  <2>. QED
    BY <1>2, <2>1, <2>2 DEF Defer, QueueJob
<1>3. ASSUME NEW w \in Runners, NEW k \in Jobs, Fetch(w, k) PROVE JobMove(j)
  BY <1>3 DEF Fetch, TypeOK, JobMove
<1>4. ASSUME NEW w \in Runners, NEW k \in Jobs, NEW how \in Ended, EndJob(k, how),
             job[k].status # "none"
      PROVE  JobMove(j)
  <2>1. job'[j].project = job[j].project
    BY <1>4, EndJobType
  <2>2. CASE j # k
    BY <1>4, <2>1, <2>2, EndJobType DEF JobMove
  <2>3. CASE j = k
    <3>1. job[j].status \in {"todo", "doing"} \cup Ended
      BY <1>4, <2>3 DEF TypeOK, JobStatus, Ended
    <3>2. job'[j].status = IF job[j].status \in Ended THEN job[j].status ELSE how
      BY <1>4, <2>3, EndJobType
    <3>. QED
      BY <1>4, <2>1, <3>1, <3>2 DEF JobMove
  <2>. QED
    BY <2>2, <2>3
<1>5. ASSUME NEW w \in Runners, Finish(w) \/ LoseDatabase(w) PROVE JobMove(j)
  <2>1. pc[w] # "idle" /\ \E how \in Ended : EndJob(at[w], how)
    BY <1>5 DEF Finish, LoseDatabase, TypeOK, Ended
  <2>. QED
    BY <1>4, <2>1, Executing
<1>6. ASSUME NEW k \in Jobs, HandleStalled(k) PROVE JobMove(j)
  <2>1. CASE UNCHANGED queue
    BY <2>1 DEF JobMove
  <2>2. CASE EndJob(k, "failed") /\ job[k].status \in {"todo", "doing"}
    <3>1. job'[j].project = job[j].project
      BY <2>2, EndJobType DEF Ended
    <3>2. job'[j].status = job[j].status \/ (k = j /\ job'[j].status = "failed")
      BY <2>2, EndJobType DEF Ended
    <3>. QED
      BY <2>2, <3>1, <3>2 DEF Ended, JobMove
  <2>3. CASE job[k].status = "doing" /\ job' = [job EXCEPT ![k].status = "todo"]
    BY <1>6, <2>3 DEF TypeOK, JobMove
  <2>. QED
    BY <1>6, <2>1, <2>2, <2>3 DEF HandleStalled
<1>7. CASE \/ \E p \in Projects : Push(p) \/ DeleteProject(p)
           \/ \E a \in Publishers : Ask(a) \/ PublisherDies(a)
           \/ \E a \in Actors : Mark(a)
           \/ UNCHANGED vars \/ Rest
  BY <1>1, <1>7 DEF Push, DeleteProject, Ask, Mark, PublisherDies, vars, Rest
<1>8. ASSUME NEW w \in Runners,
             \/ Start(w) \/ Infer(w) \/ Store(w) \/ StoreFails(w) \/ Caught(w) \/ Tell(w)
             \/ Crash(w) \/ AnnounceFails(w)
      PROVE  JobMove(j)
  BY <1>1, <1>8 DEF Start, Infer, Store, StoreFails, Caught, Tell, Crash, AnnounceFails
<1>9. ASSUME NEW w \in Runners, Announce(w) PROVE JobMove(j)
  <2>1. w \in Actors /\ (Mark(w) \/ Defer(w) \/ UNCHANGED job)
    BY <1>9 DEF Announce, EnqueueRefresh, Actors
  <2>. QED
    BY <1>1, <1>2, <1>7, <2>1
<1>10. CASE RecoveryDies \/ SelectStalled \/ \E k \in Jobs : LookForTwin(k) \/ SelectSilent(k)
  BY <1>1, <1>10 DEF RecoveryDies, SelectStalled, LookForTwin, SelectSilent
<1>. QED
  BY <1>2, <1>3, <1>5, <1>6, <1>7, <1>8, <1>9, <1>10
     DEF Next, RunnerStep, RecoveryStep, EnqueueRefresh, Actors

LEMMA RecoveryInvStep ==
  ASSUME TypeOK, RecoveryInv, [Next]_vars
  PROVE  RecoveryInv'
<1>1. CASE UNCHANGED recovery
  BY SMTT(30), <1>1, JobMoves DEF JobMove, RecoveryInv, TypeOK, Ended, HandleStalled, NotLooked
<1>2. ASSUME NEW j \in Jobs, HandleStalled(j) PROVE RecoveryInv'
  BY <1>2, JobMoves DEF JobMove, RecoveryInv, TypeOK, Ended, HandleStalled, NotLooked
<1>3. CASE \/ SelectStalled \/ RecoveryDies
           \/ \E j \in Jobs : LookForTwin(j) \/ SelectSilent(j)
  BY <1>3 DEF RecoveryInv, SelectStalled, RecoveryDies, LookForTwin, SelectSilent, Orphans, Held,
     NotLooked, TypeOK
<1>. QED
  BY <1>1, <1>2, <1>3 DEF Next, vars, Push, DeleteProject, Ask, EnqueueRefresh, Mark, Defer,
     PublisherDies, Fetch, RunnerStep, Start, Infer, Store, StoreFails, Announce, Caught, Tell,
     Finish, Crash, LoseDatabase, AnnounceFails, RecoveryStep, Rest

\* The variables of the jobs keep their types.
THEOREM TypeCorrect == Spec => [](TypeOK /\ RecoveryInv)
<1>1. Init => TypeOK /\ RecoveryInv
  BY TypeInit DEF Init, RecoveryInv
<1>2. ASSUME TypeOK /\ RecoveryInv, [Next]_vars PROVE (TypeOK /\ RecoveryInv)'
  BY <1>2, TypeStep, RecoveryInvStep
<1>. QED
  BY <1>1, <1>2, PTL DEF Spec
-----------------------------------------------------------------------------
(***************************************************************************)
(* The projects a refresh cut.                                             *)
(***************************************************************************)

\* Steps in which no actor of the job's announces, and nothing is shown as
\* analyzed or cut.
LEMMA CutFrame ==
  ASSUME TypeOK, CutInv, faults'["announce"] = 0 => faults["announce"] = 0,
         \A w \in Runners : /\ publishing'[w] = publishing[w]
                            /\ pc[w] = "announce" => pc'[w] = "announce" \/ publishing[w] = {},
         cut' \subseteq cut, \A p \in cut' : status'[p] = "ok" => status[p] = "ok"
  PROVE  CutInv'
BY DEF CutInv

LEMMA CutMark ==
  ASSUME TypeOK, CutInv, NEW a \in Actors, Mark(a)
  PROVE  CutInv'
<1>1. PICK p \in publishing[a] :
        /\ Show(p, "pending") /\ publishing' = [publishing EXCEPT ![a] = @ \ {p}]
        /\ UNCHANGED <<cut, faults, worker>>
  BY DEF Mark
<1>2. p \in Projects
  BY <1>1 DEF TypeOK
<1>3. \A q \in Projects \ {p} : status'[q] = status[q]
  BY <1>1, <1>2, ShowType DEF DepsStatus
<1>4. status'[p] # "ok"
  BY <1>1, <1>2, ShowType DEF DepsStatus
<1>5. \A b \in Actors : /\ publishing'[b] \subseteq publishing[b]
                        /\ publishing[b] \subseteq publishing'[b] \cup {p}
  BY <1>1 DEF TypeOK
<1>. QED
  BY <1>1, <1>3, <1>4, <1>5 DEF CutInv, TypeOK, Actors

LEMMA CutStore ==
  ASSUME TypeOK, CutInv, NEW w \in Runners, Store(w)
  PROVE  CutInv'
<1>. DEFINE p == ProjectAt(w)
<1>1. p \in Projects
  BY Executing DEF Store
<1>2. /\ pc[w] = "store" /\ pc' = [pc EXCEPT ![w] = "announce"]
      /\ Show(p, "ok") /\ UNCHANGED faults
  BY DEF Store
<1>3. PICK affected \in SUBSET {q \in Projects \ {p} : status[q] # "gone"} :
        /\ cut' = (cut \ {p}) \cup affected
        /\ publishing' = [publishing EXCEPT ![w] = affected]
  BY DEF Store
<1>4. \A q \in Projects \ {p} : status'[q] = status[q]
  BY <1>1, <1>2, ShowType DEF DepsStatus
<1>5. publishing[w] = {} /\ publishing'[w] = affected
      /\ \A v \in Runners \ {w} : publishing'[v] = publishing[v] /\ pc'[v] = pc[v]
  BY <1>2, <1>3 DEF CutInv, TypeOK, Actors
<1>6. \A v \in Runners : pc'[v] # "announce" => publishing'[v] = {}
  BY <1>2, <1>5 DEF CutInv, TypeOK
<1>7. ASSUME faults'["announce"] = 0, NEW q \in cut', status'[q] = "ok"
      PROVE  \E v \in Runners : q \in publishing'[v]
  BY <1>2, <1>3, <1>4, <1>5, <1>7 DEF CutInv, TypeOK
<1>. QED
  BY <1>6, <1>7 DEF CutInv

LEMMA CutStep ==
  ASSUME TypeOK, RecoveryInv, CutInv, [Next]_vars
  PROVE  CutInv'
<1>1. ASSUME NEW f \in Faults \ {"announce"}, Fault(f)
      PROVE  faults'["announce"] = faults["announce"]
  BY <1>1, FaultType DEF Faults
<1>2. CASE UNCHANGED <<pc, publishing, status, cut, faults>>
  BY <1>2 DEF CutInv
<1>3. ASSUME NEW p \in Projects, DeleteProject(p) PROVE CutInv'
  BY <1>3, CutFrame DEF DeleteProject, TypeOK
<1>4. ASSUME NEW a \in Publishers, Ask(a) \/ PublisherDies(a) PROVE CutInv'
  <2>1. \A w \in Runners : publishing'[w] = publishing[w] /\ pc'[w] = pc[w]
    BY <1>4, RefreshAssumption DEF Ask, PublisherDies, TypeOK, Actors
  <2>2. faults'["announce"] = faults["announce"]
    BY <1>1, <1>4 DEF Ask, PublisherDies, Faults
  <2>. QED
    BY <1>4, <2>1, <2>2, CutFrame DEF Ask, PublisherDies
<1>5. ASSUME NEW a \in Actors, EnqueueRefresh(a) PROVE CutInv'
  BY <1>2, <1>5, CutMark DEF EnqueueRefresh, Defer
<1>6. ASSUME NEW w \in Runners, NEW j \in Jobs, Fetch(w, j) PROVE CutInv'
  BY <1>6, CutFrame DEF Fetch, TypeOK
<1>7. ASSUME NEW w \in Runners, RunnerStep(w) PROVE CutInv'
  <2>1. CASE Start(w) \/ Caught(w)
    <3>1. ProjectAt(w) \in Projects
      BY <2>1, Executing DEF Start, Caught
    <3>2. \A q \in Projects : status'[q] = "ok" => status[q] = "ok"
      BY <2>1, <3>1, ShowType DEF Start, Caught, DepsStatus
    <3>. QED
      BY <2>1, <3>2, CutFrame DEF Start, Caught, TypeOK
  <2>2. CASE Infer(w) \/ StoreFails(w) \/ Tell(w)
    BY <2>2, CutFrame DEF Infer, StoreFails, Tell, TypeOK
  <2>3. CASE Store(w)
    BY <2>3, CutStore
  <2>4. CASE Announce(w)
    <3>1. CASE EnqueueRefresh(w)
      BY <1>5, <3>1 DEF Actors
    <3>2. CASE /\ publishing[w] = {} /\ pc' = [pc EXCEPT ![w] = "finish"]
               /\ UNCHANGED <<asking, maps, faults>>
      BY <3>2, CutFrame DEF TypeOK
    <3>. QED
      BY <2>4, <3>1, <3>2 DEF Announce
  <2>5. CASE Finish(w)
    BY <2>5, CutFrame, ForgetType DEF Finish, TypeOK
  <2>. QED
    BY <1>7, <2>1, <2>2, <2>3, <2>4, <2>5 DEF RunnerStep
<1>8. ASSUME NEW w \in Runners, Crash(w) PROVE CutInv'
  <2>1. /\ \A v \in Runners \ {w} : publishing'[v] = publishing[v] /\ pc'[v] = pc[v]
        /\ publishing'[w] = {} /\ UNCHANGED maps
    BY <1>8, ForgetType DEF Crash, TypeOK, Actors
  <2>2. CASE pc[w] = "announce"
    <3>1. faults'["announce"] # 0
      BY <1>8, <2>2, FaultType DEF Crash, Faults, TypeOK
    <3>. QED
      BY <2>1, <3>1 DEF CutInv
  <2>3. CASE pc[w] # "announce"
    <3>1. faults'["announce"] = faults["announce"] /\ publishing[w] = {}
      BY <1>1, <1>8, <2>3 DEF Crash, Faults, CutInv
    <3>. QED
      BY <2>1, <2>3, <3>1 DEF CutInv
  <2>. QED
    BY <2>2, <2>3
<1>9. ASSUME NEW w \in Runners, LoseDatabase(w) PROVE CutInv'
  <2>1. faults'["announce"] = faults["announce"]
    BY <1>1, <1>9 DEF LoseDatabase, Faults
  <2>. QED
    BY <1>9, <2>1, CutFrame, ForgetType DEF LoseDatabase
<1>10. ASSUME NEW w \in Runners, AnnounceFails(w) PROVE CutInv'
  <2>1. faults'["announce"] # 0
    BY <1>10, FaultType DEF AnnounceFails, Faults, TypeOK
  <2>2. \A v \in Runners : pc'[v] # "announce" => publishing'[v] = {}
    BY <1>10 DEF AnnounceFails, CutInv, TypeOK, Actors
  <2>. QED
    BY <2>1, <2>2 DEF CutInv
<1>11. CASE RecoveryDies \/ \E j \in Jobs : SelectSilent(j)
  <2>1. faults'["announce"] = faults["announce"]
    BY <1>1, <1>11 DEF RecoveryDies, SelectSilent, Faults
  <2>. QED
    BY <1>11, <2>1, CutFrame DEF RecoveryDies, SelectSilent
<1>12. CASE \/ \E p \in Projects : Push(p)
            \/ RecoveryStep \/ Rest \/ UNCHANGED vars
  BY <1>2, <1>12 DEF Push, RecoveryStep, SelectStalled, LookForTwin, HandleStalled, Rest, vars
<1>. QED
  BY <1>3, <1>4, <1>5, <1>6, <1>7, <1>8, <1>9, <1>10, <1>11, <1>12 DEF Next, Actors

\* Projects that lost edges to a removed component are mapped again: a runner
\* that cut them still has them to queue, until it shows them as queued.
THEOREM CutEdgesAreMappedAgainHolds == Spec => []CutEdgesAreMappedAgain
<1>1. Init => CutInv
  BY DEF Init, CutInv, Actors
<1>2. ASSUME TypeOK /\ RecoveryInv, CutInv, [Next]_vars PROVE CutInv'
  BY <1>2, CutStep
<1>3. ASSUME TypeOK /\ RecoveryInv, CutInv PROVE CutEdgesAreMappedAgain
  BY <1>3 DEF CutInv, CutEdgesAreMappedAgain, Quiet, TypeOK, Actors, Faults
<1>. QED
  BY <1>1, <1>2, <1>3, TypeCorrect, PTL DEF Spec
-----------------------------------------------------------------------------
(***************************************************************************)
(* Who executes a job.                                                     *)
(***************************************************************************)

\* The steps of a runner between taking its job and ending it.
Working(w) ==
  \/ Start(w) \/ Infer(w) \/ Store(w) \/ StoreFails(w) \/ Caught(w) \/ Tell(w) \/ AnnounceFails(w)
  \/ /\ pc[w] = "announce" /\ publishing[w] = {} /\ marked[w] = Nobody
     /\ pc' = [pc EXCEPT ![w] = "finish"]
     /\ UNCHANGED <<head, asking, queue, maps, told, at, attempt, snapshot, ending,
                    recovery, faults>>

\* The steps of the platform, of who asks and of the recovery that leave the
\* queue and the runners alone.
Aside ==
  \/ \E p \in Projects : Push(p) \/ DeleteProject(p)
  \/ \E a \in Publishers : Ask(a) \/ PublisherDies(a)
  \/ \E a \in Actors : Mark(a)
  \/ SelectStalled \/ RecoveryDies \/ \E j \in Jobs : LookForTwin(j) \/ SelectSilent(j)
  \/ UNCHANGED vars

Kinds ==
  \/ Aside
  \/ \E a \in Actors : Defer(a)
  \/ \E w \in Runners : \/ \E j \in Jobs : Fetch(w, j)
                        \/ Working(w) \/ Finish(w) \/ LoseDatabase(w) \/ Crash(w)
  \/ \E j \in Jobs : HandleStalled(j)

LEMMA StepKinds ==
  ASSUME [Next]_vars
  PROVE  Kinds
<1>1. ASSUME NEW w \in Runners, Announce(w)
      PROVE  Working(w) \/ Mark(w) \/ Defer(w)
  BY <1>1 DEF Announce, Working, EnqueueRefresh
<1>2. ASSUME NEW w \in Runners, RunnerStep(w)
      PROVE  Working(w) \/ Finish(w) \/ Mark(w) \/ Defer(w)
  BY <1>1, <1>2 DEF RunnerStep, Working
<1>3. ASSUME NEW w \in Runners, AnnounceFails(w) PROVE Working(w)
  BY <1>3 DEF Working
<1>4. Publishers \subseteq Actors /\ Runners \subseteq Actors
  BY DEF Actors
<1>5. ASSUME NEW w \in Runners, RunnerStep(w) \/ Crash(w) \/ LoseDatabase(w) \/ AnnounceFails(w)
      PROVE  Kinds
  BY <1>2, <1>3, <1>4, <1>5 DEF Aside, Kinds
<1>6. CASE Rest \/ UNCHANGED vars
  BY <1>6 DEF Rest, Aside, Kinds
<1>7. CASE RecoveryStep \/ RecoveryDies \/ \E j \in Jobs : SelectSilent(j)
  BY <1>7 DEF RecoveryStep, Aside, Kinds
<1>8. CASE \/ \E p \in Projects : Push(p) \/ DeleteProject(p)
           \/ \E a \in Publishers : Ask(a) \/ EnqueueRefresh(a) \/ PublisherDies(a)
  BY <1>4, <1>8 DEF EnqueueRefresh, Aside, Kinds
<1>. QED
  BY <1>4, <1>5, <1>6, <1>7, <1>8 DEF Next, Kinds

LEMMA AsideKeepsQueue ==
  ASSUME TypeOK, Aside
  PROVE  UNCHANGED <<queue, worker>>
BY DEF Aside, Push, DeleteProject, Ask, PublisherDies, Mark, SelectStalled, RecoveryDies,
   LookForTwin, SelectSilent, vars

LEMMA WorkingKeepsQueue ==
  ASSUME TypeOK, NEW w \in Runners, Working(w)
  PROVE  /\ UNCHANGED <<queue, at, recovery>> /\ pc[w] # "idle" /\ pc'[w] # "idle"
         /\ \A v \in Runners \ {w} : pc'[v] = pc[v]
BY DEF Working, Start, Infer, Store, StoreFails, Caught, Tell, AnnounceFails, TypeOK

\* A job queued just now is none that was in the queue before.
LEMMA DeferKeepsJobs ==
  ASSUME TypeOK, NEW a \in Actors, Defer(a)
  PROVE  /\ UNCHANGED <<owner, worker, recovery, faults>>
         /\ \A j \in Jobs : job[j].status # "none" => job'[j] = job[j]
         /\ \A j \in Jobs : job'[j].status = job[j].status \/ job'[j].status = "todo"
         /\ marked[a] \in Projects /\ \E j \in Jobs : job'[j].project = marked[a] /\ job'[j].status = "todo"
<1>1. marked[a] \in Projects /\ QueueJob(marked[a]) /\ UNCHANGED <<owner, worker, recovery, faults>>
  BY DEF Defer, TypeOK
<1>2. CASE Waiting(marked[a]) /\ UNCHANGED job
  BY <1>1, <1>2 DEF Waiting, JobsOf
<1>3. ASSUME NEW k \in Jobs, job[k].status = "none",
             job' = [job EXCEPT ![k] = [project |-> marked[a], status |-> "todo"]]
      PROVE  /\ \A j \in Jobs : job[j].status # "none" => job'[j] = job[j]
             /\ \A j \in Jobs : job'[j].status = job[j].status \/ job'[j].status = "todo"
             /\ job'[k].project = marked[a] /\ job'[k].status = "todo"
  BY <1>1, <1>3 DEF TypeOK
<1>. QED
  BY <1>1, <1>2, <1>3 DEF QueueJob

LEMMA OwnersStep ==
  ASSUME TypeOK, RecoveryInv, OwnersExecute, [Next]_vars
  PROVE  OwnersExecute'
<1>1. ASSUME UNCHANGED <<queue, at>>, \A w \in Runners : pc'[w] = "idle" => pc[w] = "idle"
      PROVE  OwnersExecute'
  BY <1>1 DEF OwnersExecute, TypeOK
<1>2. CASE Aside
  BY <1>1, <1>2, AsideKeepsQueue
<1>3. ASSUME NEW w \in Runners, Working(w) PROVE OwnersExecute'
  BY <1>1, <1>3, WorkingKeepsQueue
<1>4. ASSUME NEW a \in Actors, Defer(a) PROVE OwnersExecute'
  BY <1>4, DeferKeepsJobs DEF OwnersExecute
<1>5. ASSUME NEW w \in Runners, NEW j \in Jobs, Fetch(w, j) PROVE OwnersExecute'
  BY <1>5 DEF Fetch, OwnersExecute, TypeOK
<1>6. ASSUME NEW w \in Runners, Finish(w) \/ LoseDatabase(w) PROVE OwnersExecute'
  <2>1. PICK how \in Ended : EndJob(at[w], how)
    BY <1>6 DEF Finish, LoseDatabase, TypeOK, Ended
  <2>2. Forget(w) /\ at[w] \in Jobs
    BY <1>6, Executing DEF Finish, LoseDatabase
  <2>. QED
    BY <2>1, <2>2, EndJobType, ForgetType DEF OwnersExecute, TypeOK
<1>7. ASSUME NEW w \in Runners, Crash(w) PROVE OwnersExecute'
  BY <1>7, ForgetType DEF Crash, OwnersExecute, TypeOK
<1>8. ASSUME NEW j \in Jobs, HandleStalled(j) PROVE OwnersExecute'
  <2>1. UNCHANGED worker /\ (owner' = owner \/ owner' = [owner EXCEPT ![j] = Nobody])
    BY <1>8 DEF HandleStalled, EndJob
  <2>2. \A k \in Jobs : job'[k].status = "doing" => job[k].status = "doing"
    BY SMTT(30), <1>8, JobMoves DEF JobMove, HandleStalled, RecoveryInv, NotLooked, Ended, EndJob, TypeOK
  <2>. QED
    BY SMTT(30), <2>1, <2>2 DEF OwnersExecute, TypeOK
<1>. QED
  BY <1>2, <1>3, <1>4, <1>5, <1>6, <1>7, <1>8, StepKinds DEF Kinds
-----------------------------------------------------------------------------
(***************************************************************************)
(* No push is lost.                                                        *)
(***************************************************************************)

LEMMA CommitsStep ==
  ASSUME TypeOK, TypeOK', RecoveryInv, CommitsInOrder, [Next]_vars
  PROVE  CommitsInOrder'
<1>1. ASSUME UNCHANGED <<head, heard, stored>>,
             \A w \in Runners : pc'[w] = "store" => /\ pc[w] = "store" /\ at'[w] = at[w]
                                                    /\ snapshot'[w] = snapshot[w]
      PROVE  CommitsInOrder'
  <2>1. \A w \in Runners : pc'[w] = "store" => ProjectAt(w)' = ProjectAt(w)
    BY <1>1, JobMoves, Executing DEF JobMove, ProjectAt
  <2>. QED
    BY <1>1, <2>1 DEF CommitsInOrder
<1>2. ASSUME NEW p \in Projects, Push(p) PROVE CommitsInOrder'
  <2>1. \A q \in Projects : head[q] \in Nat /\ head[q] <= head'[q] /\ head'[q] \in Nat
                            /\ heard[q] \in Nat /\ stored[q] \in Nat
    BY <1>2, RefreshAssumption DEF Push, TypeOK
  <2>2. \A w \in Runners : pc[w] = "store" => snapshot[w] \in Nat /\ ProjectAt(w) \in Projects
    BY Executing, RefreshAssumption DEF TypeOK
  <2>3. UNCHANGED <<heard, stored, pc, snapshot>> /\ \A w \in Runners : ProjectAt(w)' = ProjectAt(w)
    BY <1>2 DEF Push, ProjectAt
  <2>. QED
    BY <2>1, <2>2, <2>3 DEF CommitsInOrder
<1>3. ASSUME NEW a \in Publishers, Ask(a) PROVE CommitsInOrder'
  <2>1. \A q \in Projects : heard'[q] \in {head[q], heard[q]} /\ head[q] \in Nat
    BY <1>3, RefreshAssumption DEF Ask, TypeOK
  <2>2. UNCHANGED <<head, stored, pc, snapshot>> /\ \A w \in Runners : ProjectAt(w)' = ProjectAt(w)
    BY <1>3 DEF Ask, ProjectAt
  <2>. QED
    BY <2>1, <2>2 DEF CommitsInOrder
<1>4. ASSUME NEW w \in Runners, Infer(w) PROVE CommitsInOrder'
  <2>1. /\ snapshot' = [snapshot EXCEPT ![w] = head[ProjectAt(w)]]
        /\ \A v \in Runners \ {w} : pc'[v] = pc[v]
        /\ UNCHANGED <<head, heard, stored, at, job>>
    BY <1>4 DEF Infer, TypeOK
  <2>2. head[ProjectAt(w)] \in Nat
    BY <1>4, Executing, RefreshAssumption DEF Infer, TypeOK
  <2>. QED
    BY <2>1, <2>2 DEF CommitsInOrder, ProjectAt, TypeOK
<1>5. ASSUME NEW w \in Runners, Store(w) PROVE CommitsInOrder'
  <2>1. /\ pc[w] = "store" /\ pc' = [pc EXCEPT ![w] = "announce"]
        /\ stored' = [stored EXCEPT ![ProjectAt(w)] = snapshot[w]]
        /\ UNCHANGED <<head, heard, at, job, snapshot>>
    BY <1>5 DEF Store
  <2>. QED
    BY <2>1, Executing DEF CommitsInOrder, ProjectAt, TypeOK
<1>6. CASE Aside
  <2>1. CASE \/ \E p \in Projects : Push(p)
             \/ \E a \in Publishers : Ask(a)
    BY <1>2, <1>3, <2>1
  <2>2. CASE UNCHANGED <<head, heard, stored>>
    BY <1>1, <1>6, <2>2, AsideKeepsQueue
  <2>. QED
    BY <1>6, <2>1, <2>2 DEF Aside, DeleteProject, PublisherDies, Mark, SelectStalled,
       RecoveryDies, LookForTwin, SelectSilent, vars
<1>7. ASSUME NEW w \in Runners, Working(w), ~Infer(w), ~Store(w) PROVE CommitsInOrder'
  BY <1>1, <1>7 DEF Working, Start, StoreFails, Caught, Tell, AnnounceFails, TypeOK
<1>8. ASSUME NEW a \in Actors, Defer(a) PROVE CommitsInOrder'
  BY <1>1, <1>8 DEF Defer
<1>9. ASSUME NEW w \in Runners, NEW j \in Jobs, Fetch(w, j) PROVE CommitsInOrder'
  BY <1>1, <1>9 DEF Fetch, TypeOK
<1>10. ASSUME NEW w \in Runners, Finish(w) \/ LoseDatabase(w) \/ Crash(w) PROVE CommitsInOrder'
  BY <1>1, <1>10, ForgetType DEF Finish, LoseDatabase, Crash
<1>11. ASSUME NEW j \in Jobs, HandleStalled(j) PROVE CommitsInOrder'
  BY <1>1, <1>11 DEF HandleStalled
<1>. QED
  BY <1>4, <1>5, <1>6, <1>7, <1>8, <1>9, <1>10, <1>11, StepKinds DEF Kinds

\* A step of a behaviour without the faults that void the promise.
LEMMA CalmStep ==
  ASSUME TypeOK, [Next]_vars, Calm'
  PROVE  /\ Calm
         /\ \A j \in Jobs : ~SelectSilent(j)
         /\ \A a \in Publishers : ~PublisherDies(a)
         /\ \A w \in Runners : ~LoseDatabase(w)
<1>1. ASSUME NEW f \in Faults, Fault(f), f \in {"silence", "publisher", "database"}
      PROVE  FALSE
  BY <1>1, FaultType DEF Calm, TypeOK, Faults
<1>2. ASSUME NEW f \in Faults, Fault(f), f \notin {"silence", "publisher", "database"}
      PROVE  Calm
  BY <1>2, FaultType DEF Calm, TypeOK, Faults
<1>3. /\ \A j \in Jobs : ~SelectSilent(j)
      /\ \A a \in Publishers : ~PublisherDies(a)
      /\ \A w \in Runners : ~LoseDatabase(w)
  BY <1>1 DEF SelectSilent, PublisherDies, LoseDatabase, Faults
<1>4. CASE UNCHANGED faults
  BY <1>3, <1>4 DEF Calm
<1>5. CASE (\E w \in Runners : Crash(w) \/ AnnounceFails(w)) \/ RecoveryDies
  BY <1>2, <1>3, <1>5 DEF Crash, AnnounceFails, RecoveryDies, Faults
<1>. QED
  BY <1>3, <1>4, <1>5 DEF Next, RecoveryStep, Rest, vars, Push, DeleteProject, Ask, EnqueueRefresh,
     Mark, Defer, Fetch, RunnerStep, Start, Infer, Store, StoreFails, Announce, Caught, Tell, Finish,
     SelectStalled, LookForTwin, HandleStalled

LEMMA TrustedStep ==
  ASSUME TypeOK, [Next]_vars, Trusted'
  PROVE  Trusted /\ \A j \in Jobs : ~SelectSilent(j)
<1>1. ~Fault("silence")
  BY FaultType DEF Trusted, TypeOK, Faults
<1>2. \A j \in Jobs : ~SelectSilent(j)
  BY <1>1 DEF SelectSilent
<1>3. ASSUME NEW f \in Faults, Fault(f) PROVE Trusted
  BY <1>1, <1>3, FaultType DEF Trusted, TypeOK, Faults
<1>4. CASE UNCHANGED faults
  BY <1>2, <1>4 DEF Trusted
<1>5. CASE \/ \E w \in Runners : Crash(w) \/ AnnounceFails(w) \/ LoseDatabase(w)
           \/ \E a \in Publishers : PublisherDies(a)
           \/ RecoveryDies
  BY <1>2, <1>3, <1>5 DEF Crash, AnnounceFails, LoseDatabase, PublisherDies, RecoveryDies, Faults
<1>. QED
  BY <1>2, <1>4, <1>5 DEF Next, RecoveryStep, Rest, vars, Push, DeleteProject, Ask, EnqueueRefresh,
     Mark, Defer, Fetch, RunnerStep, Start, Infer, Store, StoreFails, Announce, Caught, Tell, Finish,
     SelectStalled, LookForTwin, HandleStalled

\* The job the recovery looked at is an orphan.
LEMMA LookedIsOrphan ==
  ASSUME TypeOK, RecoveryInv, Exclusive, NEW j \in Jobs, HandleStalled(j)
  PROVE  /\ job[j].status = "doing" /\ owner[j] = Nobody /\ j \in stalled
         /\ looked.job = j /\ looked # NotLooked
         /\ \A w \in Runners : pc[w] # "idle" => at[w] # j
         /\ \/ job' = [job EXCEPT ![j].status = "failed"] /\ Waiting(job[j].project)
            \/ job' = [job EXCEPT ![j].status = "todo"]
            \/ UNCHANGED job
         /\ owner' = owner \/ owner' = [owner EXCEPT ![j] = Nobody]
<1>1. looked.job = j /\ looked # NotLooked /\ j \in stalled
  BY RefreshAssumption DEF HandleStalled, NotLooked, RecoveryInv
<1>2. job[j].status = "doing" /\ owner[j] = Nobody
  BY <1>1 DEF Exclusive
<1>3. \A w \in Runners : pc[w] # "idle" => at[w] # j
  BY <1>2, RefreshAssumption DEF Exclusive
<1>4. looked.twin => Waiting(job[j].project)
  BY <1>1 DEF Exclusive
<1>. QED
  BY <1>1, <1>2, <1>3, <1>4 DEF HandleStalled, EndJob, Ended

LEMMA ExclusiveStep ==
  ASSUME TypeOK, TypeOK', RecoveryInv, OwnersExecute, Exclusive, [Next]_vars, Trusted'
  PROVE  Exclusive'
<1>0. \A w \in Runners : pc[w] # "idle" => at[w] \in Jobs
  BY Executing
<1>1. ASSUME UNCHANGED <<queue, at, recovery>>,
             \A w \in Runners : pc'[w] # "idle" => pc[w] # "idle"
      PROVE  Exclusive'
  BY <1>1 DEF Exclusive, Waiting, JobsOf
<1>2. CASE Aside
  <2>1. CASE SelectStalled
    BY <2>1 DEF SelectStalled, Orphans, Exclusive, RecoveryInv
  <2>2. ASSUME NEW j \in Jobs, LookForTwin(j) PROVE Exclusive'
    BY <2>2 DEF LookForTwin, Exclusive, Waiting, JobsOf
  <2>3. CASE RecoveryDies
    BY <2>3 DEF RecoveryDies, Exclusive
  <2>4. CASE UNCHANGED recovery
    BY <1>1, <1>2, <2>4, AsideKeepsQueue
  <2>. QED
    BY <1>2, <2>1, <2>2, <2>3, <2>4, TrustedStep DEF Aside, Push, DeleteProject, Ask, PublisherDies,
       Mark, vars
<1>3. ASSUME NEW w \in Runners, Working(w) PROVE Exclusive'
  BY <1>1, <1>3, WorkingKeepsQueue
<1>4. ASSUME NEW a \in Actors, Defer(a) PROVE Exclusive'
  <2>1. /\ \A j \in Jobs : job'[j].status = "doing" => job[j].status = "doing"
        /\ \A j \in Jobs : job[j].status # "none" => job'[j] = job[j]
        /\ UNCHANGED <<owner, worker, recovery>>
    BY <1>4, DeferKeepsJobs
  <2>3. (looked # NotLooked /\ looked.twin => Waiting(job[looked.job].project))'
    <3>. SUFFICES ASSUME looked # NotLooked, looked.twin
                  PROVE  Waiting(job[looked.job].project)'
      BY <2>1
    <3>1. looked.job \in Jobs /\ job[looked.job].status = "doing"
      BY DEF RecoveryInv, Exclusive, TypeOK
    <3>2. job'[looked.job].project = job[looked.job].project /\ job[looked.job].project \in Projects
      BY <2>1, <3>1 DEF TypeOK
    <3>3. Waiting(job[looked.job].project) /\ looked' = looked
      BY <2>1 DEF Exclusive
    <3>4. PICK k \in Jobs : job[k].project = job[looked.job].project /\ job[k].status = "todo"
      BY <3>3 DEF Waiting, JobsOf
    <3>5. job'[k] = job[k]
      BY <2>1, <3>4
    <3>. QED
      BY <3>2, <3>3, <3>4, <3>5 DEF Waiting, JobsOf
  <2>4. \A w \in Runners : pc'[w] # "idle" => job'[at'[w]].status = "doing" /\ owner'[at'[w]] = w
    BY <1>0, <2>1 DEF Exclusive
  <2>5. \A i, k \in Jobs : job'[i].status = "doing" /\ job'[k].status = "doing"
          /\ job'[i].project = job'[k].project => i = k
    BY <2>1 DEF Exclusive
  <2>6. \A k \in stalled' : job'[k].status = "doing" /\ owner'[k] = Nobody
    <3>. SUFFICES ASSUME NEW k \in stalled PROVE job'[k].status = "doing" /\ owner'[k] = Nobody
      BY <2>1
    <3>1. k \in Jobs /\ job[k].status = "doing" /\ owner[k] = Nobody
      BY DEF Exclusive, TypeOK
    <3>. QED
      BY <2>1, <3>1
  <2>. QED
    BY <2>3, <2>4, <2>5, <2>6 DEF Exclusive
<1>5. ASSUME NEW w \in Runners, NEW j \in Jobs, Fetch(w, j) PROVE Exclusive'
  <2>1. /\ pc[w] = "idle" /\ job[j].status = "todo" /\ JobsOf(job[j].project, {"doing"}) = {}
        /\ job' = [job EXCEPT ![j].status = "doing"] /\ owner' = [owner EXCEPT ![j] = w]
        /\ pc' = [pc EXCEPT ![w] = "start"] /\ at' = [at EXCEPT ![w] = j]
        /\ UNCHANGED recovery
    BY <1>5 DEF Fetch
  <2>2. \A k \in Jobs \ {j} : job'[k] = job[k] /\ owner'[k] = owner[k]
    BY <2>1 DEF TypeOK
  <2>3. job'[j].project = job[j].project /\ job'[j].status = "doing" /\ owner'[j] = w
    BY <2>1 DEF TypeOK
  <2>4. \A v \in Runners : pc'[v] # "idle" => job'[at'[v]].status = "doing" /\ owner'[at'[v]] = v
    BY <1>0, <2>1, <2>2, <2>3 DEF Exclusive, TypeOK
  <2>5. \A i, k \in Jobs : job'[i].status = "doing" /\ job'[k].status = "doing"
          /\ job'[i].project = job'[k].project => i = k
    BY <2>1, <2>2, <2>3 DEF Exclusive, JobsOf
  <2>6. \A k \in stalled' : job'[k].status = "doing" /\ owner'[k] = Nobody
    BY <2>1, <2>2 DEF Exclusive, TypeOK
  <2>7. (looked # NotLooked /\ looked.twin => Waiting(job[looked.job].project))'
    <3>. SUFFICES ASSUME looked # NotLooked, looked.twin
                  PROVE  Waiting(job[looked.job].project)'
      BY <2>1
    <3>1. looked.job \in Jobs /\ job[looked.job].status = "doing"
      BY DEF RecoveryInv, Exclusive, TypeOK
    <3>2. PICK k \in Jobs : job[k].project = job[looked.job].project /\ job[k].status = "todo"
      BY DEF Exclusive, Waiting, JobsOf
    <3>3. k # j /\ looked.job # j
      BY <2>1, <3>1, <3>2 DEF JobsOf
    <3>. QED
      BY <2>1, <2>2, <3>1, <3>2, <3>3 DEF Waiting, JobsOf
  <2>. QED
    BY <2>4, <2>5, <2>6, <2>7 DEF Exclusive
<1>6. ASSUME NEW w \in Runners, Finish(w) \/ LoseDatabase(w) PROVE Exclusive'
  <2>1. /\ pc[w] # "idle" /\ at[w] \in Jobs /\ Forget(w) /\ UNCHANGED recovery
        /\ \E how \in Ended : EndJob(at[w], how)
    BY SMTT(30), <1>0, <1>6 DEF Finish, LoseDatabase, TypeOK, Ended
  <2>2. job[at[w]].status = "doing" /\ owner[at[w]] = w
    BY <2>1 DEF Exclusive
  <2>3. /\ \A k \in Jobs \ {at[w]} : job'[k] = job[k] /\ owner'[k] = owner[k]
        /\ job'[at[w]].status \in Ended /\ job'[at[w]].project = job[at[w]].project
    BY <2>1, EndJobType
  <2>4. \A v \in Runners : pc'[v] # "idle" => job'[at'[v]].status = "doing" /\ owner'[at'[v]] = v
    BY <1>0, <2>1, <2>2, <2>3, ForgetType DEF Exclusive
  <2>5. \A i, k \in Jobs : job'[i].status = "doing" /\ job'[k].status = "doing"
          /\ job'[i].project = job'[k].project => i = k
    BY <2>3 DEF Exclusive, Ended
  <2>6. \A k \in stalled' : job'[k].status = "doing" /\ owner'[k] = Nobody
    BY <2>1, <2>2, <2>3, RefreshAssumption DEF Exclusive, TypeOK
  <2>7. (looked # NotLooked /\ looked.twin => Waiting(job[looked.job].project))'
    <3>. SUFFICES ASSUME looked # NotLooked, looked.twin
                  PROVE  Waiting(job[looked.job].project)'
      BY <2>1
    <3>1. looked.job \in Jobs /\ job'[looked.job].project = job[looked.job].project
      BY <2>3 DEF RecoveryInv, TypeOK
    <3>2. PICK k \in Jobs : job[k].project = job[looked.job].project /\ job[k].status = "todo"
      BY DEF Exclusive, Waiting, JobsOf
    <3>3. job'[k] = job[k]
      BY <2>2, <2>3, <3>2
    <3>. QED
      BY <2>1, <3>1, <3>2, <3>3 DEF Waiting, JobsOf
  <2>. QED
    BY <2>4, <2>5, <2>6, <2>7 DEF Exclusive
<1>7. ASSUME NEW w \in Runners, Crash(w) PROVE Exclusive'
  <2>1. /\ Forget(w) /\ UNCHANGED <<job, recovery>>
        /\ owner' = [j \in Jobs |-> IF owner[j] = w THEN Nobody ELSE owner[j]]
    BY <1>7 DEF Crash
  <2>2. \A v \in Runners : pc'[v] # "idle" => job'[at'[v]].status = "doing" /\ owner'[at'[v]] = v
    BY <1>0, <2>1, ForgetType DEF Exclusive
  <2>3. \A k \in stalled' : job'[k].status = "doing" /\ owner'[k] = Nobody
    BY <2>1 DEF Exclusive, TypeOK
  <2>. QED
    BY <2>1, <2>2, <2>3 DEF Exclusive, Waiting, JobsOf
<1>8. ASSUME NEW j \in Jobs, HandleStalled(j) PROVE Exclusive'
  <2>1. /\ looked' = NotLooked /\ stalled' = stalled \ {j} /\ UNCHANGED worker
    BY <1>8 DEF HandleStalled
  <2>5. /\ \/ job' = [job EXCEPT ![j].status = "failed"]
           \/ job' = [job EXCEPT ![j].status = "todo"]
           \/ UNCHANGED job
        /\ owner' = owner \/ owner' = [owner EXCEPT ![j] = Nobody]
    BY <1>8, LookedIsOrphan
  <2>2. \A k \in Jobs \ {j} : job'[k] = job[k] /\ owner'[k] = owner[k]
    BY <2>5 DEF TypeOK
  <2>3. job'[j].status = "doing" => job'[j] = job[j]
    BY <2>5 DEF TypeOK
  <2>4. \A w \in Runners : pc[w] # "idle" => at[w] # j
    BY <1>8, LookedIsOrphan
  <2>6. \A w \in Runners : pc[w] # "idle" =>
          job'[at[w]].status = "doing" /\ owner'[at[w]] = w
    BY <1>0, <2>2, <2>4 DEF Exclusive
  <2>7. \A i, k \in Jobs : job'[i].status = "doing" /\ job'[k].status = "doing"
          /\ job'[i].project = job'[k].project => i = k
    BY <2>2, <2>3 DEF Exclusive
  <2>8. \A k \in stalled' : job'[k].status = "doing" /\ owner'[k] = Nobody
    BY <2>1, <2>2 DEF Exclusive, TypeOK
  <2>. QED
    BY <2>1, <2>6, <2>7, <2>8 DEF Exclusive
<1>. QED
  BY <1>2, <1>3, <1>4, <1>5, <1>6, <1>7, <1>8, StepKinds, TrustedStep DEF Kinds

\* The refreshes of p that other jobs and publishers still make.
LEMMA ReadsKept ==
  ASSUME TypeOK, NEW p \in Projects, NEW k \in Jobs, Reads(k, p),
         job'[k] = job[k], owner'[k] = owner[k], heard'[p] = heard[p],
         owner[k] \in Runners => pc'[owner[k]] = pc[owner[k]] /\ snapshot'[owner[k]] = snapshot[owner[k]]
  PROVE  Reads(k, p)'
BY RefreshAssumption DEF Reads, TypeOK

LEMMA ComingKept ==
  ASSUME TypeOK, NEW p \in Projects, Coming(p),
         \A a \in Publishers : p \in publishing[a] \/ marked[a] = p =>
           p \in publishing'[a] \/ marked'[a] = p,
         \A k \in Jobs : job[k].project = p /\ Reads(k, p) =>
           \E i \in Jobs : job'[i].project = p /\ Reads(i, p)'
  PROVE  Coming(p)'
BY DEF Coming

\* One runner at a time executes a job of a project.
LEMMA OneRunner ==
  ASSUME TypeOK, Exclusive, NEW v \in Runners, NEW w \in Runners, pc[v] # "idle", pc[w] # "idle",
         ProjectAt(v) = ProjectAt(w)
  PROVE  v = w
BY Executing DEF Exclusive, ProjectAt

LEMMA AsideUpToDate ==
  ASSUME TypeOK, NEW p \in Projects, UpToDate(p), Aside, \A a \in Publishers : ~PublisherDies(a)
  PROVE  UpToDate(p)'
<1>1. UNCHANGED <<queue, worker>>
  BY AsideKeepsQueue
<1>2. \A w \in Runners : ProjectAt(w)' = ProjectAt(w)
  BY <1>1 DEF ProjectAt
<1>3. ASSUME UNCHANGED <<stored, heard>>,
             \A a \in Publishers : p \in publishing[a] \/ marked[a] = p =>
               p \in publishing'[a] \/ marked'[a] = p,
             status'[p] = "ok" => status[p] = "ok"
      PROVE  UpToDate(p)'
  <2>1. \A k \in Jobs : Reads(k, p)' <=> Reads(k, p)
    BY <1>1, <1>3 DEF Reads
  <2>2. Coming(p) => Coming(p)'
    BY <1>1, <1>3, <2>1, ComingKept
  <2>3. GaveUp(p) => GaveUp(p)'
    BY <1>1, <1>2, <1>3 DEF GaveUp
  <2>. QED
    BY <1>3, <2>2, <2>3 DEF UpToDate
<1>4. ASSUME NEW a \in Publishers, Ask(a) PROVE UpToDate(p)'
  <2>1. PICK ps \in (SUBSET {q \in Projects : status[q] # "gone"}) \ {{}} :
          /\ publishing' = [publishing EXCEPT ![a] = ps]
          /\ heard' = [q \in Projects |-> IF q \in ps THEN head[q] ELSE heard[q]]
    BY <1>4 DEF Ask
  <2>2. CASE p \in ps
    BY <2>1, <2>2 DEF UpToDate, Coming, TypeOK, Actors
  <2>3. CASE p \notin ps
    <3>1. publishing[a] = {} /\ UNCHANGED <<stored, marked, status>> /\ heard'[p] = heard[p]
      BY <1>4, <2>1, <2>3 DEF Ask
    <3>2. \A b \in Publishers : p \in publishing[b] => p \in publishing'[b]
      BY <2>1, <3>1 DEF TypeOK, Actors
    <3>3. \A k \in Jobs : Reads(k, p)' <=> Reads(k, p)
      BY <1>1, <3>1 DEF Reads
    <3>4. Coming(p) => Coming(p)'
      BY <1>1, <3>1, <3>2, <3>3, ComingKept
    <3>5. GaveUp(p) => GaveUp(p)'
      BY <1>1, <1>2, <3>1 DEF GaveUp
    <3>. QED
      BY <3>1, <3>4, <3>5 DEF UpToDate
  <2>. QED
    BY <2>2, <2>3
<1>5. ASSUME NEW a \in Actors, Mark(a) PROVE UpToDate(p)'
  <2>1. PICK q \in publishing[a] :
          /\ marked[a] = Nobody /\ Show(q, "pending")
          /\ publishing' = [publishing EXCEPT ![a] = @ \ {q}]
          /\ marked' = [marked EXCEPT ![a] = q]
          /\ UNCHANGED <<stored, heard>>
    BY <1>5 DEF Mark
  <2>2. q \in Projects
    BY <2>1 DEF TypeOK
  <2>3. status'[p] = "ok" => status[p] = "ok"
    BY <2>1, <2>2, ShowType DEF DepsStatus
  <2>4. \A b \in Publishers : p \in publishing[b] \/ marked[b] = p =>
          p \in publishing'[b] \/ marked'[b] = p
    BY <2>1, RefreshAssumption DEF TypeOK, Actors
  <2>. QED
    BY <1>3, <2>1, <2>3, <2>4
<1>6. ASSUME NEW q \in Projects, DeleteProject(q) PROVE UpToDate(p)'
  <2>1. status'[p] = "ok" => status[p] = "ok"
    BY <1>6 DEF DeleteProject, TypeOK
  <2>. QED
    BY <1>3, <1>6, <2>1 DEF DeleteProject
<1>7. CASE \/ \E q \in Projects : Push(q)
           \/ SelectStalled \/ RecoveryDies \/ \E j \in Jobs : LookForTwin(j) \/ SelectSilent(j)
           \/ UNCHANGED vars
  BY <1>3, <1>7 DEF Push, SelectStalled, RecoveryDies, LookForTwin, SelectSilent, vars
<1>. QED
  BY <1>4, <1>5, <1>6, <1>7 DEF Aside

\* A runner leaves the jobs of the others alone.
LEMMA OthersRead ==
  ASSUME TypeOK, OwnersExecute, NEW w \in Runners, NEW p \in Projects, NEW k \in Jobs, Reads(k, p),
         k # at[w], UNCHANGED <<job, owner, heard>>,
         \A v \in Runners \ {w} : pc'[v] = pc[v] /\ snapshot'[v] = snapshot[v]
  PROVE  Reads(k, p)'
<1>1. CASE job[k].status = "doing" /\ owner[k] \in Runners
  <2>1. owner[k] # w
    BY <1>1, RefreshAssumption DEF OwnersExecute
  <2>. QED
    BY <1>1, <2>1, ReadsKept
<1>2. CASE job[k].status = "todo" \/ owner[k] \notin Runners
  BY <1>2 DEF Reads
<1>. QED
  BY <1>1, <1>2 DEF Reads

LEMMA WorkingUpToDate ==
  ASSUME TypeOK, TypeOK', OwnersExecute, CommitsInOrder, NoPushIsLost, NEW p \in Projects,
         NEW w \in Runners, Working(w)
  PROVE  UpToDate(p)'
<1>1. /\ UNCHANGED <<queue, at, recovery, heard>> /\ pc[w] # "idle"
      /\ \A v \in Runners \ {w} : pc'[v] = pc[v] /\ snapshot'[v] = snapshot[v]
  BY WorkingKeepsQueue DEF Working, Start, Infer, Store, StoreFails, Caught, Tell, AnnounceFails,
     TypeOK
<1>2. /\ at[w] \in Jobs /\ job[at[w]].status = "doing" /\ owner[at[w]] = w
      /\ ProjectAt(w) \in Projects /\ job[at[w]].project = ProjectAt(w)
  BY <1>1, Executing DEF NoPushIsLost, Locked, Exclusive, ProjectAt
<1>3. \A v \in Runners : ProjectAt(v)' = ProjectAt(v)
  BY <1>1 DEF ProjectAt
<1>4. \A a \in Publishers : publishing'[a] = publishing[a] /\ marked'[a] = marked[a]
  BY RefreshAssumption DEF Working, Start, Infer, Store, StoreFails, Caught, Tell, AnnounceFails,
     TypeOK, Actors
<1>5. \A k \in Jobs \ {at[w]} : Reads(k, p) => Reads(k, p)'
  BY <1>1, OthersRead
<1>6. CASE p = ProjectAt(w)
  <2>1. CASE pc'[w] \in {"start", "infer", "caught"}
    BY <1>1, <1>2, <1>6, <2>1 DEF UpToDate, Coming, Reads
  <2>2. CASE pc'[w] = "store"
    <3>1. snapshot'[w] = head[p] /\ head[p] >= heard[p] /\ heard' = heard
      BY <1>1, <1>2, <1>6, <2>2 DEF Working, Start, Infer, Store, StoreFails, Caught, Tell,
         AnnounceFails, TypeOK, CommitsInOrder
    <3>. QED
      BY <1>1, <1>2, <1>6, <2>2, <3>1 DEF UpToDate, Coming, Reads
  <2>3. ASSUME pc[w] # "store", pc'[w] # "store", status'[p] # "ok"
        PROVE  UpToDate(p)'
    <3>1. \A v \in Runners \ {w} : pc[v] # "idle" => ProjectAt(v) # p
      BY <1>1, <1>6, OneRunner DEF NoPushIsLost, Locked
    <3>2. \A v \in Runners : pc'[v] = "store" => ProjectAt(v)' # p
      BY <1>1, <1>3, <2>3, <3>1
    <3>. QED
      BY <2>3, <3>2 DEF UpToDate, GaveUp
  <2>4. CASE Store(w)
    <3>1. /\ pc[w] = "store" /\ stored' = [stored EXCEPT ![p] = snapshot[w]]
          /\ UNCHANGED heard
      BY <1>6, <2>4 DEF Store
    <3>2. CASE snapshot[w] >= heard[p]
      BY <3>1, <3>2 DEF UpToDate, TypeOK
    <3>3. CASE ~(snapshot[w] >= heard[p])
      <4>1. ~Reads(at[w], p)
        BY <1>2, <3>1, <3>3, RefreshAssumption DEF Reads
      <4>2. stored[p] <= snapshot[w] /\ stored[p] \in Nat /\ heard[p] \in Nat /\ snapshot[w] \in Nat
        BY <1>6, <3>1, RefreshAssumption DEF NoPushIsLost, Locked, TypeOK
      <4>3. ~(stored[p] >= heard[p]) /\ ~GaveUp(p)
        BY <1>6, <3>1, <3>3, <4>2 DEF GaveUp
      <4>4. Coming(p)
        BY <4>3 DEF NoPushIsLost, Locked, UpToDate
      <4>5. \A k \in Jobs : job[k].project = p /\ Reads(k, p) =>
              job'[k].project = p /\ Reads(k, p)'
        BY <1>1, <1>5, <4>1
      <4>. QED
        BY <1>4, <4>4, <4>5, ComingKept DEF UpToDate
    <3>. QED
      BY <3>2, <3>3
  <2>5. ASSUME pc[w] \in {"announce", "tell"}, pc'[w] = "finish", UNCHANGED <<stored, status>>
        PROVE  UpToDate(p)'
    <3>1. ~Reads(at[w], p)
      BY <1>2, <2>5, RefreshAssumption DEF Reads
    <3>2. \A k \in Jobs : job[k].project = p /\ Reads(k, p) =>
            job'[k].project = p /\ Reads(k, p)'
      BY <1>1, <1>5, <3>1
    <3>3. Coming(p) => Coming(p)'
      BY <1>4, <3>2, ComingKept
    <3>4. GaveUp(p) => GaveUp(p)'
      BY <1>1, <1>3, <2>5 DEF GaveUp
    <3>. QED
      BY <1>1, <2>5, <3>3, <3>4 DEF NoPushIsLost, Locked, UpToDate
  <2>6. CASE Start(w)
    <3>1. CASE status[p] = "gone"
      BY <1>6, <2>3, <2>6, <3>1 DEF Start, TypeOK
    <3>2. CASE status[p] # "gone"
      BY <1>6, <2>1, <2>6, <3>2 DEF Start, TypeOK
    <3>. QED
      BY <3>1, <3>2
  <2>7. CASE Caught(w)
    <3>1. CASE attempt[w] = Attempts
      <4>1. pc[w] = "caught" /\ pc'[w] = "tell" /\ Show(p, "failed")
        BY <1>6, <2>7, <3>1 DEF Caught, TypeOK
      <4>2. status'[p] # "ok"
        BY <4>1, ShowType DEF DepsStatus
      <4>. QED
        BY <2>3, <4>1, <4>2
    <3>2. CASE attempt[w] # Attempts
      BY <2>1, <2>7, <3>2 DEF Caught, TypeOK
    <3>. QED
      BY <3>1, <3>2
  <2>8. CASE Infer(w) \/ StoreFails(w) \/ AnnounceFails(w)
    BY <2>1, <2>2, <2>8 DEF Infer, StoreFails, AnnounceFails, TypeOK
  <2>. QED
    BY <2>4, <2>5, <2>6, <2>7, <2>8 DEF Working, Tell, TypeOK
<1>7. CASE p # ProjectAt(w)
  <2>1. stored'[p] = stored[p] /\ status'[p] = status[p]
    BY <1>2, <1>7 DEF Working, Start, Infer, Store, StoreFails, Caught, Tell, AnnounceFails, Show,
       TypeOK
  <2>2. \A k \in Jobs : job[k].project = p /\ Reads(k, p) => job'[k].project = p /\ Reads(k, p)'
    BY <1>1, <1>2, <1>5, <1>7
  <2>3. Coming(p) => Coming(p)'
    BY <1>4, <2>2, ComingKept
  <2>4. GaveUp(p) => GaveUp(p)'
    BY <1>1, <1>3, <1>7, <2>1 DEF GaveUp
  <2>. QED
    BY <1>1, <2>1, <2>3, <2>4 DEF NoPushIsLost, Locked, UpToDate
<1>. QED
  BY <1>6, <1>7

LEMMA QueueUpToDate ==
  ASSUME TypeOK, TypeOK', RecoveryInv, OwnersExecute, NoPushIsLost, NEW p \in Projects
  PROVE  /\ \A a \in Actors : Defer(a) => UpToDate(p)'
         /\ \A w \in Runners, j \in Jobs : Fetch(w, j) => UpToDate(p)'
         /\ \A w \in Runners : Finish(w) \/ Crash(w) => UpToDate(p)'
         /\ \A j \in Jobs : HandleStalled(j) => UpToDate(p)'
<1>. USE DEF NoPushIsLost, Locked
<1>1. ASSUME UNCHANGED <<stored, heard, status>>,
             \A w \in Runners : pc'[w] = "store" => pc[w] = "store" /\ ProjectAt(w)' = ProjectAt(w),
             Coming(p) => Coming(p)'
      PROVE  UpToDate(p)'
  BY <1>1 DEF UpToDate, GaveUp
<1>2. ASSUME NEW a \in Actors, Defer(a) PROVE UpToDate(p)'
  <2>1. /\ UNCHANGED <<owner, worker, heard, stored, status, publishing>>
        /\ \A j \in Jobs : job[j].status # "none" => job'[j] = job[j]
        /\ \E j \in Jobs : job'[j].project = marked[a] /\ job'[j].status = "todo"
        /\ marked' = [marked EXCEPT ![a] = Nobody]
    BY <1>2, DeferKeepsJobs DEF Defer
  <2>2. \A k \in Jobs : Reads(k, p) => job'[k] = job[k] /\ Reads(k, p)'
    BY <2>1 DEF Reads
  <2>3. Coming(p) => Coming(p)'
    <3>1. CASE marked[a] = p
      BY <2>1, <3>1 DEF Coming, Reads
    <3>2. CASE marked[a] # p
      BY <2>1, <2>2, <3>2 DEF Coming, TypeOK, Actors
    <3>. QED
      BY <3>1, <3>2
  <2>4. \A w \in Runners : pc'[w] = "store" => ProjectAt(w)' = ProjectAt(w)
    BY <2>1, Executing DEF ProjectAt
  <2>. QED
    BY <1>1, <2>1, <2>3, <2>4
<1>3. ASSUME NEW w \in Runners, NEW j \in Jobs, Fetch(w, j) PROVE UpToDate(p)'
  <2>1. /\ pc[w] = "idle" /\ job[j].status = "todo"
        /\ job' = [job EXCEPT ![j].status = "doing"] /\ owner' = [owner EXCEPT ![j] = w]
        /\ pc' = [pc EXCEPT ![w] = "start"] /\ at' = [at EXCEPT ![w] = j]
        /\ UNCHANGED <<heard, stored, status, publishing, marked, snapshot>>
    BY <1>3 DEF Fetch
  <2>2. \A k \in Jobs : job'[k].project = job[k].project
    BY <2>1 DEF TypeOK
  <2>3. Reads(j, p)'
    BY <2>1 DEF Reads, TypeOK
  <2>4. \A k \in Jobs \ {j} : Reads(k, p) => Reads(k, p)'
    <3>. SUFFICES ASSUME NEW k \in Jobs \ {j}, Reads(k, p) PROVE Reads(k, p)'
      OBVIOUS
    <3>1. job'[k] = job[k] /\ owner'[k] = owner[k]
      BY <2>1 DEF TypeOK
    <3>2. CASE job[k].status = "doing" /\ owner[k] \in Runners
      <4>1. owner[k] # w
        BY <2>1, <3>2, RefreshAssumption DEF OwnersExecute
      <4>. QED
        BY <2>1, <3>1, <3>2, <4>1, ReadsKept DEF TypeOK
    <3>3. CASE ~(job[k].status = "doing" /\ owner[k] \in Runners)
      BY <3>1, <3>3 DEF Reads
    <3>. QED
      BY <3>2, <3>3
  <2>5. Coming(p) => Coming(p)'
    BY <2>1, <2>2, <2>3, <2>4, ComingKept
  <2>6. \A v \in Runners : pc'[v] = "store" => pc[v] = "store" /\ ProjectAt(v)' = ProjectAt(v)
    BY <2>1, <2>2, Executing DEF ProjectAt, TypeOK
  <2>. QED
    BY <1>1, <2>1, <2>5, <2>6
<1>4. ASSUME NEW w \in Runners, Finish(w) PROVE UpToDate(p)'
  <2>1. /\ pc[w] = "finish" /\ at[w] \in Jobs /\ Forget(w) /\ EndJob(at[w], ending[w])
        /\ ending[w] \in Ended /\ UNCHANGED <<heard, stored, status, publishing, marked>>
    BY <1>4, Executing DEF Finish, TypeOK
  <2>2. job[at[w]].status = "doing" /\ owner[at[w]] = w
    BY <2>1 DEF Exclusive
  <2>3. /\ \A k \in Jobs \ {at[w]} : job'[k] = job[k] /\ owner'[k] = owner[k]
        /\ \A k \in Jobs : job'[k].project = job[k].project
    BY <2>1, EndJobType
  <2>4. ~Reads(at[w], p)
    BY <2>1, <2>2, RefreshAssumption DEF Reads
  <2>5. \A k \in Jobs \ {at[w]} : Reads(k, p) => Reads(k, p)'
    <3>. SUFFICES ASSUME NEW k \in Jobs \ {at[w]}, Reads(k, p) PROVE Reads(k, p)'
      OBVIOUS
    <3>1. CASE job[k].status = "doing" /\ owner[k] \in Runners
      <4>1. owner[k] # w
        BY <3>1, RefreshAssumption DEF OwnersExecute
      <4>. QED
        BY <2>1, <2>3, <3>1, <4>1, ForgetType, ReadsKept
    <3>2. CASE ~(job[k].status = "doing" /\ owner[k] \in Runners)
      BY <2>3, <3>2 DEF Reads
    <3>. QED
      BY <3>1, <3>2
  <2>6. Coming(p) => Coming(p)'
    BY <2>1, <2>3, <2>4, <2>5, ComingKept
  <2>7. \A v \in Runners : pc'[v] = "store" => pc[v] = "store" /\ ProjectAt(v)' = ProjectAt(v)
    BY <2>1, <2>3, ForgetType, Executing DEF ProjectAt
  <2>. QED
    BY <1>1, <2>1, <2>6, <2>7
<1>5. ASSUME NEW w \in Runners, Crash(w) PROVE UpToDate(p)'
  <2>1. /\ Forget(w) /\ UNCHANGED <<heard, stored, status, job>>
        /\ publishing' = [publishing EXCEPT ![w] = {}]
        /\ marked' = [marked EXCEPT ![w] = Nobody]
        /\ owner' = [j \in Jobs |-> IF owner[j] = w THEN Nobody ELSE owner[j]]
    BY <1>5 DEF Crash
  <2>2. \A k \in Jobs : Reads(k, p) => Reads(k, p)'
    BY <2>1, ForgetType, RefreshAssumption DEF Reads, TypeOK
  <2>3. \A a \in Publishers : publishing'[a] = publishing[a] /\ marked'[a] = marked[a]
    BY <2>1, RefreshAssumption DEF TypeOK, Actors
  <2>4. Coming(p) => Coming(p)'
    BY <2>1, <2>2, <2>3, ComingKept
  <2>5. \A v \in Runners : pc'[v] = "store" => pc[v] = "store" /\ ProjectAt(v)' = ProjectAt(v)
    BY <2>1, ForgetType DEF ProjectAt
  <2>. QED
    BY <1>1, <2>1, <2>4, <2>5
<1>6. ASSUME NEW j \in Jobs, HandleStalled(j) PROVE UpToDate(p)'
  <2>1. /\ job[j].status = "doing" /\ owner[j] = Nobody
        /\ \/ job' = [job EXCEPT ![j].status = "failed"] /\ Waiting(job[j].project)
           \/ job' = [job EXCEPT ![j].status = "todo"]
           \/ UNCHANGED job
        /\ owner' = owner \/ owner' = [owner EXCEPT ![j] = Nobody]
    BY <1>6, LookedIsOrphan
  <2>2. UNCHANGED <<heard, stored, status, publishing, marked, worker>>
    BY <1>6 DEF HandleStalled
  <2>3. /\ \A k \in Jobs : job'[k].project = job[k].project
        /\ \A k \in Jobs \ {j} : job'[k] = job[k] /\ owner'[k] = owner[k]
        /\ owner'[j] = Nobody
    <3>1. owner'[j] = Nobody /\ \A k \in Jobs \ {j} : owner'[k] = owner[k]
      BY <2>1 DEF TypeOK
    <3>2. /\ \A k \in Jobs : job'[k].project = job[k].project
          /\ \A k \in Jobs \ {j} : job'[k] = job[k]
      <4>1. CASE job' = [job EXCEPT ![j].status = "failed"]
        BY <4>1 DEF TypeOK
      <4>2. CASE job' = [job EXCEPT ![j].status = "todo"]
        BY <4>2 DEF TypeOK
      <4>. QED
        BY <2>1, <4>1, <4>2
    <3>. QED
      BY <3>1, <3>2
  <2>4. \A k \in Jobs \ {j} : Reads(k, p) => Reads(k, p)'
    BY <2>2, <2>3 DEF Reads
  <2>5. job[j].project = p => \E i \in Jobs : job'[i].project = p /\ Reads(i, p)'
    <3>1. CASE job' = [job EXCEPT ![j].status = "failed"] /\ Waiting(job[j].project)
      <4>1. PICK k \in Jobs : job[k].project = job[j].project /\ job[k].status = "todo"
        BY <3>1 DEF Waiting, JobsOf
      <4>2. job'[k] = job[k]
        BY <2>1, <2>3, <4>1
      <4>. QED
        BY <4>1, <4>2 DEF Reads
    <3>2. CASE job' = [job EXCEPT ![j].status = "todo"] \/ UNCHANGED job
      BY <2>1, <2>3, <3>2 DEF Reads, TypeOK
    <3>. QED
      BY <2>1, <3>1, <3>2
  <2>6. Coming(p) => Coming(p)'
    BY <2>2, <2>3, <2>4, <2>5, ComingKept
  <2>7. \A v \in Runners : pc'[v] = "store" => pc[v] = "store" /\ ProjectAt(v)' = ProjectAt(v)
    BY <2>2, <2>3, Executing DEF ProjectAt
  <2>. QED
    BY <1>1, <2>2, <2>6, <2>7
<1>. QED
  BY <1>2, <1>3, <1>4, <1>5, <1>6

\* A map about to be stored is no older than the one it replaces.
LEMMA SnapshotsAreNewer ==
  ASSUME TypeOK, TypeOK', RecoveryInv, CommitsInOrder, Locked, [Next]_vars, NEW v \in Runners,
         pc'[v] = "store"
  PROVE  stored'[ProjectAt(v)'] <= snapshot'[v]
<1>1. CASE pc[v] = "store" /\ UNCHANGED stored /\ snapshot'[v] = snapshot[v] /\ at'[v] = at[v]
  <2>1. ProjectAt(v)' = ProjectAt(v)
    BY <1>1, JobMoves, Executing DEF JobMove, ProjectAt
  <2>. QED
    BY <1>1, <2>1 DEF Locked
<1>2. CASE Aside
  BY <1>1, <1>2, AsideKeepsQueue DEF Aside, Push, DeleteProject, Ask, PublisherDies, Mark,
     SelectStalled, RecoveryDies, LookForTwin, SelectSilent, vars
<1>3. ASSUME NEW w \in Runners, Working(w), ~Store(w), ~Infer(w)
      PROVE  stored'[ProjectAt(v)'] <= snapshot'[v]
  BY <1>1, <1>3 DEF Working, Start, StoreFails, Caught, Tell, AnnounceFails, TypeOK
<1>4. ASSUME NEW w \in Runners, Infer(w) PROVE stored'[ProjectAt(v)'] <= snapshot'[v]
  <2>1. CASE v # w
    BY <1>1, <1>4, <2>1 DEF Infer, TypeOK
  <2>2. CASE v = w
    BY <1>4, <2>2, Executing DEF Infer, ProjectAt, CommitsInOrder, TypeOK
  <2>. QED
    BY <2>1, <2>2
<1>5. ASSUME NEW w \in Runners, Store(w) PROVE stored'[ProjectAt(v)'] <= snapshot'[v]
  <2>1. /\ pc[w] = "store" /\ pc' = [pc EXCEPT ![w] = "announce"]
        /\ stored' = [stored EXCEPT ![ProjectAt(w)] = snapshot[w]]
        /\ UNCHANGED <<at, job, snapshot>>
    BY <1>5 DEF Store
  <2>2. v # w /\ pc[v] = "store"
    BY <2>1 DEF TypeOK
  <2>3. ProjectAt(v) # ProjectAt(w) /\ ProjectAt(v) \in Projects
    BY <2>1, <2>2, OneRunner, Executing DEF Locked
  <2>4. stored'[ProjectAt(v)] = stored[ProjectAt(v)] /\ ProjectAt(v)' = ProjectAt(v)
    BY <2>1, <2>3 DEF TypeOK, ProjectAt
  <2>. QED
    BY <2>1, <2>2, <2>4 DEF Locked
<1>6. CASE \E a \in Actors : Defer(a)
  BY <1>1, <1>6 DEF Defer
<1>7. ASSUME NEW w \in Runners, NEW j \in Jobs, Fetch(w, j)
      PROVE  stored'[ProjectAt(v)'] <= snapshot'[v]
  BY <1>1, <1>7 DEF Fetch, TypeOK
<1>8. ASSUME NEW w \in Runners, Finish(w) \/ LoseDatabase(w) \/ Crash(w)
      PROVE  stored'[ProjectAt(v)'] <= snapshot'[v]
  BY <1>1, <1>8, ForgetType DEF Finish, LoseDatabase, Crash
<1>9. CASE \E j \in Jobs : HandleStalled(j)
  BY <1>1, <1>9 DEF HandleStalled
<1>. QED
  BY <1>2, <1>3, <1>4, <1>5, <1>6, <1>7, <1>8, <1>9, StepKinds DEF Kinds

LEMMA MapStep ==
  ASSUME TypeOK, MapInv, [Next]_vars
  PROVE  MapInv'
<1>. USE DEF MapInv
<1>1. TypeOK' /\ RecoveryInv' /\ OwnersExecute' /\ CommitsInOrder'
  BY TypeStep, RecoveryInvStep, OwnersStep, CommitsStep
<1>2. ASSUME Trusted' PROVE Locked'
  <2>1. Locked /\ Exclusive'
    BY <1>1, <1>2, TrustedStep, ExclusiveStep DEF Locked
  <2>2. \A w \in Runners : pc'[w] = "store" => stored'[ProjectAt(w)'] <= snapshot'[w]
    BY <1>1, <2>1, SnapshotsAreNewer
  <2>. QED
    BY <2>1, <2>2 DEF Locked
<1>3. ASSUME Calm' PROVE NoPushIsLost'
  <2>1. NoPushIsLost /\ Locked'
    BY <1>2, <1>3, CalmStep DEF Calm, Trusted
  <2>2. ASSUME NEW p \in Projects PROVE UpToDate(p)'
    <3>1. ASSUME NEW w \in Runners, Working(w) PROVE UpToDate(p)'
      BY <1>1, <2>1, <3>1, WorkingUpToDate
    <3>2. CASE Aside
      BY <1>3, <2>1, <3>2, AsideUpToDate, CalmStep DEF NoPushIsLost
    <3>. QED
      BY <1>1, <1>3, <2>1, <3>1, <3>2, QueueUpToDate, StepKinds, CalmStep DEF Kinds
  <2>. QED
    BY <2>1, <2>2 DEF NoPushIsLost
<1>. QED
  BY <1>1, <1>2, <1>3

LEMMA MapInvHolds == Spec => [](TypeOK /\ MapInv)
<1>1. Init => MapInv
  <2>. SUFFICES ASSUME Init PROVE MapInv
    OBVIOUS
  <2>1. CommitsInOrder
    BY DEF Init, CommitsInOrder
  <2>2. NoPushIsLost
    BY DEF Init, NoPushIsLost, Locked, Exclusive, UpToDate
  <2>. QED
    BY <2>1, <2>2 DEF NoPushIsLost, Init, MapInv, RecoveryInv, OwnersExecute
<1>2. ASSUME TypeOK /\ RecoveryInv, MapInv, [Next]_vars PROVE MapInv'
  BY <1>2, MapStep
<1>. QED
  BY <1>1, <1>2, TypeCorrect, PTL DEF Spec

\* Coalescing requests into the job that waits loses no push: a project with
\* nothing queued or going on, shown as analyzed, was read at its latest
\* request or later.
THEOREM StoredMapIsCurrentHolds == Spec => []StoredMapIsCurrent
<1>1. ASSUME TypeOK, MapInv PROVE StoredMapIsCurrent
  <2>. SUFFICES ASSUME NEW p \in Projects, Quiet(p), status[p] = "ok", Calm
                PROVE  stored[p] >= heard[p]
    BY <1>1 DEF StoredMapIsCurrent, Calm, TypeOK, Faults
  <2>1. UpToDate(p) /\ ~GaveUp(p)
    BY <1>1 DEF MapInv, NoPushIsLost, GaveUp
  <2>2. ~Coming(p)
    BY DEF Quiet, Coming, Reads, JobsOf, Actors
  <2>. QED
    BY <2>1, <2>2 DEF UpToDate
<1>. QED
  BY <1>1, MapInvHolds, PTL

\* Two workers at work are at work on two projects: a project's jobs share a lock.
OneRefreshAtATime ==
  Trusted => \A v, w \in Runners :
               pc[v] # "idle" /\ pc[w] # "idle" /\ ProjectAt(v) = ProjectAt(w) => v = w

\* However jobs are recovered and run again, two workers never map one project
\* at once unless a live worker is taken for dead (the lock of
\* infer_project_dependencies, tasks.py).
THEOREM OneRefreshAtATimeHolds == Spec => []OneRefreshAtATime
<1>1. TypeOK /\ MapInv => OneRefreshAtATime
  BY OneRunner DEF MapInv, Locked, OneRefreshAtATime
<1>. QED
  BY <1>1, MapInvHolds, PTL

\* The commit a project's map was read at never goes back.
MapsMoveForward ==
  [][Trusted => \A p \in Projects : stored[p] <= stored'[p]]_stored

\* However many attempts, crashes and recovered jobs lie between reading a
\* repository and storing its map, an older reading never replaces a newer one
\* (refresh.py stores what an attempt read, whenever it ends).
THEOREM MapsMoveForwardHolds == Spec => MapsMoveForward
<1>1. ASSUME TypeOK, MapInv, [Next]_vars, Trusted, NEW p \in Projects
      PROVE  stored[p] <= stored'[p]
  <2>1. stored[p] \in Nat
    BY <1>1 DEF TypeOK
  <2>2. ASSUME NEW w \in Runners, Store(w) PROVE stored[p] <= stored'[p]
    BY <1>1, <2>1, <2>2 DEF Store, MapInv, Locked, TypeOK
  <2>3. ASSUME \A w \in Runners : ~Store(w) PROVE stored' = stored
    BY <1>1, <2>3 DEF Next, vars, maps, Push, DeleteProject, Ask, Mark, Defer, EnqueueRefresh,
       PublisherDies, RunnerStep, Fetch, Start, Infer, StoreFails, Announce, Caught, Tell, Finish,
       Crash, LoseDatabase, AnnounceFails, RecoveryStep, SelectStalled, SelectSilent, LookForTwin,
       HandleStalled, RecoveryDies, Rest, QueueJob
  <2>. QED
    BY <2>1, <2>2, <2>3
<1>2. TypeOK /\ MapInv /\ [Next]_vars
      => [Trusted => \A p \in Projects : stored[p] <= stored'[p]]_stored
  BY <1>1
<1>. QED
  BY <1>2, MapInvHolds, PTL DEF Spec, MapsMoveForward
-----------------------------------------------------------------------------
(***************************************************************************)
(* Alarms.                                                                 *)
(***************************************************************************)

LEMMA CountTypes ==
  ASSUME TypeOK, TypeOK', NEW j \in Jobs
  PROVE  /\ told[j] \in Nat /\ told'[j] \in Nat
         /\ Waits(j) \in {0, 1} /\ Waits(j)' \in {0, 1}
         /\ Interrupted \in Nat /\ Interrupted' \in Nat
BY DEF TypeOK, Waits, Interrupted, Faults

\* Faults only add up.
LEMMA Interruptions ==
  ASSUME TypeOK, TypeOK', [Next]_vars
  PROVE  /\ Interrupted <= Interrupted' /\ faults["database"] <= faults'["database"]
         /\ \A w \in Runners : Crash(w) \/ AnnounceFails(w) => Interrupted' = Interrupted + 1
         /\ \A j \in Jobs : SelectSilent(j) => Interrupted' = Interrupted + 1
         /\ \A w \in Runners : LoseDatabase(w) => faults'["database"] > 0
<1>0. \A f \in Faults : faults[f] \in Nat /\ faults'[f] \in Nat
  BY DEF TypeOK
<1>1. ASSUME NEW f \in Faults, Fault(f)
      PROVE  \A g \in Faults : faults'[g] = IF g = f THEN faults[g] + 1 ELSE faults[g]
  BY <1>1, FaultType
<1>2. ASSUME NEW f \in Faults, Fault(f)
      PROVE  /\ Interrupted' = Interrupted + (IF f \in {"crash", "announce", "silence"} THEN 1 ELSE 0)
             /\ faults["database"] <= faults'["database"]
             /\ f = "database" => faults'["database"] > 0
  BY <1>0, <1>1, <1>2 DEF Interrupted, Faults
<1>3. CASE UNCHANGED faults
  BY <1>0, <1>2, <1>3 DEF Interrupted, Faults, Crash, AnnounceFails, SelectSilent, LoseDatabase
<1>4. CASE \E w \in Runners : Crash(w) \/ AnnounceFails(w) \/ LoseDatabase(w)
  BY <1>0, <1>2, <1>4 DEF Crash, AnnounceFails, LoseDatabase, SelectSilent, Faults, Interrupted
<1>5. CASE \/ RecoveryDies \/ \E j \in Jobs : SelectSilent(j)
           \/ \E a \in Publishers : PublisherDies(a)
  BY <1>0, <1>2, <1>5 DEF RecoveryDies, SelectSilent, PublisherDies, Crash, AnnounceFails,
     LoseDatabase, Faults, Interrupted
<1>. QED
  BY <1>3, <1>4, <1>5 DEF Next, RecoveryStep, Rest, vars, Push, DeleteProject, Ask, EnqueueRefresh,
     Mark, Defer, Fetch, RunnerStep, Start, Infer, Store, StoreFails, Announce, Caught, Tell, Finish,
     SelectStalled, LookForTwin, HandleStalled

\* A step whose runners execute the job as before.
LEMMA SameAttempts ==
  ASSUME TypeOK, TypeOK', NEW j \in Jobs, Counted(j), Active(j)' = Active(j),
         told'[j] + Waits(j)' + Interrupted <= told[j] + Waits(j) + Interrupted'
  PROVE  Counted(j)'
<1>1. IsFiniteSet(Active(j)) /\ Cardinality(Active(j)) \in Nat
  BY FS_CardinalityType DEF Counted
<1>2. told[j] + Cardinality(Active(j)) + Waits(j) <= 1 + Interrupted
  BY DEF Counted
<1>3. told'[j] + Cardinality(Active(j)') + Waits(j)' <= 1 + Interrupted'
  BY <1>1, <1>2, CountTypes
<1>. QED
  BY <1>1, <1>3 DEF Counted

\* A step in which a runner's attempt at the job is over, told or not.
LEMMA LeavesAttempt ==
  ASSUME TypeOK, TypeOK', NEW j \in Jobs, Counted(j),
         NEW w \in Active(j), Active(j)' = Active(j) \ {w},
         told'[j] + Waits(j)' + Interrupted <= told[j] + Waits(j) + 1 + Interrupted'
  PROVE  Counted(j)'
<1>1. /\ IsFiniteSet(Active(j)) /\ Cardinality(Active(j)) \in Nat
      /\ IsFiniteSet(Active(j)') /\ Cardinality(Active(j)') \in Nat
      /\ Cardinality(Active(j)') = Cardinality(Active(j)) - 1
  BY FS_CardinalityType, FS_RemoveElement DEF Counted
<1>2. told[j] + Cardinality(Active(j)) + Waits(j) <= 1 + Interrupted
  BY DEF Counted
<1>3. told'[j] + Cardinality(Active(j)') + Waits(j)' <= 1 + Interrupted'
  BY <1>1, <1>2, CountTypes
<1>. QED
  BY <1>1, <1>3 DEF Counted

\* A step in which a runner may leave the job, and no attempt begins.
LEMMA FewerAttempts ==
  ASSUME TypeOK, TypeOK', NEW j \in Jobs, Counted(j), NEW w \in Runners,
         Active(j)' = Active(j) \ {w},
         told'[j] + Waits(j)' + Interrupted <= told[j] + Waits(j) + Interrupted'
  PROVE  Counted(j)'
<1>1. CASE w \in Active(j)
  <2>1. told'[j] + Waits(j)' + Interrupted <= told[j] + Waits(j) + 1 + Interrupted'
    BY CountTypes
  <2>. QED
    BY <1>1, <2>1, LeavesAttempt
<1>2. CASE w \notin Active(j)
  BY <1>2, SameAttempts
<1>. QED
  BY <1>1, <1>2

LEMMA FetchCounted ==
  ASSUME TypeOK, TypeOK', RecoveryInv, NEW w \in Runners, NEW k \in Jobs, Fetch(w, k),
         NEW j \in Jobs, Counted(j)
  PROVE  Counted(j)'
<1>1. /\ pc[w] = "idle" /\ job[k].status = "todo" /\ UNCHANGED <<told, faults, stalled>>
      /\ job' = [job EXCEPT ![k].status = "doing"] /\ owner' = [owner EXCEPT ![k] = w]
      /\ pc' = [pc EXCEPT ![w] = "start"] /\ at' = [at EXCEPT ![w] = k]
  BY DEF Fetch
<1>2. Interrupted' = Interrupted
  BY <1>1 DEF Interrupted
<1>3. CASE j # k
  <2>1. Active(j)' = Active(j)
    BY <1>1, <1>3 DEF Active, TypeOK
  <2>2. Waits(j)' = Waits(j)
    BY <1>1, <1>3 DEF Waits, TypeOK
  <2>. QED
    BY <1>1, <1>2, <2>1, <2>2, SameAttempts, CountTypes
<1>4. CASE j = k
  <2>1. Active(j)' = Active(j) \cup {w} /\ w \notin Active(j)
    BY <1>1, <1>4 DEF Active, TypeOK
  <2>2. Waits(j) = 1 /\ Waits(j)' = 0
    <3>1. job'[k].status = "doing" /\ owner'[k] = w /\ w # Nobody
      BY <1>1, RefreshAssumption DEF TypeOK
    <3>2. k \notin stalled'
      BY <1>1 DEF RecoveryInv, Ended
    <3>. QED
      BY <1>1, <1>4, <3>1, <3>2 DEF Waits
  <2>3. IsFiniteSet(Active(j)) /\ Cardinality(Active(j)) \in Nat
    BY FS_CardinalityType DEF Counted
  <2>4. IsFiniteSet(Active(j)') /\ Cardinality(Active(j)') = Cardinality(Active(j)) + 1
    BY <2>1, <2>3, FS_AddElement
  <2>5. told[j] + Cardinality(Active(j)) + 1 <= 1 + Interrupted
    BY <2>2 DEF Counted
  <2>6. told'[j] + Cardinality(Active(j)') + 0 <= 1 + Interrupted'
    BY <1>1, <1>2, <2>3, <2>4, <2>5, CountTypes
  <2>. QED
    BY <2>2, <2>4, <2>6 DEF Counted
<1>. QED
  BY <1>3, <1>4

LEMMA CountedStep ==
  ASSUME TypeOK, TypeOK', RecoveryInv, OwnersExecute, [Next]_vars, NEW j \in Jobs, Counted(j)
  PROVE  Counted(j)'
<1>1. ASSUME UNCHANGED <<worker, told>>,
             Waits(j)' <= Waits(j) \/ (Interrupted' = Interrupted + 1)
      PROVE  Counted(j)'
  <2>1. Active(j)' = Active(j)
    BY <1>1 DEF Active
  <2>. QED
    BY <1>1, <2>1, SameAttempts, CountTypes, Interruptions
<1>2. CASE Aside
  <2>1. UNCHANGED <<queue, worker, told>>
    BY <1>2, AsideKeepsQueue DEF Aside, Push, DeleteProject, Ask, PublisherDies, Mark,
       SelectStalled, RecoveryDies, LookForTwin, SelectSilent, vars
  <2>2. CASE \E k \in Jobs : SelectSilent(k)
    BY <1>1, <2>1, <2>2, Interruptions
  <2>3. CASE SelectStalled
    <3>1. stalled = {} /\ stalled' = Orphans
      BY <2>3 DEF SelectStalled
    <3>2. Waits(j)' <= Waits(j)
      BY <2>1, <3>1 DEF Waits, Orphans
    <3>. QED
      BY <1>1, <2>1, <3>2
  <2>4. CASE stalled' \subseteq stalled
    <3>1. Waits(j)' <= Waits(j)
      BY <2>1, <2>4 DEF Waits
    <3>. QED
      BY <1>1, <2>1, <3>1
  <2>. QED
    BY <1>2, <2>2, <2>3, <2>4 DEF Aside, Push, DeleteProject, Ask, PublisherDies, Mark,
       RecoveryDies, LookForTwin, vars
<1>3. ASSUME NEW a \in Actors, Defer(a) PROVE Counted(j)'
  <2>1. UNCHANGED <<owner, worker, recovery, told>>
    BY <1>3 DEF Defer
  <2>2. job'[j].status = job[j].status \/ (job[j].status = "none" /\ job'[j].status = "todo")
    BY <1>3, DeferKeepsJobs
  <2>3. Waits(j)' <= Waits(j)
    BY <2>1, <2>2 DEF Waits
  <2>. QED
    BY <1>1, <2>1, <2>3
<1>4. ASSUME NEW w \in Runners, NEW k \in Jobs, Fetch(w, k) PROVE Counted(j)'
  BY <1>4, FetchCounted
<1>5. ASSUME NEW w \in Runners, Working(w) PROVE Counted(j)'
  <2>1. /\ UNCHANGED <<queue, at, recovery>> /\ pc[w] # "idle" /\ pc'[w] # "idle"
        /\ \A v \in Runners \ {w} : pc'[v] = pc[v]
    BY <1>5, WorkingKeepsQueue
  <2>2. Waits(j)' = Waits(j)
    BY <2>1 DEF Waits
  <2>3. CASE UNCHANGED told
    <3>1. Active(j)' = Active(j) \/ Active(j)' = Active(j) \ {w}
      <4>1. pc[w] # "finish"
        BY <1>5 DEF Working, Start, Infer, Store, StoreFails, Caught, Tell, AnnounceFails
      <4>. QED
        BY <2>1, <4>1 DEF Active, TypeOK
    <3>2. told'[j] + Waits(j)' + Interrupted <= told[j] + Waits(j) + Interrupted'
      BY <2>2, <2>3, Interruptions, CountTypes
    <3>. QED
      BY <3>1, <3>2, SameAttempts, FewerAttempts
  <2>4. CASE Tell(w)
    <3>1. /\ pc[w] = "tell" /\ pc'[w] = "finish" /\ told' = [told EXCEPT ![at[w]] = @ + 1]
          /\ at[w] \in Jobs
      BY <2>4, Executing DEF Tell, TypeOK
    <3>2. CASE at[w] = j
      <4>1. w \in Active(j) /\ Active(j)' = Active(j) \ {w}
        BY <2>1, <3>1, <3>2 DEF Active, TypeOK
      <4>2. told'[j] = told[j] + 1
        BY <3>1, <3>2 DEF TypeOK
      <4>3. told'[j] + Waits(j)' + Interrupted <= told[j] + Waits(j) + 1 + Interrupted'
        BY <2>2, <4>2, Interruptions, CountTypes
      <4>. QED
        BY <4>1, <4>3, LeavesAttempt
    <3>3. CASE at[w] # j
      <4>1. Active(j)' = Active(j)
        BY <2>1, <3>1, <3>3 DEF Active, TypeOK
      <4>2. told'[j] = told[j]
        BY <3>1, <3>3 DEF TypeOK
      <4>. QED
        BY <2>2, <4>1, <4>2, SameAttempts, Interruptions, CountTypes
    <3>. QED
      BY <3>2, <3>3
  <2>. QED
    BY <1>5, <2>3, <2>4 DEF Working, Start, Infer, Store, StoreFails, Caught, AnnounceFails
<1>6. ASSUME NEW w \in Runners, Forget(w), UNCHANGED told,
             Waits(j)' <= Waits(j) \/ (Interrupted' = Interrupted + 1)
      PROVE  Counted(j)'
  <2>1. Active(j)' = Active(j) \ {w}
    BY <1>6, ForgetType DEF Active, TypeOK
  <2>2. told'[j] + Waits(j)' + Interrupted <= told[j] + Waits(j) + Interrupted'
    BY <1>6, Interruptions, CountTypes
  <2>. QED
    BY <2>1, <2>2, FewerAttempts
<1>7. ASSUME NEW w \in Runners, Finish(w) \/ LoseDatabase(w) PROVE Counted(j)'
  <2>1. PICK how \in Ended : EndJob(at[w], how)
    BY ZenonT(60), <1>7 DEF Finish, LoseDatabase, TypeOK, Ended
  <2>2. Forget(w) /\ at[w] \in Jobs /\ UNCHANGED <<told, stalled>>
    BY <1>7, Executing DEF Finish, LoseDatabase
  <2>3. CASE j = at[w]
    <3>1. job'[j].status \in Ended
      BY <2>1, <2>2, <2>3, EndJobType
    <3>2. Waits(j)' = 0
      BY <3>1 DEF Waits, Ended
    <3>. QED
      BY <1>6, <2>2, <3>2, CountTypes
  <2>4. CASE j # at[w]
    <3>1. job'[j] = job[j] /\ owner'[j] = owner[j]
      BY <2>1, <2>2, <2>4, EndJobType
    <3>2. Waits(j)' = Waits(j)
      BY <2>2, <3>1 DEF Waits
    <3>. QED
      BY <1>6, <2>2, <3>2, CountTypes
  <2>. QED
    BY <2>3, <2>4
<1>8. ASSUME NEW w \in Runners, Crash(w) PROVE Counted(j)'
  BY <1>6, <1>8, Interruptions DEF Crash
<1>9. ASSUME NEW k \in Jobs, HandleStalled(k) PROVE Counted(j)'
  <2>1. UNCHANGED <<worker, told>> /\ stalled' = stalled \ {k} /\ k \in stalled
    BY <1>9, RefreshAssumption DEF HandleStalled, RecoveryInv, NotLooked
  <2>2. CASE j # k
    <3>1. job'[j] = job[j] /\ owner'[j] = owner[j]
      BY <1>9, <2>2, EndJobType DEF HandleStalled, TypeOK, Ended
    <3>2. Waits(j)' = Waits(j)
      BY <2>1, <2>2, <3>1 DEF Waits
    <3>. QED
      BY <1>1, <2>1, <3>2, CountTypes
  <2>3. CASE j = k
    <3>1. CASE job[j].status = "doing"
      <4>1. Waits(j) = 1
        BY <2>1, <2>3, <3>1 DEF Waits
      <4>. QED
        BY <1>1, <2>1, <4>1, CountTypes
    <3>2. CASE job[j].status # "doing"
      <4>1. job[j].status \in Ended /\ job'[j].status = job[j].status
        BY <2>1, <2>3, <3>2, JobMoves DEF RecoveryInv, JobMove, Ended
      <4>2. Waits(j)' = 0
        BY <4>1 DEF Waits, Ended
      <4>. QED
        BY <1>1, <2>1, <4>2, CountTypes
    <3>. QED
      BY <3>1, <3>2
  <2>. QED
    BY <2>2, <2>3
<1>. QED
  BY <1>2, <1>3, <1>4, <1>5, <1>7, <1>8, <1>9, StepKinds DEF Kinds

LEMMA EndingStep ==
  ASSUME TypeOK, [Next]_vars, \A w \in Runners : pc[w] # "finish" => ending[w] = "succeeded"
  PROVE  \A w \in Runners : pc'[w] # "finish" => ending'[w] = "succeeded"
<1>1. CASE Aside \/ \E a \in Actors : Defer(a)
  BY <1>1, AsideKeepsQueue DEF Defer
<1>2. ASSUME NEW w \in Runners, NEW j \in Jobs, Fetch(w, j)
      PROVE  \A v \in Runners : pc'[v] # "finish" => ending'[v] = "succeeded"
  BY <1>2 DEF Fetch, TypeOK
<1>3. ASSUME NEW w \in Runners, Working(w)
      PROVE  \A v \in Runners : pc'[v] # "finish" => ending'[v] = "succeeded"
  BY <1>3 DEF Working, Start, Infer, Store, StoreFails, Caught, Tell, AnnounceFails, TypeOK
<1>4. ASSUME NEW w \in Runners, Finish(w) \/ LoseDatabase(w) \/ Crash(w)
      PROVE  \A v \in Runners : pc'[v] # "finish" => ending'[v] = "succeeded"
  BY <1>4, ForgetType DEF Finish, LoseDatabase, Crash
<1>5. CASE \E j \in Jobs : HandleStalled(j)
  BY <1>5 DEF HandleStalled
<1>. QED
  BY <1>1, <1>2, <1>3, <1>4, <1>5, StepKinds DEF Kinds

\* Without an interruption every execution tells what its job's end says.
LEMMA UndisturbedStep ==
  ASSUME TypeOK, TypeOK', AlarmInv, Undisturbed, [Next]_vars, Interrupted = 0, Interrupted' = 0
  PROVE  Undisturbed'
<1>1. /\ \A w \in Runners : ~Crash(w) /\ ~AnnounceFails(w)
      /\ \A j \in Jobs : ~SelectSilent(j) /\ ~HandleStalled(j) /\ ~LookForTwin(j)
      /\ ~SelectStalled /\ ~RecoveryDies
  <2>1. /\ \A w \in Runners : ~Crash(w) /\ ~AnnounceFails(w)
        /\ \A j \in Jobs : ~SelectSilent(j)
    BY Interruptions
  <2>2. \A j \in Jobs : ~HandleStalled(j) /\ ~LookForTwin(j)
    BY RefreshAssumption DEF HandleStalled, LookForTwin, Undisturbed, AlarmInv, RecoveryInv, NotLooked
  <2>. QED
    BY <2>1, <2>2 DEF SelectStalled, RecoveryDies, Orphans, Undisturbed
<1>2. \A w \in Runners : pc[w] # "idle" => at[w] \in Jobs
  BY Executing
<1>3. faults["database"] > 0 => faults'["database"] > 0
  <2>1. faults["database"] \in Nat /\ faults'["database"] \in Nat
    BY DEF TypeOK, Faults
  <2>. QED
    BY <2>1, Interruptions
<1>4. CASE Aside
  <2>1. UNCHANGED <<queue, worker, told, stalled>>
    BY <1>1, <1>4, AsideKeepsQueue DEF Aside, Push, DeleteProject, Ask, PublisherDies, Mark, vars
  <2>. QED
    BY <1>3, <2>1 DEF Undisturbed
<1>5. ASSUME NEW a \in Actors, Defer(a) PROVE Undisturbed'
  <2>1. /\ UNCHANGED <<owner, worker, recovery, faults, told>>
        /\ \A j \in Jobs : job[j].status # "none" => job'[j] = job[j]
        /\ \A j \in Jobs : job'[j].status = job[j].status \/ job'[j].status = "todo"
    BY <1>5, DeferKeepsJobs DEF Defer
  <2>2. \A j \in Jobs : job'[j].status = job[j].status
          \/ (job[j].status = "none" /\ job'[j].status = "todo")
    BY <2>1
  <2>3. \A w \in Runners : pc[w] # "idle" => job'[at[w]] = job[at[w]]
    BY <1>2, <2>1 DEF Undisturbed
  <2>. QED
    BY <1>2, <2>1, <2>2, <2>3 DEF Undisturbed
<1>6. ASSUME NEW w \in Runners, NEW j \in Jobs, Fetch(w, j) PROVE Undisturbed'
  <2>1. /\ pc[w] = "idle" /\ job[j].status = "todo" /\ UNCHANGED <<told, faults, stalled, ending>>
        /\ job' = [job EXCEPT ![j].status = "doing"] /\ owner' = [owner EXCEPT ![j] = w]
        /\ pc' = [pc EXCEPT ![w] = "start"] /\ at' = [at EXCEPT ![w] = j]
    BY <1>6 DEF Fetch
  <2>2. /\ \A k \in Jobs \ {j} : job'[k] = job[k] /\ owner'[k] = owner[k]
        /\ job'[j].status = "doing" /\ owner'[j] = w /\ w # Nobody
        /\ pc'[w] = "start" /\ at'[w] = j
        /\ \A v \in Runners \ {w} : pc'[v] = pc[v] /\ at'[v] = at[v]
    BY <2>1, RefreshAssumption DEF TypeOK
  <2>3. told[j] = 0
    BY <2>1 DEF Undisturbed
  <2>4. \A v \in Runners \ {w} : pc[v] # "idle" => at[v] # j
    BY <2>1 DEF Undisturbed
  <2>5. \A v \in Runners : pc'[v] # "idle" => job'[at'[v]].status = "doing" /\ owner'[at'[v]] = v
    BY <1>2, <2>2, <2>4 DEF Undisturbed
  <2>6. \A v \in Runners : /\ pc'[v] \notin {"idle", "finish"} => told'[at'[v]] = 0
                           /\ pc'[v] = "finish" => (ending'[v] = "failed" <=> told'[at'[v]] > 0)
    BY <2>1, <2>2, <2>3 DEF Undisturbed
  <2>7. \A k \in Jobs : job'[k].status = "doing" => owner'[k] # Nobody
    BY <2>2 DEF Undisturbed
  <2>8. \A k \in Jobs : /\ job'[k].status \in {"none", "todo", "succeeded"} => told'[k] = 0
                        /\ job'[k].status = "failed" => told'[k] > 0 \/ faults'["database"] > 0
    BY <2>1, <2>2 DEF Undisturbed
  <2>. QED
    BY <2>1, <2>5, <2>6, <2>7, <2>8 DEF Undisturbed
<1>7. ASSUME NEW w \in Runners, Working(w) PROVE Undisturbed'
  <2>1. /\ UNCHANGED <<queue, at, recovery>> /\ pc[w] # "idle" /\ pc'[w] # "idle"
        /\ \A v \in Runners \ {w} : pc'[v] = pc[v] /\ ending'[v] = ending[v]
        /\ pc[w] # "finish"
    BY <1>7, WorkingKeepsQueue DEF Working, Start, Infer, Store, StoreFails, Caught, Tell,
       AnnounceFails, TypeOK
  <2>2. at[w] \in Jobs /\ job[at[w]].status = "doing" /\ owner[at[w]] = w /\ told[at[w]] = 0
    BY <1>2, <2>1 DEF Undisturbed
  <2>3. \A v \in Runners \ {w} : pc[v] # "idle" => at[v] # at[w]
    BY <2>2 DEF Undisturbed
  <2>4. CASE UNCHANGED <<told, ending>>
    <3>1. ending[w] = "succeeded"
      BY <2>1 DEF AlarmInv
    <3>2. \A v \in Runners : /\ pc'[v] \notin {"idle", "finish"} => told'[at'[v]] = 0
                             /\ pc'[v] = "finish" => (ending'[v] = "failed" <=> told'[at'[v]] > 0)
      BY <2>1, <2>2, <2>4, <3>1 DEF Undisturbed
    <3>3. \A v \in Runners : pc'[v] # "idle" => job'[at'[v]].status = "doing" /\ owner'[at'[v]] = v
      BY <2>1, <2>2 DEF Undisturbed
    <3>. QED
      BY <1>3, <2>1, <2>4, <3>2, <3>3 DEF Undisturbed
  <2>5. CASE Tell(w)
    <3>1. /\ told' = [told EXCEPT ![at[w]] = @ + 1] /\ pc'[w] = "finish" /\ ending'[w] = "failed"
      BY <2>5 DEF Tell, TypeOK
    <3>2. told'[at[w]] = 1 /\ \A k \in Jobs \ {at[w]} : told'[k] = told[k]
      BY <2>2, <3>1 DEF TypeOK
    <3>3. \A v \in Runners : /\ pc'[v] \notin {"idle", "finish"} => told'[at'[v]] = 0
                             /\ pc'[v] = "finish" => (ending'[v] = "failed" <=> told'[at'[v]] > 0)
      BY <1>2, <2>1, <2>3, <3>1, <3>2 DEF Undisturbed
    <3>4. \A v \in Runners : pc'[v] # "idle" => job'[at'[v]].status = "doing" /\ owner'[at'[v]] = v
      BY <2>1, <2>2 DEF Undisturbed
    <3>5. \A k \in Jobs : /\ job'[k].status \in {"none", "todo", "succeeded"} => told'[k] = 0
                          /\ job'[k].status = "failed" => told'[k] > 0 \/ faults'["database"] > 0
      BY <1>3, <2>1, <2>2, <3>2 DEF Undisturbed
    <3>. QED
      BY <2>1, <3>3, <3>4, <3>5 DEF Undisturbed
  <2>. QED
    BY <1>7, <2>4, <2>5 DEF Working, Start, Infer, Store, StoreFails, Caught, AnnounceFails
<1>8. ASSUME NEW w \in Runners, Finish(w) \/ LoseDatabase(w) PROVE Undisturbed'
  <2>1. pc[w] # "idle" /\ at[w] \in Jobs /\ Forget(w) /\ UNCHANGED <<told, stalled>>
    BY <1>8, Executing DEF Finish, LoseDatabase
  <2>2. PICK how \in Ended :
          /\ EndJob(at[w], how)
          /\ how = "succeeded" => told[at[w]] = 0
          /\ how = "failed" => told[at[w]] > 0 \/ faults'["database"] > 0
    <3>1. CASE Finish(w)
      <4>1. pc[w] = "finish" /\ EndJob(at[w], ending[w]) /\ ending[w] \in Ended
            /\ told[at[w]] \in Nat
        BY <2>1, <3>1 DEF Finish, TypeOK
      <4>2. ending[w] = "failed" <=> told[at[w]] > 0
        BY <4>1 DEF Undisturbed
      <4>3. ending[w] = "succeeded" => told[at[w]] = 0
        BY <4>1, <4>2
      <4>. QED
        BY <4>1, <4>2, <4>3
    <3>2. CASE LoseDatabase(w)
      BY <3>2, Interruptions DEF LoseDatabase, Ended
    <3>. QED
      BY <1>8, <3>1, <3>2
  <2>3. job[at[w]].status = "doing" /\ owner[at[w]] = w
    BY <2>1 DEF Undisturbed
  <2>4. /\ \A k \in Jobs \ {at[w]} : job'[k] = job[k] /\ owner'[k] = owner[k]
        /\ job'[at[w]].status = how
    BY <2>1, <2>2, <2>3, EndJobType DEF Ended
  <2>5. \A v \in Runners \ {w} : pc'[v] = pc[v] /\ at'[v] = at[v] /\ ending'[v] = ending[v]
    BY <2>1, ForgetType
  <2>6. pc'[w] = "idle" /\ \A v \in Runners \ {w} : pc[v] # "idle" => at[v] # at[w]
    BY <2>1, <2>3, ForgetType DEF Undisturbed
  <2>7. \A v \in Runners : pc'[v] # "idle" => job'[at'[v]].status = "doing" /\ owner'[at'[v]] = v
    BY <1>2, <2>4, <2>5, <2>6 DEF Undisturbed
  <2>8. \A v \in Runners : /\ pc'[v] \notin {"idle", "finish"} => told'[at'[v]] = 0
                           /\ pc'[v] = "finish" => (ending'[v] = "failed" <=> told'[at'[v]] > 0)
    BY <2>1, <2>5, <2>6 DEF Undisturbed
  <2>9. \A k \in Jobs : /\ job'[k].status \in {"none", "todo", "succeeded"} => told'[k] = 0
                        /\ job'[k].status = "failed" => told'[k] > 0 \/ faults'["database"] > 0
    BY <1>3, <2>1, <2>2, <2>4 DEF Undisturbed, Ended
  <2>10. \A k \in Jobs : job'[k].status = "doing" => owner'[k] # Nobody
    BY <2>2, <2>4 DEF Undisturbed, Ended
  <2>. QED
    BY <2>1, <2>7, <2>8, <2>9, <2>10 DEF Undisturbed
<1>. QED
  BY <1>1, <1>4, <1>5, <1>6, <1>7, <1>8, StepKinds DEF Kinds

LEMMA AlarmStep ==
  ASSUME TypeOK, AlarmInv, [Next]_vars
  PROVE  AlarmInv'
<1>1. TypeOK' /\ RecoveryInv' /\ OwnersExecute'
  BY TypeStep, RecoveryInvStep, OwnersStep DEF AlarmInv
<1>2. \A j \in Jobs : Counted(j)'
  BY <1>1, CountedStep DEF AlarmInv
<1>3. \A w \in Runners : pc'[w] # "finish" => ending'[w] = "succeeded"
  BY EndingStep DEF AlarmInv
<1>4. ASSUME Interrupted' = 0 PROVE Undisturbed'
  <2>1. Interrupted \in Nat /\ Interrupted <= Interrupted'
    BY <1>1, Interruptions DEF TypeOK, Interrupted, Faults
  <2>2. Interrupted = 0
    BY <1>4, <2>1
  <2>. QED
    BY <1>1, <1>4, <2>2, UndisturbedStep DEF AlarmInv
<1>. QED
  BY <1>1, <1>2, <1>3, <1>4 DEF AlarmInv

LEMMA AlarmInit == Init => AlarmInv
<1>. SUFFICES ASSUME Init PROVE AlarmInv
  OBVIOUS
<1>1. \A j \in Jobs : job[j].status = "none" /\ told[j] = 0
  BY DEF Init
<1>2. Interrupted = 0
  BY DEF Init, Interrupted, Faults
<1>3. ASSUME NEW j \in Jobs PROVE Counted(j)
  <2>1. Active(j) = {} /\ Waits(j) = 1
    BY <1>1 DEF Init, Active, Waits
  <2>. QED
    BY <1>1, <1>2, <2>1, FS_EmptySet DEF Counted
<1>4. Undisturbed
  BY <1>1 DEF Init, Undisturbed
<1>. QED
  BY <1>3, <1>4 DEF Init, AlarmInv, RecoveryInv, OwnersExecute

\* A failure is told once, when the last attempt failed: each interruption of a
\* worker allows one more alarm, and without one a job's end says what was told.
THEOREM OneAlarmPerFailedJobHolds == Spec => []OneAlarmPerFailedJob
<1>1. ASSUME TypeOK /\ RecoveryInv, AlarmInv, [Next]_vars PROVE AlarmInv'
  BY <1>1, AlarmStep
<1>2. ASSUME TypeOK /\ RecoveryInv, AlarmInv PROVE OneAlarmPerFailedJob
  <2>1. Interrupted \in Nat /\ faults["database"] \in Nat
    BY <1>2 DEF TypeOK, Interrupted, Faults
  <2>2. ASSUME NEW j \in Jobs
        PROVE  /\ job[j].status = "succeeded" /\ told[j] > 0 => Interrupted > 0
               /\ job[j].status = "failed" /\ told[j] = 0 => Interrupted + faults["database"] > 0
               /\ told[j] <= 1 + Interrupted
    <3>1. told[j] \in Nat /\ Waits(j) \in Nat /\ Cardinality(Active(j)) \in Nat
      BY <1>2, FS_CardinalityType DEF TypeOK, Waits, AlarmInv, Counted
    <3>2. told[j] <= 1 + Interrupted
      BY <1>2, <2>1, <3>1 DEF AlarmInv, Counted
    <3>3. Interrupted = 0 => /\ job[j].status = "succeeded" => told[j] = 0
                             /\ job[j].status = "failed" => told[j] > 0 \/ faults["database"] > 0
      BY <1>2 DEF AlarmInv, Undisturbed
    <3>. QED
      BY <2>1, <3>1, <3>2, <3>3
  <2>. QED
    BY <2>2 DEF OneAlarmPerFailedJob, Interrupted
<1>. QED
  BY <1>1, <1>2, AlarmInit, TypeCorrect, PTL DEF Spec
=============================================================================
