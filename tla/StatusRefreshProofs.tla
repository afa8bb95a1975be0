-------------------------- MODULE StatusRefreshProofs --------------------------
(***************************************************************************)
(* Theorems about StatusRefresh, for any profiles, windows, background     *)
(* refreshes and bounds.                                                   *)
(***************************************************************************)
EXTENDS StatusRefresh, FiniteSetTheorems, TLAPS

(* Types *)

LEMMA WorkersFinite ==
    ASSUME NEW r \in Runners
    PROVE  IsFiniteSet(Working(r)) /\ Cardinality(Working(r)) \in Nat
<1>1. Working(r) \subseteq Profiles
  BY DEF Working
<1> QED
  BY <1>1, BoundsAssumption, FS_Subset, FS_CardinalityType

LEMMA WorkersFiniteNext ==
    ASSUME NEW r \in Runners
    PROVE  IsFiniteSet(Working(r)') /\ Cardinality(Working(r)') \in Nat
<1>1. Working(r)' \subseteq Profiles
  BY DEF Working
<1> QED
  BY <1>1, BoundsAssumption, FS_Subset, FS_CardinalityType

LEMMA NoWorkersType ==
    /\ NoWorkers \in [Profiles -> WorkerStages]
    /\ \A p \in Profiles : NoWorkers[p] = "none"
BY DEF NoWorkers, WorkerStages

(* A runner none of whose goroutines starts work keeps to the semaphore. *)
LEMMA FewerWorkers ==
    ASSUME TypeOK, NEW r \in Runners,
           \A p \in Profiles : worker'[r][p] = "work" => worker[r][p] = "work"
    PROVE  Cardinality(Working(r)') <= MaxJobs
<1>1. Working(r)' \subseteq Working(r)
  BY DEF Working
<1>2. Cardinality(Working(r)') <= Cardinality(Working(r))
  BY <1>1, WorkersFinite, FS_Subset
<1> QED
  BY <1>2, WorkersFinite, WorkersFiniteNext, BoundsAssumption DEF TypeOK

(* The steps that change no goroutine. *)
LEMMA SameWorkers ==
    ASSUME TypeOK, UNCHANGED worker
    PROVE  /\ worker' \in [Runners -> [Profiles -> WorkerStages]]
           /\ \A r \in Runners : Cardinality(Working(r)') <= MaxJobs
BY DEF TypeOK, Working

(* The steps that begin or end the goroutines of one runner. *)
LEMMA WorkersReplaced ==
    ASSUME TypeOK, NEW r \in Runners, NEW f \in [Profiles -> WorkerStages],
           worker' = [worker EXCEPT ![r] = f], \A p \in Profiles : f[p] # "work"
    PROVE  /\ worker' \in [Runners -> [Profiles -> WorkerStages]]
           /\ \A q \in Runners : Cardinality(Working(q)') <= MaxJobs
<1>1. worker' \in [Runners -> [Profiles -> WorkerStages]]
  BY DEF TypeOK
<1>2. \A q \in Runners, p \in Profiles : worker'[q][p] = "work" => worker[q][p] = "work"
  BY DEF TypeOK
<1> QED
  BY <1>1, <1>2, FewerWorkers

(* The steps of one goroutine that do not start its work. *)
LEMMA WorkerMoved ==
    ASSUME TypeOK, NEW r \in Runners, NEW p \in Profiles, NEW at \in WorkerStages \ {"work"},
           WorkerTo(r, p, at)
    PROVE  /\ worker' \in [Runners -> [Profiles -> WorkerStages]]
           /\ \A q \in Runners : Cardinality(Working(q)') <= MaxJobs
           /\ worker'[r][p] = at
           /\ \A q \in Runners, x \in Profiles :
                <<q, x>> # <<r, p>> => worker'[q][x] = worker[q][x]
<1>1. worker' \in [Runners -> [Profiles -> WorkerStages]]
  BY DEF TypeOK, WorkerTo
<1>2. /\ worker'[r][p] = at
      /\ \A q \in Runners, x \in Profiles :
           <<q, x>> # <<r, p>> => worker'[q][x] = worker[q][x]
  BY DEF TypeOK, WorkerTo
<1>3. \A q \in Runners, x \in Profiles : worker'[q][x] = "work" => worker[q][x] = "work"
  BY <1>2
<1> QED
  BY <1>1, <1>2, <1>3, FewerWorkers

(* The steps of a request or a background refresh to its next stage. *)
LEMMA JobMoved ==
    ASSUME TypeOK, NEW r \in Runners, NEW at \in Stages, Goto(r, at)
    PROVE  /\ job' \in [Runners -> Jobs]
           /\ job'[r].at = at /\ job'[r].call = job[r].call /\ job'[r].adds = job[r].adds
           /\ \A q \in Runners : q # r => job'[q] = job[q]
<1>1. job' = [job EXCEPT ![r] = [job[r] EXCEPT !.at = at]]
  BY DEF Goto
<1>2. [job[r] EXCEPT !.at = at] \in Jobs
  BY DEF TypeOK, Jobs
<1> QED
  BY <1>1, <1>2 DEF TypeOK, Jobs

(* The steps that begin or end one. *)
LEMMA JobSet ==
    ASSUME TypeOK, NEW r \in Runners, NEW j \in Jobs, job' = [job EXCEPT ![r] = j]
    PROVE  /\ job' \in [Runners -> Jobs] /\ job'[r] = j
           /\ \A q \in Runners : q # r => job'[q] = job[q]
BY DEF TypeOK

LEMMA JobTypes ==
    /\ Idle \in Jobs /\ Idle.at = "idle" /\ Idle.call = "none"
    /\ Started \in Jobs /\ Started.at = "lock" /\ Started.call = "background"
    /\ \A call \in Calls : [at |-> "lock", call |-> call, adds |-> Nobody] \in Jobs
    /\ \A p \in New : [at |-> "create", call |-> "none", adds |-> p] \in Jobs
BY DEF Idle, Started, Jobs, Stages, Calls

(* A window that has started a background refresh. *)
LEMMA JobStarted ==
    ASSUME TypeOK, NEW w \in Windows, NEW b \in Backgrounds,
           job' = [job EXCEPT ![w] = Idle, ![b] = Started]
    PROVE  /\ job' \in [Runners -> Jobs]
           /\ job'[w] = Idle /\ job'[b] = Started
           /\ \A q \in Runners : q \notin {w, b} => job'[q] = job[q]
<1>1. w \in Runners /\ b \in Runners /\ w # b
  BY RunnersAssumption DEF Runners
<1> QED
  BY <1>1, JobTypes DEF TypeOK

(* The end of a refresh, with an error or without. *)
LEMMA JobEnds ==
    ASSUME TypeOK, NEW r \in Runners, NEW error \in BOOLEAN, Ends(r, error)
    PROVE  /\ job' \in [Runners -> Jobs] /\ fresh' \in [Windows -> SUBSET Known]
           /\ expired' = expired \ {r} /\ degraded' \in BOOLEAN /\ (degraded => degraded')
           /\ \A q \in Runners : q # r => job'[q] = job[q]
           /\ \A w \in Windows : w # r => fresh'[w] = fresh[w]
           /\ \/ job'[r] = Idle
              \/ /\ job'[r].at = "answer" /\ job'[r].call = job[r].call /\ fresh' = fresh
                 /\ job[r].call \in {"home", "all", "due"}
                 /\ error => job[r].call = "home" /\ degraded'
<1>1. /\ expired' = expired \ {r} /\ degraded' \in BOOLEAN /\ (degraded => degraded')
      /\ error /\ job[r].call = "home" => degraded'
  BY DEF Ends, Leaves, TypeOK
<1>2. /\ fresh' \in [Windows -> SUBSET Known]
      /\ \A w \in Windows : w # r => fresh'[w] = fresh[w]
  BY DEF Ends, Leaves, TypeOK
<1>3. CASE Answers(r, error)
  <2>1. Goto(r, "answer") /\ fresh' = fresh
    BY <1>3 DEF Ends, Leaves
  <2>2. /\ job' \in [Runners -> Jobs]
        /\ job'[r].at = "answer" /\ job'[r].call = job[r].call
        /\ \A q \in Runners : q # r => job'[q] = job[q]
    BY <2>1, JobMoved DEF Stages
  <2> QED
    BY <1>1, <1>2, <1>3, <2>1, <2>2 DEF Answers
<1>4. CASE ~Answers(r, error)
  <2>1. job' = [job EXCEPT ![r] = Idle]
    BY <1>4 DEF Ends, Leaves
  <2> QED
    BY <1>1, <1>2, <2>1, JobSet, JobTypes
<1> QED
  BY <1>3, <1>4

LEMMA TypeInit == Init => TypeOK
<1> SUFFICES ASSUME Init PROVE TypeOK
  OBVIOUS
<1>1. \A r \in Runners : Working(r) = {}
  BY NoWorkersType DEF Init, Working
<1>2. \A r \in Runners : Cardinality(Working(r)) <= MaxJobs
  BY <1>1, FS_EmptySet, BoundsAssumption
<1>3. due \subseteq Profiles
  BY DEF Init, Profiles
<1>4. profile \in [Profiles -> {"none", "half", "listed"}] /\ faults \in 0..MaxFaults
  BY BoundsAssumption DEF Init
<1> QED
  BY <1>2, <1>3, <1>4, NoWorkersType, JobTypes DEF Init, TypeOK

(* What a profile that is being added is, and who can be refreshing. *)
Roles ==
    /\ \A r \in Runners : job[r].at \in {"create", "adding"} => job[r].adds \in New
    /\ \A b \in Backgrounds : /\ job[b].at \in {"idle", "lock", "list", "run"}
                              /\ job[b].call \in {"none", "background"}
    /\ \A w \in Windows : w \in expired => job[w].at = "adding"
    /\ \A r \in Runners : job[r].at \notin {"run", "adding"} => worker[r] = NoWorkers
    /\ \A p \in Known : profile[p] = "listed"

(* Whoever refreshes holds the lock. *)
Holding == \A r \in Runners : job[r].at \in {"list", "run"} <=> holder = r

(* The goroutines of a forced refresh: each known profile has one, and one
   that is over without error has saved. *)
ForcedWork ==
    \A w \in Windows : job[w].at = "run" /\ job[w].call \in {"home", "all"} =>
        \A p \in Known :
            /\ worker[w][p] # "none"
            /\ worker[w][p] = "done" => p \in fresh[w]

IInv == TypeOK /\ Roles /\ Holding /\ FlagMeansWork /\ ForcedWork /\ ForcedChecksAll

LEMMA InvInit == Init => IInv
<1> SUFFICES ASSUME Init PROVE IInv
  OBVIOUS
<1>1. \A r \in Runners : /\ job[r].at = "idle" /\ job[r].call = "none"
                        /\ worker[r] = NoWorkers
  BY JobTypes DEF Init
<1>2. Roles
  BY <1>1 DEF Init, Roles, Profiles, Runners
<1>3. Holding
  BY <1>1, RunnersAssumption DEF Init, Holding
<1>4. FlagMeansWork /\ ForcedWork /\ ForcedChecksAll
  BY <1>1 DEF Init, FlagMeansWork, ForcedWork, ForcedChecksAll, Runners
<1> QED
  BY <1>2, <1>3, <1>4, TypeInit DEF IInv

LEMMA TypeNext == TypeOK /\ Roles /\ [Next]_vars => TypeOK'
<1> SUFFICES ASSUME TypeOK, Roles, [Next]_vars PROVE TypeOK'
  OBVIOUS
<1> USE DEF files, flags, work
<1>1. ASSUME NEW w \in Windows,
             Snapshot(w) \/ ForcedSnapshot(w) \/ RefreshProfiles(w) \/ Answer(w)
      PROVE  TypeOK'
  <2>1. /\ w \in Runners
        /\ Goto(w, "set") \/ \E j \in Jobs : job' = [job EXCEPT ![w] = j]
    BY <1>1, JobTypes DEF Snapshot, ForcedSnapshot, RefreshProfiles, Request, Answer, Runners, Calls
  <2>2. job' \in [Runners -> Jobs]
    BY <2>1, JobMoved, JobSet DEF Stages
  <2>3. fresh' \in [Windows -> SUBSET Known] /\ UNCHANGED worker
    BY <1>1 DEF Snapshot, ForcedSnapshot, RefreshProfiles, Request, Answer, TypeOK
  <2> QED
    BY <1>1, <2>2, <2>3, SameWorkers
       DEF Snapshot, ForcedSnapshot, RefreshProfiles, Request, Answer, TypeOK
<1>2. ASSUME NEW w \in Windows, StartBackground(w) PROVE TypeOK'
  <2>1. PICK b \in Backgrounds : job' = [job EXCEPT ![w] = Idle, ![b] = Started]
    BY <1>2 DEF StartBackground
  <2>2. job' \in [Runners -> Jobs]
    BY <2>1, JobStarted
  <2> QED
    BY <1>2, <2>2, SameWorkers DEF StartBackground, TypeOK
<1>3. ASSUME NEW w \in Windows, NEW p \in New, Add(w, p) PROVE TypeOK'
  <2>1. job' \in [Runners -> Jobs]
    BY <1>3, JobSet, JobTypes DEF Add, Runners
  <2> QED
    BY <1>3, <2>1, SameWorkers DEF Add, TypeOK, Profiles
<1>4. ASSUME NEW w \in Windows, CreateProfile(w) PROVE TypeOK'
  <2>1. w \in Runners /\ job[w].adds \in New /\ job[w].adds \in Profiles
    BY <1>4 DEF CreateProfile, Roles, Runners, Profiles
  <2>2. /\ worker' \in [Runners -> [Profiles -> WorkerStages]]
        /\ \A q \in Runners : Cardinality(Working(q)') <= MaxJobs
    BY <1>4, <2>1, WorkerMoved DEF CreateProfile, WorkerStages
  <2>3. job' \in [Runners -> Jobs]
    BY <1>4, <2>1, JobMoved DEF CreateProfile, Stages
  <2> QED
    BY <1>4, <2>1, <2>2, <2>3 DEF CreateProfile, TypeOK
<1>5. ASSUME NEW w \in Windows, AddFails(w) \/ Added(w) PROVE TypeOK'
  <2>1. w \in Runners
    BY DEF Runners
  <2>2. /\ worker' \in [Runners -> [Profiles -> WorkerStages]]
        /\ \A q \in Runners : Cardinality(Working(q)') <= MaxJobs
    BY <1>5, <2>1, WorkersReplaced, NoWorkersType DEF AddFails, Added
  <2>3. faults' \in 0..MaxFaults
    BY <1>5, BoundsAssumption DEF AddFails, Added, TypeOK
  <2>4. job' \in [Runners -> Jobs] /\ degraded' \in BOOLEAN
    BY <1>5, <2>1, JobSet, JobTypes DEF AddFails, Added, TypeOK
  <2> QED
    BY <1>5, <2>2, <2>3, <2>4 DEF AddFails, Added, TypeOK
<1>6. ASSUME NEW r \in Runners, Lock(r) PROVE TypeOK'
  <2>1. job' \in [Runners -> Jobs]
    BY <1>6, JobMoved DEF Lock, Stages
  <2> QED
    BY <1>6, <2>1, SameWorkers DEF Lock, TypeOK
<1>7. ASSUME NEW r \in Runners, List(r) PROVE TypeOK'
  <2> DEFINE f == [p \in Profiles |-> IF p \in Targets(r) THEN "wait" ELSE "none"]
  <2>1. f \in [Profiles -> WorkerStages] /\ \A p \in Profiles : f[p] # "work"
    BY DEF WorkerStages
  <2>2. worker' = [worker EXCEPT ![r] = f] \/ UNCHANGED worker
    BY <1>7 DEF List
  <2> HIDE DEF f
  <2>3. /\ worker' \in [Runners -> [Profiles -> WorkerStages]]
        /\ \A q \in Runners : Cardinality(Working(q)') <= MaxJobs
    BY <2>1, <2>2, WorkersReplaced, SameWorkers
  <2>4. /\ Ends(r, TRUE) \/ (Goto(r, "run") /\ UNCHANGED <<expired, fresh, degraded>>)
        /\ refreshing' \in {FALSE, refreshing} /\ holder' \in {Nobody, holder}
        /\ UNCHANGED <<profile, due, faults>>
    BY <1>7 DEF List, Unlock
  <2>5. /\ job' \in [Runners -> Jobs] /\ fresh' \in [Windows -> SUBSET Known]
        /\ expired' \subseteq expired /\ degraded' \in BOOLEAN
    BY <2>4, JobMoved, JobEnds DEF Stages, TypeOK
  <2> QED
    BY <2>3, <2>4, <2>5 DEF TypeOK
<1>8. ASSUME NEW r \in Runners, Reap(r) PROVE TypeOK'
  <2>1. /\ worker' \in [Runners -> [Profiles -> WorkerStages]]
        /\ \A q \in Runners : Cardinality(Working(q)') <= MaxJobs
    BY <1>8, WorkersReplaced, NoWorkersType DEF Reap
  <2>2. Failed(r) \in BOOLEAN
    BY DEF Failed
  <2>3. /\ job' \in [Runners -> Jobs] /\ fresh' \in [Windows -> SUBSET Known]
        /\ expired' \subseteq expired /\ degraded' \in BOOLEAN
    BY <1>8, <2>2, JobEnds DEF Reap
  <2> QED
    BY <1>8, <2>1, <2>3 DEF Reap, Unlock, TypeOK
<1>9. ASSUME NEW r \in Runners, NEW p \in Profiles, Take(r, p) PROVE TypeOK'
  <2>1. worker' \in [Runners -> [Profiles -> WorkerStages]]
    BY <1>9 DEF Take, WorkerTo, TypeOK, WorkerStages
  <2>2. Working(r)' = Working(r) \cup {p} /\ p \notin Working(r)
    BY <1>9 DEF Take, WorkerTo, Working, TypeOK
  <2>3. Cardinality(Working(r)') = Cardinality(Working(r)) + 1
    BY <2>2, WorkersFinite, FS_AddElement
  <2>4. Cardinality(Working(r)') <= MaxJobs
    BY <1>9, <2>3, WorkersFinite, BoundsAssumption DEF Take
  <2>5. ASSUME NEW q \in Runners, q # r PROVE Cardinality(Working(q)') <= MaxJobs
    <3>1. \A x \in Profiles : worker'[q][x] = worker[q][x]
      BY <1>9, <2>5 DEF Take, WorkerTo, TypeOK
    <3> QED
      BY <3>1, FewerWorkers
  <2> QED
    BY <1>9, <2>1, <2>4, <2>5 DEF Take, TypeOK
<1>10. ASSUME NEW r \in Runners, NEW p \in Profiles, GiveUp(r, p) \/ Save(r, p) \/ FileFails(r, p)
       PROVE  TypeOK'
  <2>1. /\ worker' \in [Runners -> [Profiles -> WorkerStages]]
        /\ \A q \in Runners : Cardinality(Working(q)') <= MaxJobs
    BY <1>10, WorkerMoved DEF GiveUp, Save, FileFails, WorkerStages
  <2>2. fresh' \in [Windows -> SUBSET Known]
    BY <1>10 DEF GiveUp, Save, FileFails, TypeOK
  <2>3. faults' \in 0..MaxFaults
    BY <1>10, BoundsAssumption DEF GiveUp, Save, FileFails, TypeOK
  <2> QED
    BY <1>10, <2>1, <2>2, <2>3 DEF GiveUp, Save, FileFails, TypeOK
<1>11. ASSUME NEW r \in Runners, Expire(r) PROVE TypeOK'
  <2>1. faults' \in 0..MaxFaults
    BY <1>11, BoundsAssumption DEF Expire, TypeOK
  <2> QED
    BY <1>11, <2>1, SameWorkers DEF Expire, TypeOK
<1>12. ASSUME NEW p \in Profiles, Ages(p) PROVE TypeOK'
  BY <1>12, SameWorkers DEF Ages, TypeOK
<1>13. CASE UNCHANGED vars
  BY <1>13, SameWorkers DEF vars, TypeOK
<1> QED
  BY <1>1, <1>2, <1>3, <1>4, <1>5, <1>6, <1>7, <1>8, <1>9, <1>10, <1>11, <1>12, <1>13
     DEF Next, Proceeds, Refreshing

(* The steps that leave the goroutines, and what has been saved, alone. *)
LEMMA WorkKept ==
    ASSUME IInv, NEW r \in Runners, NEW at \in Stages, Goto(r, at),
           UNCHANGED <<profile, worker, expired, fresh, degraded>>,
           job[r].at \notin {"run", "adding"}, at \notin {"run", "adding", "create", "answer"},
           r \in Backgrounds => at \in {"idle", "lock", "list", "run"}
    PROVE  Roles' /\ ForcedWork' /\ ForcedChecksAll'
<1>1. /\ job'[r].at = at /\ job'[r].call = job[r].call /\ job'[r].adds = job[r].adds
      /\ \A q \in Runners : q # r => job'[q] = job[q]
  BY JobMoved DEF IInv
<1>2. Roles'
  BY <1>1 DEF IInv, Roles, Runners
<1>3. ForcedWork' /\ ForcedChecksAll'
  BY <1>1 DEF IInv, ForcedWork, ForcedChecksAll, Runners
<1> QED
  BY <1>2, <1>3

(* The steps of one goroutine. *)
LEMMA GoroutineStep ==
    ASSUME IInv, NEW r \in Runners, NEW p \in Profiles, NEW at \in WorkerStages,
           WorkerTo(r, p, at), worker[r][p] \in {"wait", "work"}, at # "none",
           UNCHANGED <<profile, refreshing, holder, job, expired, degraded>>,
           fresh' \in [Windows -> SUBSET Known],
           \A w \in Windows : fresh[w] \subseteq fresh'[w],
           at = "done" /\ r \in Windows /\ job[r].at = "run"
              /\ job[r].call \in {"home", "all"} /\ p \in Known => p \in fresh'[r]
    PROVE  Roles' /\ Holding' /\ FlagMeansWork' /\ ForcedWork' /\ ForcedChecksAll'
<1>1. /\ worker'[r][p] = at
      /\ \A q \in Runners, x \in Profiles :
           <<q, x>> # <<r, p>> => worker'[q][x] = worker[q][x]
      /\ \A q \in Runners : q # r => worker'[q] = worker[q]
  BY DEF IInv, TypeOK, WorkerTo
<1>2. job[r].at \in {"run", "adding"}
  BY NoWorkersType DEF IInv, Roles
<1>3. Roles'
  BY <1>1, <1>2 DEF IInv, Roles
<1>4. Holding' /\ FlagMeansWork' /\ ForcedChecksAll'
  BY DEF IInv, Holding, FlagMeansWork, ForcedChecksAll
<1>5. ASSUME NEW w \in Windows, job[w].at = "run", job[w].call \in {"home", "all"}, NEW x \in Known
      PROVE  worker'[w][x] # "none" /\ (worker'[w][x] = "done" => x \in fresh'[w])
  <2>1. w \in Runners /\ x \in Profiles
    BY DEF Runners, Profiles
  <2>2. worker[w][x] # "none" /\ (worker[w][x] = "done" => x \in fresh[w])
    BY <1>5 DEF IInv, ForcedWork
  <2>3. CASE w = r /\ x = p
    BY <1>1, <1>5, <2>3
  <2>4. CASE w # r \/ x # p
    <3>1. worker'[w][x] = worker[w][x]
      BY <1>1, <2>1, <2>4
    <3> QED
      BY <2>2, <3>1
  <2> QED
    BY <2>3, <2>4
<1>6. ForcedWork'
  BY <1>5 DEF ForcedWork
<1> QED
  BY <1>3, <1>4, <1>6

LEMMA InvNext == IInv /\ [Next]_vars => IInv'
<1> SUFFICES ASSUME IInv, [Next]_vars 
             PROVE  Roles' /\ Holding' /\ FlagMeansWork' /\ ForcedWork' /\ ForcedChecksAll'
  BY TypeNext DEF IInv
<1> DEFINE Goal == Roles' /\ Holding' /\ FlagMeansWork' /\ ForcedWork' /\ ForcedChecksAll'
<1> USE DEF files, flags, work
<1>1. ASSUME NEW w \in Windows, Snapshot(w) PROVE Goal
  <2>1. /\ w \in Runners /\ w \notin Backgrounds /\ job[w].at = "idle" /\ Goto(w, "set")
        /\ UNCHANGED <<profile, refreshing, holder, worker, expired, fresh, degraded>>
    BY <1>1, RunnersAssumption DEF Snapshot, Runners
  <2>2. Roles' /\ ForcedWork' /\ ForcedChecksAll'
    BY <2>1, WorkKept DEF Stages
  <2>3. job'[w].at = "set" /\ \A q \in Runners : q # w => job'[q] = job[q]
    BY <2>1, JobMoved DEF IInv, Stages
  <2>4. Holding' /\ FlagMeansWork'
    BY <2>1, <2>3 DEF IInv, Holding, FlagMeansWork, Runners
  <2> QED
    BY <2>2, <2>4
<1>0. ASSUME NEW w \in Windows, ForcedSnapshot(w) \/ RefreshProfiles(w) PROVE Goal
  <2>1. PICK call \in Calls : Request(w, call)
    BY <1>0 DEF ForcedSnapshot, RefreshProfiles, Calls
  <2>2. /\ w \in Runners /\ w \notin Backgrounds /\ job[w].at = "idle"
        /\ UNCHANGED <<profile, refreshing, holder, worker, expired, fresh, degraded>>
    BY <2>1, RunnersAssumption DEF Request, Runners
  <2>3. job'[w].at = "lock" /\ \A q \in Runners : q # w => job'[q] = job[q]
    BY <2>1, <2>2, JobSet, JobTypes DEF Request, IInv
  <2>4. Roles'
    BY <2>2, <2>3 DEF IInv, Roles, Runners
  <2>5. Holding' /\ FlagMeansWork'
    BY <2>2, <2>3 DEF IInv, Holding, FlagMeansWork, Runners
  <2>6. ForcedWork' /\ ForcedChecksAll'
    BY <2>2, <2>3 DEF IInv, ForcedWork, ForcedChecksAll, Runners
  <2> QED
    BY <2>4, <2>5, <2>6
<1>2. ASSUME NEW w \in Windows, Answer(w) PROVE Goal
  <2>1. /\ w \in Runners /\ w \notin Backgrounds /\ job[w].at = "answer"
        /\ UNCHANGED <<profile, refreshing, holder, worker, expired, degraded>>
        /\ \A v \in Windows : v # w => fresh'[v] = fresh[v]
    BY <1>2, RunnersAssumption DEF Answer, Runners, IInv, TypeOK
  <2>2. job'[w].at = "idle" /\ \A q \in Runners : q # w => job'[q] = job[q]
    BY <1>2, <2>1, JobSet, JobTypes DEF Answer, IInv
  <2>3. Roles'
    BY <2>1, <2>2 DEF IInv, Roles, Runners
  <2>4. Holding' /\ FlagMeansWork'
    BY <2>1, <2>2 DEF IInv, Holding, FlagMeansWork, Runners
  <2>5. ForcedWork' /\ ForcedChecksAll'
    BY <2>1, <2>2 DEF IInv, ForcedWork, ForcedChecksAll, Runners
  <2> QED
    BY <2>3, <2>4, <2>5
<1>3. ASSUME NEW w \in Windows, StartBackground(w) PROVE Goal
  <2>1. PICK b \in Backgrounds :
            job[b].at = "idle" /\ job' = [job EXCEPT ![w] = Idle, ![b] = Started]
    BY <1>3 DEF StartBackground
  <2>2. /\ job'[w].at = "idle" /\ job'[b].at = "lock" /\ job'[b].call = "background"
        /\ \A q \in Runners : q \notin {w, b} => job'[q] = job[q]
    BY <2>1, JobStarted, JobTypes DEF IInv
  <2>3. /\ w \in Runners /\ b \in Runners /\ b \notin Windows /\ w \notin Backgrounds
        /\ job[w].at = "set"
        /\ UNCHANGED <<profile, holder, worker, expired, fresh, degraded>>
    BY <1>3, RunnersAssumption DEF StartBackground, Runners
  <2>4. Roles'
    BY <2>1, <2>2, <2>3 DEF IInv, Roles, Runners
  <2>5. Holding'
    BY <2>1, <2>2, <2>3 DEF IInv, Holding
  <2>6. FlagMeansWork'
    BY <2>2 DEF FlagMeansWork
  <2>7. ForcedWork' /\ ForcedChecksAll'
    BY <2>1, <2>2, <2>3 DEF IInv, ForcedWork, ForcedChecksAll, Runners
  <2> QED
    BY <2>4, <2>5, <2>6, <2>7
<1>4. ASSUME NEW w \in Windows, NEW p \in New, Add(w, p) PROVE Goal
  <2>1. /\ w \in Runners /\ w \notin Backgrounds /\ job[w].at = "idle" /\ p \notin Known
        /\ UNCHANGED <<refreshing, holder, worker, expired, fresh, degraded>>
        /\ \A x \in Known : profile'[x] = profile[x]
    BY <1>4, RunnersAssumption DEF Add, Runners, IInv, TypeOK, Profiles
  <2>2. /\ job'[w].at = "create" /\ job'[w].adds = p
        /\ \A q \in Runners : q # w => job'[q] = job[q]
    BY <1>4, <2>1 DEF Add, IInv, TypeOK
  <2>3. Roles'
    BY <2>1, <2>2 DEF IInv, Roles, Runners
  <2>4. Holding' /\ FlagMeansWork'
    BY <2>1, <2>2 DEF IInv, Holding, FlagMeansWork, Runners
  <2>5. ForcedWork' /\ ForcedChecksAll'
    BY <2>1, <2>2 DEF IInv, ForcedWork, ForcedChecksAll, Runners
  <2> QED
    BY <2>3, <2>4, <2>5
<1>5. ASSUME NEW w \in Windows, CreateProfile(w) PROVE Goal
  <2>1. /\ w \in Runners /\ w \notin Backgrounds /\ job[w].at = "create"
        /\ job[w].adds \in New /\ job[w].adds \in Profiles
        /\ UNCHANGED <<refreshing, holder, expired, fresh, degraded>>
        /\ \A x \in Known : profile'[x] = profile[x]
    BY <1>5, RunnersAssumption DEF CreateProfile, Runners, IInv, Roles, TypeOK, Profiles
  <2>2. /\ job'[w].at = "adding" /\ job'[w].adds = job[w].adds
        /\ \A q \in Runners : q # w => job'[q] = job[q]
    BY <1>5, <2>1, JobMoved DEF CreateProfile, IInv, Stages
  <2>3. \A q \in Runners : q # w => worker'[q] = worker[q]
    BY <1>5 DEF CreateProfile, WorkerTo, IInv, TypeOK
  <2>4. Roles'
    BY <2>1, <2>2, <2>3 DEF IInv, Roles, Runners
  <2>5. Holding' /\ FlagMeansWork'
    BY <2>1, <2>2 DEF IInv, Holding, FlagMeansWork, Runners
  <2>6. ForcedWork' /\ ForcedChecksAll'
    BY <2>1, <2>2, <2>3 DEF IInv, ForcedWork, ForcedChecksAll, Runners
  <2> QED
    BY <2>4, <2>5, <2>6
<1>6. ASSUME NEW w \in Windows, AddFails(w) \/ Added(w) PROVE Goal
  <2>1. /\ w \in Runners /\ w \notin Backgrounds /\ job[w].at \in {"create", "adding"}
        /\ UNCHANGED <<profile, refreshing, holder, fresh>>
        /\ expired' = expired \ {w}
    BY <1>6, RunnersAssumption DEF AddFails, Added, Runners
  <2>0. degraded => degraded'
    BY <1>6 DEF AddFails, Added
  <2>2. job'[w].at = "idle" /\ \A q \in Runners : q # w => job'[q] = job[q]
    BY <1>6, <2>1, JobSet, JobTypes DEF AddFails, Added, IInv
  <2>3. worker'[w] = NoWorkers /\ \A q \in Runners : q # w => worker'[q] = worker[q]
    BY <1>6, <2>1 DEF AddFails, Added, IInv, TypeOK
  <2>4. Roles'
    BY <2>1, <2>2, <2>3 DEF IInv, Roles, Runners
  <2>5. Holding' /\ FlagMeansWork'
    BY <2>1, <2>2 DEF IInv, Holding, FlagMeansWork, Runners
  <2>6. ForcedWork' /\ ForcedChecksAll'
    BY <2>0, <2>1, <2>2, <2>3 DEF IInv, ForcedWork, ForcedChecksAll, Runners
  <2> QED
    BY <2>4, <2>5, <2>6
<1>7. ASSUME NEW r \in Runners, Lock(r) PROVE Goal
  <2>1. /\ job[r].at = "lock" /\ Goto(r, "list") /\ holder = Nobody /\ holder' = r
        /\ UNCHANGED <<profile, worker, expired, fresh, degraded>>
    BY <1>7 DEF Lock
  <2>2. Roles' /\ ForcedWork' /\ ForcedChecksAll'
    BY <2>1, WorkKept DEF Stages
  <2>3. job'[r].at = "list" /\ \A q \in Runners : q # r => job'[q] = job[q]
    BY <2>1, JobMoved DEF IInv, Stages
  <2>4. Holding'
    BY <2>1, <2>3, RunnersAssumption DEF IInv, Holding
  <2>5. FlagMeansWork'
    BY <2>3 DEF FlagMeansWork, Runners
  <2> QED
    BY <2>2, <2>4, <2>5
<1>8. ASSUME NEW r \in Runners, List(r), Unlistable PROVE Goal
  <2>1. /\ job[r].at = "list" /\ Ends(r, TRUE) /\ refreshing' = FALSE /\ holder' = Nobody
        /\ UNCHANGED <<profile, worker>>
    BY <1>8 DEF List, Unlock
  <2>2. /\ \A q \in Runners : q # r => job'[q] = job[q]
        /\ \A w \in Windows : w # r => fresh'[w] = fresh[w]
        /\ expired' = expired \ {r} /\ (degraded => degraded')
        /\ \/ job'[r].at = "idle" /\ job'[r].call = "none"
           \/ job'[r].at = "answer" /\ job'[r].call = "home" /\ job[r].call = "home" /\ degraded'
    BY <2>1, JobEnds, JobTypes DEF IInv
  <2>3. r \in Backgrounds => job'[r].at = "idle" /\ job'[r].call = "none"
    BY <2>2 DEF IInv, Roles
  <2>4. Roles'
    BY <2>1, <2>2, <2>3 DEF IInv, Roles, Runners
  <2>5. Holding' /\ FlagMeansWork'
    BY <2>1, <2>2, RunnersAssumption DEF IInv, Holding, FlagMeansWork
  <2>6. ForcedWork' /\ ForcedChecksAll'
    BY <2>1, <2>2 DEF IInv, ForcedWork, ForcedChecksAll, Runners
  <2> QED
    BY <2>4, <2>5, <2>6
<1>9. ASSUME NEW r \in Runners, List(r), ~Unlistable PROVE Goal
  <2> DEFINE started == [p \in Profiles |-> IF p \in Targets(r) THEN "wait" ELSE "none"]
  <2>1. /\ job[r].at = "list" /\ Goto(r, "run") /\ worker' = [worker EXCEPT ![r] = started]
        /\ UNCHANGED <<profile, refreshing, holder, expired, fresh, degraded>>
    BY <1>9 DEF List
  <2>2. job[r].call \in {"home", "all"} => \A p \in Known : started[p] = "wait"
    BY DEF IInv, Roles, Listed, Profiles, Targets
  <2> HIDE DEF started
  <2>3. /\ job'[r].at = "run" /\ job'[r].call = job[r].call
        /\ \A q \in Runners : q # r => job'[q] = job[q]
    BY <2>1, JobMoved DEF IInv, Stages
  <2>4. worker'[r] = started /\ \A q \in Runners : q # r => worker'[q] = worker[q]
    BY <2>1 DEF IInv, TypeOK
  <2>5. Roles'
    BY <2>1, <2>3, <2>4 DEF IInv, Roles, Runners
  <2>6. Holding' /\ FlagMeansWork'
    BY <2>1, <2>3 DEF IInv, Holding, FlagMeansWork, Runners
  <2>7. ForcedWork' /\ ForcedChecksAll'
    BY <2>1, <2>2, <2>3, <2>4 DEF IInv, ForcedWork, ForcedChecksAll, Runners
  <2> QED
    BY <2>5, <2>6, <2>7
<1>10. ASSUME NEW r \in Runners, Reap(r) PROVE Goal
  <2>1. /\ job[r].at = "run" /\ Over(r) /\ Ends(r, Failed(r)) /\ Failed(r) \in BOOLEAN
        /\ refreshing' = FALSE /\ holder' = Nobody
        /\ worker' = [worker EXCEPT ![r] = NoWorkers]
        /\ UNCHANGED profile
    BY <1>10 DEF Reap, Unlock, Failed
  <2>2. /\ \A q \in Runners : q # r => job'[q] = job[q]
        /\ \A w \in Windows : w # r => fresh'[w] = fresh[w]
        /\ expired' = expired \ {r} /\ (degraded => degraded')
        /\ \/ job'[r].at = "idle" /\ job'[r].call = "none"
           \/ /\ job'[r].at = "answer" /\ job'[r].call = job[r].call /\ fresh' = fresh
              /\ job[r].call \in {"home", "all", "due"}
              /\ Failed(r) => job[r].call = "home" /\ degraded'
    BY <2>1, JobEnds, JobTypes DEF IInv
  <2>3. worker'[r] = NoWorkers /\ \A q \in Runners : q # r => worker'[q] = worker[q]
    BY <2>1 DEF IInv, TypeOK
  <2>4. r \in Backgrounds => job'[r].at = "idle" /\ job'[r].call = "none"
    BY <2>2 DEF IInv, Roles
  <2>5. Roles'
    BY <2>1, <2>2, <2>3, <2>4 DEF IInv, Roles, Runners
  <2>6. Holding' /\ FlagMeansWork'
    BY <2>1, <2>2, RunnersAssumption DEF IInv, Holding, FlagMeansWork
  <2>7. ForcedWork'
    BY <2>2, <2>3 DEF IInv, ForcedWork, Runners
  <2>8. ASSUME r \in Windows, job'[r].at = "answer",
               job'[r].call = "all" \/ (job'[r].call = "home" /\ ~degraded')
        PROVE  Known \subseteq fresh'[r]
    <3>1. ~Failed(r) /\ fresh' = fresh /\ job[r].call \in {"home", "all"}
      BY <2>2, <2>8
    <3>2. \A p \in Profiles : worker[r][p] \in {"none", "done"}
      BY <2>1, <3>1 DEF Over, Failed
    <3> QED
      BY <2>1, <2>8, <3>1, <3>2 DEF IInv, ForcedWork, Profiles
  <2>9. ForcedChecksAll'
    BY <2>2, <2>8 DEF IInv, ForcedChecksAll, Runners
  <2> QED
    BY <2>5, <2>6, <2>7, <2>9
<1>11. ASSUME NEW r \in Runners, NEW p \in Profiles, Take(r, p) PROVE Goal
  BY <1>11, GoroutineStep DEF Take, WorkerStages, IInv, TypeOK
<1>12. ASSUME NEW r \in Runners, NEW p \in Profiles, GiveUp(r, p) PROVE Goal
  <2>1. r \in Windows => job[r].at = "adding"
    BY <1>12 DEF GiveUp, IInv, Roles
  <2> QED
    BY <1>12, <2>1, GoroutineStep DEF GiveUp, WorkerStages, IInv, TypeOK
<1>13. ASSUME NEW r \in Runners, NEW p \in Profiles, FileFails(r, p) PROVE Goal
  BY <1>13, GoroutineStep DEF FileFails, WorkerStages, IInv, TypeOK
<1>14. ASSUME NEW r \in Runners, NEW p \in Profiles, Save(r, p) PROVE Goal
  <2>1. /\ fresh' \in [Windows -> SUBSET Known]
        /\ \A w \in Windows : fresh[w] \subseteq fresh'[w]
        /\ r \in Windows /\ job[r].at = "run" /\ job[r].call \in {"home", "all"}
             /\ p \in Known => p \in fresh'[r]
    BY <1>14 DEF Save, Forcing, IInv, TypeOK
  <2> QED
    BY <1>14, <2>1, GoroutineStep DEF Save, WorkerStages
<1>15. ASSUME NEW r \in Runners, Expire(r) PROVE Goal
  <2>1. /\ UNCHANGED <<profile, refreshing, holder, job, worker, fresh, degraded>>
        /\ r \in Windows => job[r].at = "adding"
        /\ expired' = expired \cup {r}
    BY <1>15, RunnersAssumption DEF Expire
  <2> QED
    BY <2>1 DEF IInv, Roles, Holding, FlagMeansWork, ForcedWork, ForcedChecksAll
<1>16. ASSUME NEW p \in Profiles, Ages(p) PROVE Goal
  BY <1>16 DEF Ages, IInv, Roles, Holding, FlagMeansWork, ForcedWork, ForcedChecksAll
<1>17. CASE UNCHANGED vars
  BY <1>17 DEF vars, IInv, Roles, Holding, FlagMeansWork, ForcedWork, ForcedChecksAll
<1> QED
  BY <1>0, <1>1, <1>2, <1>3, <1>4, <1>5, <1>6, <1>7, <1>8, <1>9, <1>10, <1>11, <1>12, <1>13,
     <1>14, <1>15, <1>16, <1>17 DEF Next, Proceeds, Refreshing

LEMMA Invariant == Spec => []IInv
BY InvInit, InvNext, PTL DEF Spec

--------------------------------------------------------------------------------
(* Types, and the bound on the requests under way (maxProfileRefreshJobs). *)
THEOREM TypeCorrect == Spec => []TypeOK
BY Invariant, PTL DEF IInv

(* A profile is refreshed by one goroutine at a time, profile.add's aside
   (runProfileRefresh, lockRefresh). *)
THEOREM RefreshesExclude == Spec => []OneRefreshAtATime
<1>1. IInv => OneRefreshAtATime
  <2> SUFFICES ASSUME IInv, NEW q \in Runners, NEW r \in Runners, q # r,
                      NEW p \in Profiles, worker[q][p] = "work", worker[r][p] = "work"
               PROVE  "adding" \in {job[q].at, job[r].at}
    BY DEF OneRefreshAtATime, Working
  <2>1. job[q].at \in {"run", "adding"} /\ job[r].at \in {"run", "adding"}
    BY NoWorkersType DEF IInv, Roles
  <2> QED
    BY <2>1 DEF IInv, Holding
<1> QED
  BY <1>1, Invariant, PTL

(* The flag that keeps background refreshes from starting is set only while a
   refresh that clears it is under way (startBackgroundRefresh,
   runProfileRefresh). *)
THEOREM FlagCleared == Spec => []FlagMeansWork
BY Invariant, PTL DEF IInv

(* A forced profiles.refresh that returns no error, and a forced snapshot whose
   response has no degraded reason, have checked every profile
   (refreshProfileStatuses with its error channel, homeSnapshot, setDegraded). *)
THEOREM ForcedRefreshComplete == Spec => []ForcedChecksAll
BY Invariant, PTL DEF IInv
================================================================================
