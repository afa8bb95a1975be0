----------------------------- MODULE StatusRefresh -----------------------------
(***************************************************************************)
(* How the broker keeps the status of each profile fresh (internal/broker/ *)
(* service.go: homeSnapshot, profile.add and the refresh functions).       *)
(* Every home.snapshot may start a background refresh of the profiles that *)
(* are due, a forced snapshot refreshes all of them before it answers,     *)
(* profiles.refresh all of them or those that are due, and profile.add     *)
(* refreshes the profile it has made.  A refresh that fails is an error of *)
(* profiles.refresh; of the others it leaves a degraded reason, which a    *)
(* snapshot carries from then on.                                          *)
(* Refreshes take turns on refreshRunMu; the flag "refreshing", which      *)
(* keeps snapshots from starting another one, is read and written by all   *)
(* handlers without a lock.  profile.add's refresh takes neither.          *)
(***************************************************************************)
EXTENDS FiniteSets, Integers

CONSTANTS
    Known,        \* profiles that are there from the start
    New,          \* profiles that may be added
    Windows,      \* IPC connections: each has one request under way
    Callers,      \* the connections that call profiles.refresh (home windows do not)
    Backgrounds,  \* bound: background refreshes there are at once
    Nobody,
    MaxJobs,      \* maxProfileRefreshJobs
    MaxFaults     \* bound: contexts that expire and files that cannot be used

Profiles == Known \cup New
Runners == Windows \cup Backgrounds

ASSUME RunnersAssumption ==
    /\ Windows \cap Backgrounds = {} /\ Nobody \notin Runners
    /\ Callers \subseteq Windows /\ Known \cap New = {}
ASSUME BoundsAssumption ==
    /\ IsFiniteSet(Profiles)
    /\ MaxJobs \in Nat \ {0} /\ MaxFaults \in Nat

VARIABLES
    profile,      \* profile -> "none", "half" (a directory without profile.json) or "listed"
    due,          \* profiles shouldRefreshProfile says yes to, once they are listed
    refreshing,   \* the flag
    holder,       \* who has refreshRunMu, or Nobody
    job,          \* runner -> what its request or goroutine is, and where
    worker,       \* runner -> profile -> where the goroutine refreshing it is
    expired,      \* runners whose context is over
    faults,       \* faults so far
    fresh,        \* window -> known profiles saved since it asked for all of them
    degraded      \* there is a degradedReason

vars == <<profile, due, refreshing, holder, job, worker, expired, faults, fresh, degraded>>

(* A request: "set" (startBackgroundRefresh), "lock", "list" and "run"
   (runProfileRefresh), "answer" (what follows a refresh), "create" and
   "adding" (profile.add). *)
Stages == {"idle", "set", "lock", "list", "run", "answer", "create", "adding"}

(* Who refreshes: a forced home.snapshot, profiles.refresh of all profiles and
   of those that are due, a background refresh. *)
Calls == {"none", "home", "all", "due", "background"}

Idle == [at |-> "idle", call |-> "none", adds |-> Nobody]

(* A goroutine: waiting for the semaphore (in profile.add, for state.json and
   the first profile's app-server), between its load and its save of
   profile.json, or over; "error" has put something into errCh. *)
WorkerStages == {"none", "wait", "work", "done", "error"}

Working(r) == {p \in Profiles : worker[r][p] = "work"}
NoWorkers == [p \in Profiles |-> "none"]

Listed == {p \in Profiles : profile[p] = "listed"}

(* ListProfiles fails as soon as one directory has no profile.json. *)
Unlistable == \E p \in Profiles : profile[p] = "half"

Init ==
    /\ profile = [p \in Profiles |-> IF p \in Known THEN "listed" ELSE "none"]
    /\ due = New
    /\ refreshing = FALSE
    /\ holder = Nobody
    /\ job = [r \in Runners |-> Idle]
    /\ worker = [r \in Runners |-> NoWorkers]
    /\ expired = {}
    /\ faults = 0
    /\ fresh = [w \in Windows |-> {}]
    /\ degraded \in BOOLEAN    \* the startup may have failed
--------------------------------------------------------------------------------
Goto(r, at) == job' = [job EXCEPT ![r].at = at]

files == <<profile, due>>
flags == <<refreshing, holder>>
work == <<worker, expired, fresh, degraded>>

(* home.snapshot: a background refresh is due, unless the flag is set or the
   profiles cannot be listed.  startBackgroundRefresh looks at the flag once
   more, which without a lock makes the reading no newer. *)
Snapshot(w) ==
    /\ job[w].at = "idle"
    /\ ~refreshing /\ ~Unlistable /\ Listed \cap due # {}
    /\ Goto(w, "set")
    /\ UNCHANGED <<files, flags, work, faults>>

Started == [at |-> "lock", call |-> "background", adds |-> Nobody]

StartBackground(w) ==
    /\ job[w].at = "set"
    /\ refreshing' = TRUE
    /\ \E b \in Backgrounds :
         /\ job[b].at = "idle"
         /\ job' = [job EXCEPT ![w] = Idle, ![b] = Started]
    /\ UNCHANGED <<files, holder, work, faults>>

Request(w, call) ==
    /\ job[w].at = "idle"
    /\ job' = [job EXCEPT ![w] = [at |-> "lock", call |-> call, adds |-> Nobody]]
    /\ UNCHANGED <<files, flags, work, faults>>

(* home.snapshot with ForceRefresh *)
ForcedSnapshot(w) == Request(w, "home")

(* profiles.refresh, with ForceRefresh or without *)
RefreshProfiles(w) == w \in Callers /\ (Request(w, "all") \/ Request(w, "due"))

(* The snapshot reads the profiles and the degraded reason, and is an error
   after all if the profiles cannot be listed; profiles.refresh has nothing to
   say. *)
Answer(w) ==
    /\ job[w].at = "answer"
    /\ job' = [job EXCEPT ![w] = Idle]
    /\ fresh' = [fresh EXCEPT ![w] = {}]
    /\ UNCHANGED <<files, flags, worker, expired, degraded, faults>>
--------------------------------------------------------------------------------
(* runProfileRefresh *)

(* A refresh that does not wait for the one under way. *)
LockAtOnce(r) ==
    /\ job[r].at = "lock"
    /\ holder' = r
    /\ refreshing' = (refreshing \/ r \in Windows)
    /\ Goto(r, "list")
    /\ UNCHANGED <<files, work, faults>>

(* A background refresh was marked when it was started; the flag may have been
   cleared since by the refresh before it. *)
Lock(r) ==
    /\ job[r].at = "lock" /\ holder = Nobody
    /\ holder' = r
    /\ refreshing' = (refreshing \/ r \in Windows)
    /\ Goto(r, "list")
    /\ UNCHANGED <<files, work, faults>>

Unlock == refreshing' = FALSE /\ holder' = Nobody

(* The refresh is over, with an error or without: a forced snapshot goes on to
   its answer even so, and leaves the error as the degraded reason, like a
   background refresh; profiles.refresh returns it. *)
Answers(r, error) ==
    job[r].call = "home" \/ (job[r].call \in {"all", "due"} /\ ~error)

Leaves(r, error) ==
    /\ IF Answers(r, error) THEN Goto(r, "answer") ELSE job' = [job EXCEPT ![r] = Idle]
    /\ fresh' = IF Answers(r, error) \/ r \notin Windows THEN fresh
                ELSE [fresh EXCEPT ![r] = {}]
    /\ expired' = expired \ {r}

(* An error that nobody is told of. *)
EndsSilently(r, error) == Leaves(r, error) /\ UNCHANGED degraded

Ends(r, error) ==
    /\ Leaves(r, error)
    /\ degraded' = (degraded \/ (error /\ job[r].call \in {"home", "background"}))

(* refreshProfileStatuses: one goroutine for each profile that is due, or for
   each profile there is. *)
Targets(r) == IF job[r].call \in {"home", "all"} THEN Listed ELSE Listed \cap due

List(r) ==
    /\ job[r].at = "list"
    /\ IF Unlistable
       THEN Ends(r, TRUE) /\ Unlock /\ UNCHANGED worker
       ELSE /\ worker' = [worker EXCEPT ![r] =
                 [p \in Profiles |-> IF p \in Targets(r) THEN "wait" ELSE "none"]]
            /\ Goto(r, "run") /\ UNCHANGED <<flags, expired, fresh, degraded>>
    /\ UNCHANGED <<files, faults>>

Over(r) == \A p \in Profiles : worker[r][p] \in {"none", "done", "error"}
Failed(r) == \E p \in Profiles : worker[r][p] = "error"

(* A refresh that returns its error before it clears the flag. *)
ReapKeepingFlag(r) ==
    /\ job[r].at = "run" /\ Over(r)
    /\ holder' = Nobody
    /\ refreshing' = (refreshing /\ Failed(r))
    /\ Ends(r, Failed(r))
    /\ worker' = [worker EXCEPT ![r] = NoWorkers]
    /\ UNCHANGED <<files, faults>>

(* Every goroutine has reported; flag and lock are released. *)
Reap(r) ==
    /\ job[r].at = "run" /\ Over(r)
    /\ Unlock
    /\ Ends(r, Failed(r))
    /\ worker' = [worker EXCEPT ![r] = NoWorkers]
    /\ UNCHANGED <<files, faults>>
--------------------------------------------------------------------------------
(* refreshProfileStatus, one goroutine for each profile *)

WorkerTo(r, p, at) == worker' = [worker EXCEPT ![r][p] = at]

(* A goroutine that does not wait for the semaphore. *)
TakeFreely(r, p) ==
    /\ worker[r][p] = "wait"
    /\ WorkerTo(r, p, "work")
    /\ UNCHANGED <<files, flags, job, expired, fresh, degraded, faults>>

Take(r, p) ==
    /\ worker[r][p] = "wait" /\ Cardinality(Working(r)) < MaxJobs
    /\ WorkerTo(r, p, "work")
    /\ UNCHANGED <<files, flags, job, expired, fresh, degraded, faults>>

(* <-ctx.Done(): the profile is not looked at. *)
GiveUp(r, p) ==
    /\ worker[r][p] = "wait" /\ r \in expired
    /\ WorkerTo(r, p, "done")
    /\ UNCHANGED <<files, flags, job, expired, fresh, degraded, faults>>

(* A file that cannot be read or replaced. *)
FileFails(r, p) ==
    /\ worker[r][p] = "work" /\ faults < MaxFaults
    /\ WorkerTo(r, p, "error")
    /\ faults' = faults + 1
    /\ UNCHANGED <<files, flags, job, expired, fresh, degraded>>

Forcing(w) == job[w].call \in {"home", "all"} /\ job[w].at # "answer"

(* RefreshProfileUsage has answered, with refreshed tokens written to the vault
   on the way or not, and the profile is saved with its usage or its error,
   which an expired context is as well.  LastCheckedAt is now. *)
Save(r, p) ==
    /\ worker[r][p] = "work"
    /\ due' = due \ {p}
    /\ fresh' = [w \in Windows |-> IF Forcing(w) THEN fresh[w] \cup ({p} \cap Known) ELSE fresh[w]]
    /\ WorkerTo(r, p, "done")
    /\ UNCHANGED <<profile, flags, job, expired, degraded, faults>>
--------------------------------------------------------------------------------
(* profile.add, of a profile without profile.json *)

(* SaveProfileAuthFrom makes the directory. *)
Add(w, p) ==
    /\ job[w].at = "idle" /\ profile[p] # "listed"
    /\ profile' = [profile EXCEPT ![p] = "half"]
    /\ job' = [job EXCEPT ![w] = [at |-> "create", call |-> "none", adds |-> p]]
    /\ UNCHANGED <<due, flags, work, faults>>

(* SaveProfile: a profile that has never been checked.  Then it is written to
   state.json, and its status is refreshed. *)
CreateProfile(w) ==
    /\ job[w].at = "create"
    /\ profile' = [profile EXCEPT ![job[w].adds] = "listed"]
    /\ due' = due \cup {job[w].adds}
    /\ Goto(w, "adding")
    /\ WorkerTo(w, job[w].adds, "wait")
    /\ UNCHANGED <<flags, expired, fresh, degraded, faults>>

(* Any step before the refresh may fail and end the request: what is on disk
   stays. *)
AddFails(w) ==
    /\ job[w].at = "create" \/ (job[w].at = "adding" /\ worker[w][job[w].adds] = "wait")
    /\ faults < MaxFaults
    /\ job' = [job EXCEPT ![w] = Idle]
    /\ worker' = [worker EXCEPT ![w] = NoWorkers]
    /\ expired' = expired \ {w}
    /\ faults' = faults + 1
    /\ UNCHANGED <<files, flags, fresh, degraded>>

(* The refresh of the new profile is over; its error is both returned and kept
   as the degraded reason. *)
Added(w) ==
    /\ job[w].at = "adding" /\ Over(w)
    /\ job' = [job EXCEPT ![w] = Idle]
    /\ worker' = [worker EXCEPT ![w] = NoWorkers]
    /\ expired' = expired \ {w}
    /\ degraded' = (degraded \/ Failed(w))
    /\ UNCHANGED <<files, flags, fresh, faults>>
--------------------------------------------------------------------------------
(* Time *)

(* The last check of a profile is too old. *)
Ages(p) ==
    /\ profile[p] = "listed" /\ p \notin due
    /\ due' = due \cup {p}
    /\ UNCHANGED <<profile, flags, job, work, faults>>

(* 20 seconds after a background refresh was started, lock or no lock, or 12
   after profile.add's; a forced one has the connection's context. *)
Expire(r) ==
    /\ \/ r \in Backgrounds /\ job[r].at \in {"lock", "list", "run"}
       \/ job[r].at = "adding" /\ Working(r) # {}
    /\ r \notin expired /\ faults < MaxFaults
    /\ expired' = expired \cup {r}
    /\ faults' = faults + 1
    /\ UNCHANGED <<files, flags, job, worker, fresh, degraded>>
--------------------------------------------------------------------------------
Refreshing(r, p) == Take(r, p) \/ GiveUp(r, p) \/ Save(r, p)

(* What a request or a goroutine does by itself once it is under way. *)
Proceeds(r) ==
    \/ r \in Windows /\ (StartBackground(r) \/ Answer(r) \/ CreateProfile(r) \/ Added(r))
    \/ Lock(r) \/ List(r) \/ Reap(r)
    \/ \E p \in Profiles : Refreshing(r, p)

Next ==
    \/ \E w \in Windows : Snapshot(w) \/ ForcedSnapshot(w) \/ RefreshProfiles(w) \/ AddFails(w)
    \/ \E w \in Windows, p \in New : Add(w, p)
    \/ \E r \in Runners : Proceeds(r) \/ Expire(r)
    \/ \E r \in Runners, p \in Profiles : FileFails(r, p)
    \/ \E p \in Profiles : Ages(p)

Spec == Init /\ [][Next]_vars

(* Home screens poll; handlers and goroutines run, and a background refresh
   that waits on the channel that is a lock gets its turn (Go serves its
   senders in order; that forced ones get theirs is not needed); requests to
   the usage service end by their own timeouts. *)
Fairness ==
    /\ \A w \in Windows : WF_vars(Snapshot(w)) /\ WF_vars(Proceeds(w))
    /\ \A b \in Backgrounds : SF_vars(Proceeds(b))

FairSpec == Spec /\ Fairness
--------------------------------------------------------------------------------
Jobs == [at : Stages, call : Calls, adds : New \cup {Nobody}]

(* Types, and a refresh has at most MaxJobs requests to the usage service
   under way. *)
TypeOK ==
    /\ profile \in [Profiles -> {"none", "half", "listed"}]
    /\ due \subseteq Profiles
    /\ refreshing \in BOOLEAN
    /\ holder \in Runners \cup {Nobody}
    /\ job \in [Runners -> Jobs]
    /\ worker \in [Runners -> [Profiles -> WorkerStages]]
    /\ \A r \in Runners : Cardinality(Working(r)) <= MaxJobs
    /\ expired \subseteq Runners
    /\ faults \in 0..MaxFaults
    /\ fresh \in [Windows -> SUBSET Known]
    /\ degraded \in BOOLEAN

(* A profile is refreshed by one goroutine at a time, or its rotating refresh
   token is used twice and the loser saves "auth failed" over the winner's
   status: two background refreshes that both saw the flag cleared, and forced
   ones, wait for each other.  Only profile.add does not. *)
OneRefreshAtATime ==
    \A q, r \in Runners : q # r /\ Working(q) \cap Working(r) # {} =>
        "adding" \in {job[q].at, job[r].at}

(* The flag is set only while a refresh that will clear it is under way: it
   cannot stay behind and keep every later background refresh from starting,
   whatever order refreshes set and clear it in. *)
FlagMeansWork ==
    refreshing =>
        \/ \E b \in Backgrounds : job[b].at \in {"lock", "list", "run"}
        \/ \E w \in Windows : job[w].at \in {"list", "run"}

(* profiles.refresh with ForceRefresh that returns without an error has had the
   status of every profile saved since it was asked for, and so has a forced
   snapshot, which swallows the error of its refresh, when its response has no
   degraded reason: old numbers never pass for a complete refresh. *)
ForcedChecksAll ==
    \A w \in Windows :
        /\ job[w].at = "answer"
        /\ job[w].call = "all" \/ (job[w].call = "home" /\ ~degraded)
        => Known \subseteq fresh[w]

(* A profile that is due is checked in the end, through expired contexts and
   failing files, unless a half-made profile directory blocks all of them. *)
DueProfilesGetChecked ==
    \A p \in Known : p \in due ~> (p \notin due \/ Unlistable)
================================================================================
