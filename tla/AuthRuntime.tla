------------------------------ MODULE AuthRuntime ------------------------------
(***************************************************************************)
(* internal/broker/runtime/controller.go and the files it keeps in step:   *)
(* state.json, broker.json, each profile's vault copy of auth.json and the *)
(* one live auth.json in Codex home, and the app-server process that reads *)
(* it.  A commit of a switch, a launch's EnsureActiveProfile, the broker's *)
(* startup and a settings update run step by step, with crashes of the     *)
(* broker, exits of the app-server and failing steps in between.           *)
(*                                                                         *)
(* Switches are serialised by switchMu.  launch.prepare and                *)
(* settings.update take no lock: Overlap says which of them may run while  *)
(* another handler is at work.  Events names the further things that may   *)
(* happen: an unreadable vault copy, a token refresh by the app-server     *)
(* that is about to be replaced, a usage refresh of a vault copy.          *)
(***************************************************************************)
EXTENDS Integers

CONSTANTS
    Profiles,
    Launchers,    \* windows that may call launch.prepare
    Pids,         \* process ids an app-server can get
    NoProfile, NoPid,
    Overlap,      \* unlocked handlers that interleave with others
    Events,       \* further events
    MaxEpoch,     \* bound: no switch begins at this epoch
    MaxVersion    \* bound: refreshes of one credential

ASSUME ProfilesAssumption == NoProfile \notin Profiles
ASSUME PidsAssumption == NoPid \notin Pids
ASSUME LaunchersAssumption == Launchers \cap {"switch", "startup", "settings"} = {}
ASSUME VariantAssumption ==
    /\ Overlap \subseteq {"launch", "settings"}
    /\ Events \subseteq {"copy_in_fails", "refresh_in_switch", "usage_refresh"}
ASSUME BoundsAssumption == MaxEpoch \in Nat /\ MaxVersion \in Nat

VARIABLES
    phase,        \* the broker process: "off", "starting" or "serving"
    state,        \* state.json
    broker,       \* broker.json
    vault,        \* profiles/<id>/auth.json
    runtimeAuth,  \* Codex home's auth.json
    procs,        \* app-server processes: the credential each one holds
    mem,          \* the controller's fields
    job,          \* where each handler is, and what it loaded
    spec          \* the launch spec each window last got

vars == <<phase, state, broker, vault, runtimeAuth, procs, mem, job, spec>>
files == <<state, broker, vault, runtimeAuth>>

(* An auth.json: whose tokens, and how often they were refreshed. *)
Credentials == [owner : Profiles, version : Nat]
NoCredential == [owner |-> NoProfile, version |-> 0]

(* selected_profile_id and current_auth_epoch_id.  next_auth_epoch_counter is
   always one more: every writer writes both. *)
States == [selected : Profiles, epoch : Nat]

(* active_profile_id, active_auth_epoch_id and server.state = "healthy".
   SwitchFlow models broker_state and switch_context. *)
Brokers == [active : Profiles \cup {NoProfile}, epoch : Nat, healthy : BOOLEAN]

(* appServerCmd, control # nil, and appServerURL # "" with its token. *)
Memories == [cmd : Pids \cup {NoPid}, control : BOOLEAN, url : BOOLEAN]
NoMemory == [cmd |-> NoPid, control |-> FALSE, url |-> FALSE]

Actors == Launchers \cup {"switch", "startup", "settings"}

Kind(a) == IF a \in Launchers THEN "launch" ELSE a

(* A handler at work: its step, the target profile, the records it loaded and
   the process it started. *)
Jobs ==
    [at : {"copy_back", "save_state", "save_broker", "check", "copy_in", "shutdown",
           "start", "ready", "mark", "record", "save_settings"},
     profile : Profiles, state : States, broker : Brokers, pid : Pids \cup {NoPid}]
NoJob == [at |-> "idle"]

Alive == {i \in Pids : procs[i] # NoCredential}

AllIdle == \A a \in Actors : job[a] = NoJob

Init ==
    /\ phase = "off"
    /\ state \in [selected : Profiles, epoch : {0}]
    /\ broker = [active |-> NoProfile, epoch |-> 0, healthy |-> FALSE]
    /\ vault = [p \in Profiles |-> [owner |-> p, version |-> 0]]
    /\ runtimeAuth = NoCredential
    /\ procs = [i \in Pids |-> NoCredential]
    /\ mem = NoMemory
    /\ job = [a \in Actors |-> NoJob]
    /\ spec = [w \in Launchers |-> [profile |-> state.selected, epoch |-> 0]]
--------------------------------------------------------------------------------
(* Handlers start, go on and end. *)

Goto(a, step) == job' = [job EXCEPT ![a].at = step]

Finish(a) == job' = [job EXCEPT ![a] = NoJob]

Begin(a, step, p) ==
    /\ job[a] = NoJob
    /\ job' = [job EXCEPT ![a] = [at |-> step, profile |-> p, state |-> state,
                                  broker |-> broker, pid |-> NoPid]]

(* Two handlers at work together are one of a kind that takes no lock and
   another. *)
MayServe(a) ==
    /\ phase = "serving"
    /\ \A b \in Actors : job[b] # NoJob => {Kind(a), Kind(b)} \cap Overlap # {}

(* The handler is over with an error.  Startup is then degraded and serves. *)
Fail(a) ==
    /\ Finish(a)
    /\ phase' = IF a = "startup" THEN "serving" ELSE phase

(* ReconcileStartup, before the broker listens. *)
BeginStartup ==
    /\ phase = "off"
    /\ phase' = "starting"
    /\ Begin("startup", "check", state.selected)
    /\ UNCHANGED <<files, procs, mem, spec>>

(* CommitProfileSwitch.  Switching to the profile that is selected already
   copies nothing back. *)
BeginSwitch(p) ==
    /\ MayServe("switch") /\ state.epoch < MaxEpoch
    /\ Begin("switch", IF state.selected = p THEN "save_state" ELSE "copy_back", p)
    /\ UNCHANGED <<phase, files, procs, mem, spec>>

(* launch.prepare: both files are loaded here, and what follows uses them. *)
BeginLaunch(w) ==
    /\ MayServe(w)
    /\ Begin(w, "check", state.selected)
    /\ UNCHANGED <<phase, files, procs, mem, spec>>

(* settings.update loads the whole of state.json ... *)
BeginSettings ==
    /\ MayServe("settings")
    /\ Begin("settings", "save_settings", state.selected)
    /\ UNCHANGED <<phase, files, procs, mem, spec>>

(* ... and writes the whole of it back. *)
SaveSettings ==
    /\ job["settings"].at = "save_settings"
    /\ state' = job["settings"].state
    /\ Finish("settings")
    /\ UNCHANGED <<phase, broker, vault, runtimeAuth, procs, mem, spec>>
--------------------------------------------------------------------------------
(* CommitProfileSwitch, up to EnsureActiveProfile. *)

(* A commit that takes the live auth.json for the target's. *)
CopyBackToTarget ==
    /\ job["switch"].at = "copy_back"
    /\ runtimeAuth # NoCredential
    /\ vault' = [vault EXCEPT ![job["switch"].profile] = runtimeAuth]
    /\ Goto("switch", "save_state")
    /\ UNCHANGED <<phase, state, broker, runtimeAuth, procs, mem, spec>>

(* CopyRuntimeAuthToProfile that does not look whether there is a file. *)
CopyBackUnchecked ==
    /\ job["switch"].at = "copy_back"
    /\ vault' = [vault EXCEPT ![job["switch"].state.selected] = runtimeAuth]
    /\ Goto("switch", "save_state")
    /\ UNCHANGED <<phase, state, broker, runtimeAuth, procs, mem, spec>>

(* CopyRuntimeAuthToProfile(previous): fails if Codex home has no auth.json. *)
CopyBack ==
    /\ job["switch"].at = "copy_back"
    /\ IF runtimeAuth # NoCredential
       THEN /\ vault' = [vault EXCEPT ![job["switch"].state.selected] = runtimeAuth]
            /\ Goto("switch", "save_state")
       ELSE Finish("switch") /\ UNCHANGED vault
    /\ UNCHANGED <<phase, state, broker, runtimeAuth, procs, mem, spec>>

(* The target is selected, one epoch after the one that was loaded. *)
SaveState ==
    /\ job["switch"].at = "save_state"
    /\ state' = [selected |-> job["switch"].profile,
                 epoch |-> job["switch"].state.epoch + 1]
    /\ Goto("switch", "save_broker")
    /\ UNCHANGED <<phase, broker, vault, runtimeAuth, procs, mem, spec>>

(* The record loaded when the commit began is written. *)
SaveBroker ==
    /\ job["switch"].at = "save_broker"
    /\ broker' = job["switch"].broker
    /\ Goto("switch", "check")
    /\ UNCHANGED <<phase, state, vault, runtimeAuth, procs, mem, spec>>
--------------------------------------------------------------------------------
(* EnsureActiveProfile, by whichever handler calls it. *)

(* canReuseActiveProfile without a look at the active profile. *)
CanReuseAny(p) == broker.healthy /\ mem.cmd # NoPid /\ mem.control /\ mem.url

(* canReuseActiveProfile *)
CanReuse(p) ==
    /\ broker.active = p /\ broker.healthy
    /\ mem.cmd # NoPid /\ mem.control /\ mem.url

Check(a) ==
    /\ job[a].at = "check"
    /\ Goto(a, IF CanReuse(job[a].profile) THEN "mark" ELSE "copy_in")
    /\ UNCHANGED <<phase, files, procs, mem, spec>>

(* CopyProfileAuthToRuntime, while the old app-server still runs. *)
CopyIn(a) ==
    /\ job[a].at = "copy_in"
    /\ \/ /\ runtimeAuth' = vault[job[a].profile]
          /\ Goto(a, "shutdown") /\ UNCHANGED phase
       \/ /\ "copy_in_fails" \in Events
          /\ Fail(a) /\ UNCHANGED runtimeAuth
    /\ UNCHANGED <<state, broker, vault, procs, mem, spec>>

(* Shutdown(): the fields are cleared, the process they named is killed, and
   broker.json says stopped. *)
Shutdown ==
    /\ mem' = NoMemory
    /\ procs' = [i \in Pids |-> IF i = mem.cmd THEN NoCredential ELSE procs[i]]
    /\ broker' = [broker EXCEPT !.healthy = FALSE]

ShutdownOld(a) ==
    /\ job[a].at = "shutdown"
    /\ Shutdown
    /\ Goto(a, "start")
    /\ UNCHANGED <<phase, state, vault, runtimeAuth, spec>>

(* startAppServer up to cmd.Start: the process reads auth.json, and takes the
   place of whatever the fields named. *)
StartAppServer(a) ==
    /\ job[a].at = "start"
    /\ \/ \E i \in Pids \ Alive :
            /\ procs' = [procs EXCEPT ![i] = runtimeAuth]
            /\ mem' = [mem EXCEPT !.cmd = i, !.url = TRUE]
            /\ job' = [job EXCEPT ![a].at = "ready", ![a].pid = i]
            /\ UNCHANGED phase
       \/ Fail(a) /\ UNCHANGED <<procs, mem>>
    /\ UNCHANGED <<files, spec>>

(* waitForReady and DialAppServer: the process answers, or is given up on and
   whatever the fields name by now is shut down. *)
AwaitReady(a) ==
    /\ job[a].at = "ready"
    /\ \/ /\ job[a].pid \in Alive
          /\ mem' = [mem EXCEPT !.control = TRUE]
          /\ broker' = [broker EXCEPT !.healthy = TRUE]
          /\ Goto(a, "mark") /\ UNCHANGED <<phase, procs>>
       \/ Shutdown /\ Fail(a)
    /\ UNCHANGED <<state, vault, runtimeAuth, spec>>

MarkWith(a, epoch) ==
    /\ job[a].at = "mark"
    /\ broker' = [active |-> job[a].profile, epoch |-> epoch, healthy |-> TRUE]
    /\ IF a \in Launchers THEN Goto(a, "record") ELSE Finish(a)
    /\ phase' = IF a = "startup" THEN "serving" ELSE phase
    /\ UNCHANGED <<state, vault, runtimeAuth, procs, mem, spec>>

(* markActiveProfile with the epoch the caller had loaded. *)
MarkLoadedEpoch(a) == MarkWith(a, job[a].state.epoch)

(* markActiveProfile: the profile the caller asked for, with the epoch
   state.json has now. *)
Mark(a) == MarkWith(a, state.epoch)

(* A launch spec made of the profile loaded at the start and the epoch
   state.json has by now. *)
RecordLaunchNow(w) ==
    /\ job[w].at = "record"
    /\ spec' = [spec EXCEPT ![w] = [profile |-> job[w].state.selected,
                                    epoch |-> state.epoch]]
    /\ Finish(w)
    /\ UNCHANGED <<phase, files, procs, mem>>

(* sessions.PrepareLaunch and the LaunchSpec: the pair loaded at the start. *)
RecordLaunch(w) ==
    /\ job[w].at = "record"
    /\ spec' = [spec EXCEPT ![w] = [profile |-> job[w].state.selected,
                                    epoch |-> job[w].state.epoch]]
    /\ Finish(w)
    /\ UNCHANGED <<phase, files, procs, mem>>
--------------------------------------------------------------------------------
(* The world. *)

(* The app-server exits by itself; the goroutine waiting for it forgets it. *)
AppServerExits(i) ==
    /\ i \in Alive
    /\ procs' = [procs EXCEPT ![i] = NoCredential]
    /\ mem' = IF mem.cmd = i THEN [mem EXCEPT !.cmd = NoPid] ELSE mem
    /\ UNCHANGED <<phase, files, job, spec>>

(* External: the app-server the gateway talks to refreshes its tokens and
   writes them to Codex home's auth.json. *)
TokenRefresh(i) ==
    /\ AllIdle \/ "refresh_in_switch" \in Events
    /\ i \in Alive /\ mem.cmd = i /\ procs[i].version < MaxVersion
    /\ procs' = [procs EXCEPT ![i].version = @ + 1]
    /\ runtimeAuth' = procs'[i]
    /\ UNCHANGED <<phase, state, broker, vault, mem, job, spec>>

(* RefreshProfileUsage finds the access token stale and writes the refreshed
   tokens to the vault copy. *)
UsageRefresh(p) ==
    /\ "usage_refresh" \in Events /\ phase = "serving"
    /\ vault[p].version < MaxVersion
    /\ vault' = [vault EXCEPT ![p].version = @ + 1]
    /\ UNCHANGED <<phase, state, broker, runtimeAuth, procs, mem, job, spec>>

(* broker.stop, idle shutdown or a cancelled context, while no handler runs:
   the app-server goes first, then the process. *)
Stop ==
    /\ phase = "serving" /\ AllIdle
    /\ Shutdown
    /\ phase' = "off"
    /\ UNCHANGED <<state, vault, runtimeAuth, job, spec>>

(* The broker process dies at any point.  Its app-server has nothing left to
   talk to and counts as gone. *)
Crash ==
    /\ phase # "off"
    /\ phase' = "off"
    /\ mem' = NoMemory
    /\ procs' = [i \in Pids |-> NoCredential]
    /\ job' = [a \in Actors |-> NoJob]
    /\ UNCHANGED <<files, spec>>

Ensure(a) ==
    Check(a) \/ CopyIn(a) \/ ShutdownOld(a) \/ StartAppServer(a) \/ AwaitReady(a) \/ Mark(a)

Next ==
    \/ BeginStartup
    \/ \E p \in Profiles : BeginSwitch(p) \/ UsageRefresh(p)
    \/ CopyBack \/ SaveState \/ SaveBroker
    \/ \E w \in Launchers : BeginLaunch(w) \/ RecordLaunch(w)
    \/ BeginSettings \/ SaveSettings
    \/ \E a \in Actors : Ensure(a)
    \/ \E i \in Pids : AppServerExits(i) \/ TokenRefresh(i)
    \/ Stop
    \/ Crash

Spec == Init /\ [][Next]_vars
--------------------------------------------------------------------------------
(* Properties *)

(* Every variable keeps its type: no step writes a record some other step
   cannot read. *)
TypeOK ==
    /\ phase \in {"off", "starting", "serving"}
    /\ state \in States
    /\ broker \in Brokers
    /\ vault \in [Profiles -> Credentials]
    /\ runtimeAuth \in Credentials \cup {NoCredential}
    /\ procs \in [Pids -> Credentials \cup {NoCredential}]
    /\ mem \in Memories
    /\ job \in [Actors -> Jobs \cup {NoJob}]
    /\ spec \in [Launchers -> [profile : Profiles, epoch : Nat]]

(* The vault of a profile holds that profile's own tokens and nobody else's:
   no order of copies, crashes, failed starts and refreshes puts the live
   auth.json of one account under the name of another. *)
VaultsPure == \A p \in Profiles : vault[p].owner = p

(* An app-server that a launch would reuse for the selected profile runs with
   that profile's tokens, and so does whatever replaces it without a copy. *)
ReusedServerIsSelected ==
    AllIdle /\ CanReuse(state.selected) =>
        /\ procs[mem.cmd].owner = state.selected
        /\ runtimeAuth.owner = state.selected

(* docs/caw-lifecycle-and-state-machine-spec-v1.md:374: whenever no handler
   is at work and the app-server is usable, broker.json names the selected
   profile and its epoch. *)
ActiveMatchesSelected ==
    AllIdle /\ CanReuse(broker.active) =>
        broker.active = state.selected /\ broker.epoch = state.epoch

(* An auth epoch stands for one profile: windows launched in the same epoch,
   and the state file while it is in that epoch, agree on the account. *)
EpochNamesOneProfile ==
    \A w \in Launchers :
        /\ \A v \in Launchers :
             spec[v].epoch = spec[w].epoch => spec[v].profile = spec[w].profile
        /\ spec[w].epoch = state.epoch => spec[w].profile = state.selected

(* The part of it that launches without a lock leave intact: when the usable
   app-server is recorded for the selected profile, it is with the selected
   epoch, though launches read one of the two files before and the other after
   a switch, and a switch writes back a record it loaded long before. *)
ActiveEpochCurrent ==
    AllIdle /\ CanReuse(state.selected) => broker.epoch = state.epoch
================================================================================
