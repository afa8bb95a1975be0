------------------------------- MODULE HostReload -------------------------------
(***************************************************************************)
(* How a committed switch reaches the windows: internal/host/runtime.go    *)
(* (SignalBuffer, SessionRuntime.EnterCodex), the events of internal/ipc   *)
(* and the broker's side of a commit as the windows see it (the order of   *)
(* SaveState, Shutdown, markActiveProfile and broadcastReload).            *)
(*                                                                         *)
(* A window learns of a new auth epoch from a reload notice, which waits   *)
(* in its IPC connection and then in its one-place buffer until the loop   *)
(* of EnterCodex polls it, or by asking for the active epoch when its      *)
(* child has exited.  Reports to the broker (session.update_state,         *)
(* session.return_home) are SwitchFlow's; when a switch may commit is too. *)
(***************************************************************************)
EXTENDS Integers, Sequences

CONSTANTS
    Windows,
    MaxEpoch,   \* bound: switches committed
    Failures    \* "ensure": the app-server of a commit may fail to start;
                \* "snapshot": status.snapshot may fail;
                \* "kill": killing a child may fail

ASSUME EpochAssumption == MaxEpoch \in Nat
ASSUME FailuresAssumption == Failures \subseteq {"ensure", "snapshot", "kill"}

VARIABLES
    epoch,      \* state.json: current_auth_epoch_id, as its number
    active,     \* broker.json: active_auth_epoch_id
    commit,     \* where the last commit is; "idle" and "failed": switchMu is free
    unsent,     \* windows its broadcast has not reached
    events,     \* reload notices in each window's IPC connection
    buffer,     \* SignalBuffer.reload
    host,       \* where EnterCodex is
    child,      \* the Codex child
    loaded,     \* launch.prepare: the epoch it read
    spec,       \* LaunchSpec.AuthEpochID of the child
    noticed,    \* reloadNotice of the loop
    killed      \* reloadKillIssued of the loop

vars == <<epoch, active, commit, unsent, events, buffer,
          host, child, loaded, spec, noticed, killed>>
switch == <<epoch, active, commit, unsent>>
window == <<host, child, loaded, spec, noticed, killed>>

NoNotice == 0   \* the first commit announces epoch 1

(* "asking": the child is gone and status.snapshot is on its way;
   "relaunch": the launch loop goes round again. *)
HostStates == {"home", "relaunch", "preparing", "codex", "asking"}

(* A child is "cut" off when the app-server it talks to is shut down.  It is
   gone because it "exited", because it "dropped" out after being cut off, or
   "interrupted" by the user's Ctrl+C. *)
ChildStates == {"none", "running", "cut", "exited", "dropped", "interrupted"}

Live(w) == child[w] \in {"running", "cut"}
Gone(w) == child[w] \in {"exited", "dropped", "interrupted"}

Init ==
    /\ epoch = 0 /\ active = 0
    /\ commit = "idle" /\ unsent = {}
    /\ events = [w \in Windows |-> <<>>]
    /\ buffer = [w \in Windows |-> NoNotice]
    /\ host = [w \in Windows |-> "home"]
    /\ child = [w \in Windows |-> "none"]
    /\ loaded = [w \in Windows |-> 0]
    /\ spec = [w \in Windows |-> 0]
    /\ noticed = [w \in Windows |-> NoNotice]
    /\ killed = [w \in Windows |-> FALSE]
--------------------------------------------------------------------------------
(* The broker commits a switch. *)

(* isNewerAuthEpoch that takes the same epoch for a newer one. *)
NotOlder(candidate, current) == candidate >= current

(* isNewerAuthEpoch: the ids are compared as strings, which for their seven
   digits is the order of their numbers. *)
IsNewer(candidate, current) == candidate > current

CutOff == [w \in Windows |-> IF child[w] = "running" THEN "cut" ELSE child[w]]

(* CommitProfileSwitch has saved the state. *)
CommitSave ==
    /\ commit \in {"idle", "failed"} /\ epoch < MaxEpoch
    /\ epoch' = epoch + 1
    /\ commit' = "saved"
    /\ UNCHANGED <<active, unsent, events, buffer, window>>

(* The old app-server is shut down. *)
CommitShutdown ==
    /\ commit = "saved"
    /\ commit' = "starting"
    /\ child' = CutOff
    /\ UNCHANGED <<epoch, active, unsent, events, buffer, host, loaded, spec, noticed, killed>>

(* markActiveProfile, at once for an app-server that can be reused. *)
CommitMark ==
    /\ commit \in {"saved", "starting"}
    /\ active' = epoch
    /\ commit' = "marked"
    /\ unsent' = Windows
    /\ UNCHANGED <<epoch, events, buffer, window>>

(* EnsureActiveProfile fails: the handler returns, and nobody is told.  The
   epoch stays saved. *)
CommitFails ==
    /\ commit = "starting" /\ "ensure" \in Failures
    /\ commit' = "failed"
    /\ UNCHANGED <<epoch, active, unsent, events, buffer, window>>

(* A broadcast of the epoch the next switch will have. *)
NotifyNext(w) ==
    /\ commit = "marked" /\ w \in unsent
    /\ events' = [events EXCEPT ![w] = Append(@, epoch + 1)]
    /\ unsent' = unsent \ {w}
    /\ UNCHANGED <<epoch, active, commit, buffer, window>>

(* broadcastReload, one connection after the other. *)
Notify(w) ==
    /\ commit = "marked" /\ w \in unsent
    /\ events' = [events EXCEPT ![w] = Append(@, epoch)]
    /\ unsent' = unsent \ {w}
    /\ UNCHANGED <<epoch, active, commit, buffer, window>>

CommitDone ==
    /\ commit = "marked" /\ unsent = {}
    /\ commit' = "idle"
    /\ UNCHANGED <<epoch, active, unsent, events, buffer, window>>
--------------------------------------------------------------------------------
(* A window. *)

(* A client that keeps a notice it has not looked at. *)
DeliverIfEmpty(w) ==
    /\ events[w] # <<>>
    /\ buffer' = [buffer EXCEPT ![w] = IF @ = NoNotice THEN Head(events[w]) ELSE @]
    /\ events' = [events EXCEPT ![w] = Tail(@)]
    /\ UNCHANGED <<switch, window>>

(* Client.readLoop and SignalBuffer.HandleEvent: a later notice replaces the
   one in the buffer. *)
Deliver(w) ==
    /\ events[w] # <<>>
    /\ buffer' = [buffer EXCEPT ![w] = Head(events[w])]
    /\ events' = [events EXCEPT ![w] = Tail(@)]
    /\ UNCHANGED <<switch, window>>

(* The Home screen's poll: a reload is only shown. *)
TakeHomeEvent(w) ==
    /\ host[w] = "home" /\ buffer[w] # NoNotice
    /\ buffer' = [buffer EXCEPT ![w] = NoNotice]
    /\ UNCHANGED <<switch, events, window>>

(* launch.prepare reads state.json. *)
PrepareLoad(w) ==
    /\ host[w] \in {"home", "relaunch"}
    /\ host' = [host EXCEPT ![w] = "preparing"]
    /\ loaded' = [loaded EXCEPT ![w] = epoch]
    /\ noticed' = [noticed EXCEPT ![w] = NoNotice]
    /\ killed' = [killed EXCEPT ![w] = FALSE]
    /\ UNCHANGED <<switch, events, buffer, child, spec>>

(* It ensures the active profile, which may restart the app-server, and marks
   whatever epoch state.json has by now; the child is started. *)
PrepareDone(w) ==
    /\ host[w] = "preparing"
    /\ host' = [host EXCEPT ![w] = "codex"]
    /\ active' = epoch
    /\ \/ child' = [child EXCEPT ![w] = "running"]
       \/ child' = [CutOff EXCEPT ![w] = "running"]
    /\ spec' = [spec EXCEPT ![w] = loaded[w]]
    /\ UNCHANGED <<epoch, commit, unsent, events, buffer, loaded, noticed, killed>>

(* launch.prepare is refused or fails, before or after it has ensured and
   marked, or conpty.Start does: back to Home. *)
LaunchFails(w) ==
    /\ host[w] \in {"relaunch", "preparing"}
    /\ host' = [host EXCEPT ![w] = "home"]
    /\ \/ UNCHANGED <<active, child>>
       \/ host[w] = "preparing" /\ active' \in {active, epoch} /\ child' \in {child, CutOff}
    /\ UNCHANGED <<epoch, commit, unsent, events, buffer, loaded, spec, noticed, killed>>

(* The loop takes the buffered notice, and keeps a newer one, for which it may
   kill again. *)
PollReload(w) ==
    /\ host[w] = "codex" /\ buffer[w] # NoNotice
    /\ buffer' = [buffer EXCEPT ![w] = NoNotice]
    /\ IF IsNewer(buffer[w], spec[w])
       THEN /\ noticed' = [noticed EXCEPT ![w] = buffer[w]]
            /\ killed' = [killed EXCEPT ![w] = FALSE]
       ELSE UNCHANGED <<noticed, killed>>
    /\ UNCHANGED <<switch, events, host, child, loaded, spec>>

(* The grace period that only ends for a child whose connection was cut. *)
KillCutOff(w) ==
    /\ host[w] = "codex" /\ noticed[w] # NoNotice /\ child[w] = "cut" /\ ~killed[w]
    /\ killed' = [killed EXCEPT ![w] = TRUE]
    /\ child' = [child EXCEPT ![w] = "exited"]
    /\ UNCHANGED <<switch, events, buffer, host, loaded, spec, noticed>>

(* reloadDeadline has passed: the child is killed, once for a notice, and an
   error of that is ignored. *)
Kill(w) ==
    /\ host[w] = "codex" /\ noticed[w] # NoNotice /\ Live(w) /\ ~killed[w]
    /\ killed' = [killed EXCEPT ![w] = TRUE]
    /\ \/ child' = [child EXCEPT ![w] = "exited"]
       \/ "kill" \in Failures /\ UNCHANGED child
    /\ UNCHANGED <<switch, events, buffer, host, loaded, spec, noticed>>

(* The child ends: the user quits it or presses Ctrl+C, or it gives up on its
   lost connection. *)
ChildEnds(w) ==
    /\ host[w] = "codex" /\ Live(w)
    /\ \E how \in {"exited", "interrupted"}
                  \cup (IF child[w] = "cut" THEN {"dropped"} ELSE {}) :
            child' = [child EXCEPT ![w] = how]
    /\ UNCHANGED <<switch, events, buffer, host, loaded, spec, noticed, killed>>

(* The loop sees the exit: with a newer notice in hand it relaunches, however
   the child ended, and else it asks the broker. *)
SeeExit(w) ==
    /\ host[w] = "codex" /\ Gone(w)
    /\ host' = [host EXCEPT ![w] =
                    IF IsNewer(noticed[w], spec[w]) THEN "relaunch" ELSE "asking"]
    /\ UNCHANGED <<switch, events, buffer, child, loaded, spec, noticed, killed>>

(* status.snapshot: relaunch if the active epoch is newer than the child's. *)
Snapshot(w) ==
    /\ host[w] = "asking"
    /\ host' = [host EXCEPT ![w] =
                    IF IsNewer(active, spec[w]) THEN "relaunch" ELSE "home"]
    /\ UNCHANGED <<switch, events, buffer, child, loaded, spec, noticed, killed>>

(* It fails or times out after two seconds, and the window goes Home. *)
SnapshotFails(w) ==
    /\ host[w] = "asking" /\ "snapshot" \in Failures
    /\ host' = [host EXCEPT ![w] = "home"]
    /\ UNCHANGED <<switch, events, buffer, child, loaded, spec, noticed, killed>>
--------------------------------------------------------------------------------
Broker ==
    \/ CommitSave \/ CommitShutdown \/ CommitMark \/ CommitFails \/ CommitDone
    \/ \E w \in Windows : Notify(w)

Launch(w) == PrepareLoad(w) \/ PrepareDone(w) \/ LaunchFails(w)

Loop(w) == PollReload(w) \/ Kill(w) \/ SeeExit(w) \/ Snapshot(w) \/ SnapshotFails(w)

Next ==
    \/ Broker
    \/ \E w \in Windows :
        Deliver(w) \/ TakeHomeEvent(w) \/ Launch(w) \/ ChildEnds(w) \/ Loop(w)

Spec == Init /\ [][Next]_vars

(* A commit in progress goes on (its waits are bounded), events travel, a
   relaunch is not the user's choice, and the loop of EnterCodex runs every
   150 ms.  Users start and end children, and commits begin, as they like. *)
Fairness ==
    /\ WF_vars(CommitMark \/ CommitDone \/ \E w \in Windows : Notify(w))
    /\ \A w \in Windows :
        /\ WF_vars(Deliver(w))
        /\ WF_vars(host[w] = "relaunch" /\ PrepareLoad(w))
        /\ WF_vars(PrepareDone(w))
        /\ WF_vars(PollReload(w)) /\ WF_vars(Kill(w))
        /\ WF_vars(SeeExit(w)) /\ WF_vars(Snapshot(w))

FairSpec == Spec /\ Fairness
--------------------------------------------------------------------------------
(* Properties *)

(* Every variable keeps its type, and nothing runs ahead of state.json: a
   notice, a launch or the active record names an epoch that was saved. *)
TypeOK ==
    /\ epoch \in Nat
    /\ active \in 0 .. epoch
    /\ commit \in {"idle", "saved", "starting", "marked", "failed"}
    /\ unsent \subseteq Windows
    /\ events \in [Windows -> Seq(1 .. epoch)]
    /\ buffer \in [Windows -> 0 .. epoch]
    /\ host \in [Windows -> HostStates]
    /\ child \in [Windows -> ChildStates]
    /\ loaded \in [Windows -> 0 .. epoch]
    /\ spec \in [Windows -> 0 .. epoch]
    /\ noticed \in [Windows -> 0 .. epoch]
    /\ killed \in [Windows -> BOOLEAN]

(* The window has, or is about to get, a notice of an epoch after e. *)
Announced(w, e) ==
    \/ noticed[w] > e
    \/ buffer[w] > e
    \/ \E i \in 1 .. Len(events[w]) : events[w][i] > e
    \/ commit \in {"saved", "starting"} /\ epoch > e
    \/ commit = "marked" /\ w \in unsent /\ epoch > e

(* No reload notice is lost: wherever a launch was when the switch committed
   (before its read, after it, child not yet started), a child of an older
   epoch is one whose window still has a newer notice coming.  Only a commit
   that failed has told nobody, and the next one makes up for it. *)
NoLostNotice ==
    \A w \in Windows :
        host[w] = "codex" /\ spec[w] < epoch /\ commit # "failed" =>
            Announced(w, spec[w])

(* A reload makes progress: the new child's epoch is newer than the old
   one's, so a notice never sends a window round and round. *)
EachReloadAdvances ==
    [][\A w \in Windows :
         host[w] = "relaunch" /\ host'[w] = "preparing" => loaded'[w] > spec[w]]_vars

(* docs/architecture/broker-runtime.md:68: a window does not wait for ever for
   a stale child: it gets to the active epoch, or Home, unless the last commit
   failed or the child could not be killed. *)
StaleWindowReloads ==
    \A w \in Windows :
        host[w] = "codex" /\ spec[w] < active
            ~> \/ host[w] = "home" \/ spec[w] >= active
               \/ commit = "failed" \/ (killed[w] /\ Live(w))
================================================================================
