------------------------------- MODULE SwitchFlow -------------------------------
(***************************************************************************)
(* The broker's switch protocol (internal/broker/service.go): the handlers *)
(* that hold switchMu (select, force, cancel, reconcile), the windows and  *)
(* gateway connections whose events each end in a reconcile, and launches, *)
(* which touch broker.json without the lock.                               *)
(*                                                                         *)
(* A handler under switchMu is two steps: one takes the lock, reads        *)
(* state.json, broker.json and the readiness and decides; the other saves  *)
(* or commits what was decided and releases the lock.  Everything that     *)
(* does not need the lock happens in between.                              *)
(*                                                                         *)
(* An IPC connection and a gateway dispatcher serve one call at a time:    *)
(* one that is waiting to reconcile (hostQ, gatewayQ) does nothing else.   *)
(***************************************************************************)
EXTENDS Coordinator, SessionManager

CONSTANTS
    Conns,       \* gateway connections one window can have open at once
    MaxEpoch,    \* bound: no switch is asked for at this epoch
    MaxTurns,    \* bound: turns counted for one session
    Failures     \* commit steps that may fail: "copy_back", "save_broker", "ensure"

ASSUME BoundsAssumption == MaxEpoch \in Nat /\ MaxTurns \in Nat \ {0}
ASSUME FailuresAssumption == Failures \subseteq {"copy_back", "save_broker", "ensure"}

VARIABLES
    selected,    \* state.json: selected_profile_id
    epoch,       \* state.json: current_auth_epoch_id, as its number
    broker,      \* broker.json: broker_state and switch_context
    record,      \* sessions.json: the state of each session's record
    entry,       \* the manager's runtime map
    host,        \* where each window's host process is
    open,        \* gateway connections announced as connected
    hostQ,       \* windows whose IPC handler waits for switchMu to reconcile
    gatewayQ,    \* gateway connections whose callback waits for it
    mu           \* switchMu: the handler that holds it and its decision

vars == <<selected, epoch, broker, record, entry, host, open, hostQ, gatewayQ, mu>>
switchVars == <<selected, epoch, broker, mu>>
sessionVars == <<record, entry, host, open>>

(* A host is at Home, inside launch.prepare ("checked": nothing was pending;
   "ensured": the profile is active), "prepared", running Codex ("codex"),
   told to reload ("reloading") or not there ("gone"). *)
HostStates ==
    {"gone", "home", "checked", "ensured", "prepared", "codex", "reloading"}

BrokerFiles == [state : BrokerStates, ctx : Contexts]

Holders ==
    [op : {"none", "select", "force", "cancel", "reconcile"},
     by : Sessions \cup {NoSession},
     commit : Profiles \cup {NoProfile},
     broker : BrokerFiles]

Free ==
    [op |-> "none", by |-> NoSession, commit |-> NoProfile,
     broker |-> [state |-> "starting", ctx |-> NoSwitch]]

Holding(op, s, d) == [op |-> op, by |-> s, commit |-> d.commit, broker |-> d.broker]

Pending == broker.ctx.inProgress
Busy == {s \in Sessions : IsBusy(record[s], entry[s])}

Init ==
    /\ selected \in Profiles
    /\ epoch = 0
    /\ broker = [state |-> "active", ctx |-> NoSwitch]
    /\ record = [s \in Sessions |-> "absent"]
    /\ entry = [s \in Sessions |-> NoEntry]
    /\ host = [s \in Sessions |-> "gone"]
    /\ open = {}
    /\ hostQ = {}
    /\ gatewayQ = {}
    /\ mu = Free

--------------------------------------------------------------------------------
(* Handlers that hold switchMu.  A refused request changes nothing. *)

(* The window is at Home and its connection serves no other call. *)
AtHome(s) == host[s] = "home" /\ s \notin hostQ

SelectProfile(s, p) ==
    LET d == RequestSwitch(selected, broker, s, p, Busy) IN
    /\ mu = Free /\ AtHome(s)
    /\ epoch < MaxEpoch
    /\ d.outcome # "refused"
    /\ mu' = Holding("select", s, d)
    /\ UNCHANGED <<selected, epoch, broker, sessionVars, hostQ, gatewayQ>>

ForcePendingSwitch(s) ==
    /\ mu = Free /\ AtHome(s)
    /\ MayForce(broker, s)
    /\ mu' = Holding("force", s, Decision("commit", broker.ctx.to, broker))
    /\ UNCHANGED <<selected, epoch, broker, sessionVars, hostQ, gatewayQ>>

CancelPendingSwitch(s) ==
    /\ mu = Free /\ AtHome(s)
    /\ MayCancel(broker, s)
    /\ mu' = Holding("cancel", s, Decision("cancelled", NoProfile, Cancelled(broker)))
    /\ UNCHANGED <<selected, epoch, broker, sessionVars, hostQ, gatewayQ>>

(* reconcilePendingSwitch up to its decision; with nothing pending it saves
   nothing and is over. *)
ReconcilePendingSwitch ==
    /\ mu = Free
    /\ mu' = IF Pending
             THEN Holding("reconcile", NoSession, Reconcile(broker, Busy))
             ELSE Free
    /\ UNCHANGED <<selected, epoch, broker, sessionVars>>

ReconcileForHost(s) ==
    /\ s \in hostQ
    /\ hostQ' = hostQ \ {s}
    /\ UNCHANGED gatewayQ
    /\ ReconcilePendingSwitch

ReconcileForGateway(s, c) ==
    /\ <<s, c>> \in gatewayQ
    /\ gatewayQ' = gatewayQ \ {<<s, c>>}
    /\ UNCHANGED hostQ
    /\ ReconcilePendingSwitch

(* SaveBroker(decision.Broker): the record is the one loaded at the decision. *)
SaveDecision ==
    /\ mu.op # "none" /\ mu.commit = NoProfile
    /\ broker' = mu.broker
    /\ mu' = Free
    /\ UNCHANGED <<selected, epoch, sessionVars, hostQ, gatewayQ>>

(* A commit that leaves the switch pending behind it. *)
CommitKeepingContext ==
    /\ mu.commit # NoProfile
    /\ mu' = Free
    /\ selected' = mu.commit /\ epoch' = epoch + 1
    /\ UNCHANGED <<broker, sessionVars, hostQ, gatewayQ>>

(* CommitProfileSwitch, by how far it gets.  The epoch is written with the
   selection; the context is cleared after it, and once more by
   markActiveProfile. *)
CommitProfileSwitch ==
    /\ mu.commit # NoProfile
    /\ mu' = Free
    /\ \/ /\ selected' = mu.commit /\ epoch' = epoch + 1
          /\ broker' = [state |-> "active", ctx |-> NoSwitch]
       \/ /\ "ensure" \in Failures
          /\ selected' = mu.commit /\ epoch' = epoch + 1
          /\ broker' = [state |-> "reloading_sessions", ctx |-> NoSwitch]
       \/ /\ "save_broker" \in Failures /\ epoch < MaxEpoch
          /\ selected' = mu.commit /\ epoch' = epoch + 1
          /\ UNCHANGED broker
       \/ /\ "copy_back" \in Failures
          /\ UNCHANGED <<selected, epoch, broker>>
    /\ UNCHANGED <<sessionVars, hostQ, gatewayQ>>
--------------------------------------------------------------------------------
(* Windows.  Each IPC handler ends in a reconcile, except session.register
   and launch.prepare. *)

(* session.register, by a new process: the id is one no window has. *)
Register(s) ==
    /\ host[s] = "gone" /\ record[s] = "absent"
    /\ s \notin hostQ
    /\ \A c \in Conns : <<s, c>> \notin open \cup gatewayQ
    /\ host' = [host EXCEPT ![s] = "home"]
    /\ record' = [record EXCEPT ![s] = "home"]
    /\ entry' = [entry EXCEPT ![s] = HostRegistered(@)]
    /\ UNCHANGED <<switchVars, open, hostQ, gatewayQ>>

(* session.unregister, when the window quits from Home. *)
Unregister(s) ==
    /\ AtHome(s)
    /\ host' = [host EXCEPT ![s] = "gone"]
    /\ record' = [record EXCEPT ![s] = "absent"]
    /\ entry' = [entry EXCEPT ![s] = NoEntry]
    /\ hostQ' = hostQ \cup {s}
    /\ UNCHANGED <<switchVars, open, gatewayQ>>

(* A dying host after which nothing is reconciled. *)
ConnectionClosedQuietly(s) ==
    /\ host[s] \in {"home", "prepared", "codex", "reloading"} /\ s \notin hostQ
    /\ host' = [host EXCEPT ![s] = "gone"]
    /\ entry' = [entry EXCEPT ![s] = HostDisconnected(@)]
    /\ UNCHANGED <<switchVars, record, open, hostQ, gatewayQ>>

(* $connection.closed without an unregister: the process died.  Its record
   stays as it was. *)
ConnectionClosed(s) ==
    /\ host[s] \in {"home", "prepared", "codex", "reloading"} /\ s \notin hostQ
    /\ host' = [host EXCEPT ![s] = "gone"]
    /\ entry' = [entry EXCEPT ![s] = HostDisconnected(@)]
    /\ hostQ' = hostQ \cup {s}
    /\ UNCHANGED <<switchVars, record, open, gatewayQ>>

(* launch.prepare, first part: from Home, or again after Codex exited for a
   reload.  With a switch pending it is refused and the host goes Home,
   reporting nothing. *)
PrepareLaunchCheck(s) ==
    /\ host[s] \in {"home", "codex", "reloading"} /\ s \notin hostQ
    /\ host' = [host EXCEPT ![s] = IF Pending THEN "home" ELSE "checked"]
    /\ UNCHANGED <<switchVars, record, entry, open, hostQ, gatewayQ>>

(* launch.prepare, EnsureActiveProfile: markActiveProfile stores a cleared
   switch context, whatever is in the file by now. *)
PrepareLaunchEnsure(s) ==
    /\ host[s] = "checked"
    /\ \/ /\ host' = [host EXCEPT ![s] = "ensured"]
          /\ broker' = [state |-> "active", ctx |-> NoSwitch]
       \/ /\ "ensure" \in Failures
          /\ host' = [host EXCEPT ![s] = "home"]
          /\ UNCHANGED broker
    /\ UNCHANGED <<selected, epoch, mu, record, entry, open, hostQ, gatewayQ>>

(* launch.prepare, sessions.PrepareLaunch. *)
PrepareLaunchRecord(s) ==
    /\ host[s] = "ensured"
    /\ host' = [host EXCEPT ![s] = "prepared"]
    /\ record' = [record EXCEPT ![s] = "launching_codex"]
    /\ UNCHANGED <<switchVars, entry, open, hostQ, gatewayQ>>

(* session.update_state in_codex, before the child is started.  The second
   report, with the child's pid, would only queue one more reconcile. *)
ReportInCodex(s) ==
    /\ host[s] = "prepared"
    /\ host' = [host EXCEPT ![s] = "codex"]
    /\ record' = [record EXCEPT ![s] = "in_codex"]
    /\ hostQ' = hostQ \cup {s}
    /\ UNCHANGED <<switchVars, entry, open, gatewayQ>>

(* session.update_state reloading, on a reload notice.  The launch's own epoch
   is not kept here: any commit so far may be the one announced. *)
ReportReloading(s) ==
    /\ host[s] = "codex" /\ s \notin hostQ /\ epoch > 0
    /\ host' = [host EXCEPT ![s] = "reloading"]
    /\ record' = [record EXCEPT ![s] = "reloading"]
    /\ hostQ' = hostQ \cup {s}
    /\ UNCHANGED <<switchVars, entry, open, gatewayQ>>

(* session.return_home, after the child exited with nothing to reload. *)
ReturnHome(s) ==
    /\ host[s] = "codex" /\ s \notin hostQ
    /\ host' = [host EXCEPT ![s] = "home"]
    /\ record' = [record EXCEPT ![s] = "home"]
    /\ hostQ' = hostQ \cup {s}
    /\ UNCHANGED <<switchVars, entry, open, gatewayQ>>

(* conpty.Start fails: the host goes Home and reports nothing, so the record
   stays in_codex. *)
StartFails(s) ==
    /\ host[s] = "codex" /\ s \notin hostQ
    /\ host' = [host EXCEPT ![s] = "home"]
    /\ UNCHANGED <<switchVars, record, entry, open, hostQ, gatewayQ>>
--------------------------------------------------------------------------------
(* Gateway callbacks; each changes the manager's entry and reconciles. *)

(* A callback that only updates the manager. *)
CallbackNoReconcile(s, c, e) ==
    /\ entry' = [entry EXCEPT ![s] = e]
    /\ UNCHANGED <<switchVars, record, host, hostQ, gatewayQ>>

Callback(s, c, e) ==
    /\ entry' = [entry EXCEPT ![s] = e]
    /\ gatewayQ' = gatewayQ \cup {<<s, c>>}
    /\ UNCHANGED <<switchVars, record, host, hostQ>>

Serving(s, c) == <<s, c>> \in open /\ <<s, c>> \notin gatewayQ

GatewayConnected(s, c) ==
    /\ host[s] = "codex" /\ <<s, c>> \notin open \cup gatewayQ
    /\ open' = open \cup {<<s, c>>}
    /\ Callback(s, c, GatewaySet(entry[s], TRUE))

GatewayDisconnected(s, c) ==
    /\ Serving(s, c)
    /\ open' = open \ {<<s, c>>}
    /\ Callback(s, c, GatewaySet(entry[s], FALSE))

TurnStarted(s, c) ==
    /\ Serving(s, c) /\ entry[s].turns < MaxTurns
    /\ Callback(s, c, TurnNoted(entry[s]))
    /\ UNCHANGED open

TurnCompleted(s, c) ==
    /\ Serving(s, c)
    /\ Callback(s, c, TurnDone(entry[s]))
    /\ UNCHANGED open

ThreadStatus(s, c) ==
    /\ Serving(s, c)
    /\ \E status \in {"active", "idle"} : Callback(s, c, StatusNoted(entry[s], status))
    /\ UNCHANGED open
--------------------------------------------------------------------------------
Locked ==
    \/ \E s \in Sessions, p \in Profiles : SelectProfile(s, p)
    \/ \E s \in Sessions : ForcePendingSwitch(s) \/ CancelPendingSwitch(s)
    \/ \E s \in Sessions : ReconcileForHost(s)
    \/ \E s \in Sessions, c \in Conns : ReconcileForGateway(s, c)
    \/ SaveDecision
    \/ CommitProfileSwitch

Window(s) ==
    \/ Register(s) \/ Unregister(s) \/ ConnectionClosed(s)
    \/ PrepareLaunchCheck(s) \/ PrepareLaunchEnsure(s) \/ PrepareLaunchRecord(s)
    \/ ReportInCodex(s) \/ ReportReloading(s) \/ ReturnHome(s) \/ StartFails(s)

Gateway(s, c) ==
    \/ GatewayConnected(s, c) \/ GatewayDisconnected(s, c)
    \/ TurnStarted(s, c) \/ TurnCompleted(s, c) \/ ThreadStatus(s, c)

Next ==
    \/ Locked
    \/ \E s \in Sessions : Window(s)
    \/ \E s \in Sessions, c \in Conns : Gateway(s, c)

Spec == Init /\ [][Next]_vars

SomeReconcile ==
    \/ \E s \in Sessions : ReconcileForHost(s)
    \/ \E s \in Sessions, c \in Conns : ReconcileForGateway(s, c)

LaunchStep(s) == PrepareLaunchEnsure(s) \/ PrepareLaunchRecord(s) \/ ReportInCodex(s)

(* The holder of switchMu finishes; of the senders blocked on the channel
   one gets the lock however often requests take it first (they queue in
   arrival order); a host inside EnterCodex goes on.  Nothing is assumed of
   users, turns or connections. *)
Fairness ==
    /\ WF_vars(SaveDecision \/ CommitProfileSwitch)
    /\ SF_vars(SomeReconcile)
    /\ \A s \in Sessions : WF_vars(LaunchStep(s))

FairSpec == Spec /\ Fairness
--------------------------------------------------------------------------------
(* Properties *)

(* Every variable keeps its type; a pending switch always has an initiator and
   a target. *)
TypeOK ==
    /\ selected \in Profiles
    /\ epoch \in Nat
    /\ broker \in BrokerFiles
    /\ record \in [Sessions -> RecordStates]
    /\ entry \in [Sessions -> Entries]
    /\ host \in [Sessions -> HostStates]
    /\ open \subseteq Sessions \X Conns
    /\ hostQ \subseteq Sessions
    /\ gatewayQ \subseteq Sessions \X Conns
    /\ mu \in Holders

(* Nothing is on its way that will look at the pending switch again: no
   reconcile waits for the lock, and no launch is about to report in_codex
   (PrepareLaunch takes a session out of in_codex without a reconcile). *)
Quiet ==
    /\ hostQ = {} /\ gatewayQ = {}
    /\ \A s \in Sessions : host[s] # "prepared"

(* No lost wakeup: a switch that waits while nothing will look at it again
   waits for a session that is really busy.  Every handler that can turn a
   busy session idle must queue a reconcile after its change. *)
NoLostWakeup == Pending /\ mu = Free /\ Quiet => Busy # {}

(* The count of busy sessions stored with a pending switch, shown to every
   window, is the true one as soon as nothing is on its way to refresh it. *)
BlockingCountCurrent ==
    Pending /\ mu = Free /\ Quiet => broker.ctx.blocking = Cardinality(Busy)

(* A pending switch never passes from one window to another: while it
   stands, stale saves and retargets included, it keeps its initiator. *)
OwnerKeepsPending == [][Pending /\ Pending' => broker'.ctx.by = broker.ctx.by]_vars

(* The runtime map holds no entry that neither a connected host nor an open
   gateway connection will ever clear, however connections overlap with
   unregistering and with dying hosts. *)
NoZombieEntry ==
    \A s \in Sessions :
        entry[s].present => entry[s].host \/ \E c \in Conns : <<s, c>> \in open

(* The broker implements the abstract account switch.  The switch it is
   working on is the decision in hand, else what broker.json says. *)
wantedBar ==
    IF mu.op = "none" THEN broker.ctx.to
    ELSE IF mu.commit # NoProfile THEN mu.commit
    ELSE mu.broker.ctx.to

ownerBar ==
    IF mu.op = "none" THEN broker.ctx.by
    ELSE IF mu.op = "select" /\ mu.commit # NoProfile THEN mu.by
    ELSE mu.broker.ctx.by

PS == INSTANCE ProfileSwitch WITH wanted <- wantedBar, owner <- ownerBar

(* Each commit serves one request and bumps the epoch once; two reconciles
   that both saw the sessions idle do not commit twice. *)
ImplementsProfileSwitch == PS!Spec

(* An idle system does not sit on a pending switch: it is resolved, or some
   session becomes busy first. *)
SettlesWhenIdle == (Pending /\ Busy = {}) ~> (~Pending \/ Busy # {})
================================================================================
