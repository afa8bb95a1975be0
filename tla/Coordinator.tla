------------------------------ MODULE Coordinator ------------------------------
(***************************************************************************)
(* internal/broker/switchflow/coordinator.go: what the broker decides      *)
(* about a global profile switch.  The coordinator keeps no state of its   *)
(* own: each operator maps what was loaded from state.json and broker.json *)
(* and the readiness of the live sessions to a decision, which the service *)
(* then saves or commits.  Times (UpdatedAt, InitiatedAt, LastUpdatedAt)   *)
(* are left out: nothing decides on them.                                  *)
(***************************************************************************)
EXTENDS Integers, FiniteSets

CONSTANTS
    Profiles,    \* the profiles that exist (ProfileExists)
    Sessions,    \* session ids, one per CAW window
    NoProfile,   \* a nil profile id
    NoSession    \* a nil session id

ASSUME ProfilesAssumption == Profiles # {} /\ NoProfile \notin Profiles
ASSUME SessionsAssumption == IsFiniteSet(Sessions) /\ NoSession \notin Sessions

BrokerStates ==
    {"starting", "home_ready", "active", "switching_profile",
     "reloading_sessions", "degraded"}

(* model.SwitchContext.  A context that is not in progress is the zero
   value: every writer that clears the flag stores SwitchContext{}. *)
NoSwitch ==
    [inProgress |-> FALSE, from |-> NoProfile, to |-> NoProfile,
     by |-> NoSession, blocking |-> 0]

Contexts ==
    {NoSwitch} \cup
    [inProgress : {TRUE}, from : Profiles \cup {NoProfile}, to : Profiles,
     by : Sessions, blocking : Nat]

(* pendingDecision: the broker record with a switch to p waiting on the
   busy sessions. *)
PendingBroker(broker, s, from, p, busy) ==
    [broker EXCEPT
        !.state = "switching_profile",
        !.ctx = [inProgress |-> TRUE, from |-> from, to |-> p, by |-> s,
                 blocking |-> Cardinality(busy)]]

(* A decision: the outcome told to the window, the profile to commit now (or
   NoProfile) and the broker record to save when there is nothing to commit. *)
Decision(outcome, commit, broker) ==
    [outcome |-> outcome, commit |-> commit, broker |-> broker]

(* Mutations the properties must notice: the owner check dropped from a
   request, and the count not refreshed by a reconcile. *)
RequestSwitchByAnyone(selected, broker, s, p, busy) ==
    IF broker.ctx.inProgress /\ broker.ctx.to # p
    THEN Decision("updated_pending", NoProfile,
                  PendingBroker(broker, s, selected, p, busy))
    ELSE IF broker.ctx.inProgress \/ selected = p
    THEN Decision("noop", NoProfile, broker)
    ELSE IF busy # {}
    THEN Decision("pending", NoProfile, PendingBroker(broker, s, selected, p, busy))
    ELSE Decision("switched", p, broker)

ReconcileOldCount(broker, busy) ==
    IF broker.ctx.inProgress /\ busy = {}
    THEN Decision("commit", broker.ctx.to, broker)
    ELSE Decision("wait", NoProfile, broker)

(* RequestSwitch: window s asks for p.  A pending switch belongs to the
   window that asked for it, and is moved to p without asking whether p is
   the selected profile already. *)
RequestSwitch(selected, broker, s, p, busy) ==
    LET ctx == broker.ctx
        pending(outcome) ==
            Decision(outcome, NoProfile, PendingBroker(broker, s, selected, p, busy))
    IN CASE p \notin Profiles -> Decision("refused", NoProfile, broker)
         [] p \in Profiles /\ ctx.inProgress /\ ctx.by # s ->
                Decision("refused", NoProfile, broker)
         [] p \in Profiles /\ ctx.inProgress /\ ctx.by = s ->
                IF ctx.to = p THEN Decision("noop", NoProfile, broker)
                              ELSE pending("updated_pending")
         [] p \in Profiles /\ ~ctx.inProgress ->
                IF selected = p THEN Decision("noop", NoProfile, broker)
                ELSE IF busy # {} THEN pending("pending")
                ELSE Decision("switched", p, broker)

(* Reconcile: commit a pending switch once nothing is busy, else note how
   many sessions it still waits for. *)
Reconcile(broker, busy) ==
    LET counted == [broker EXCEPT !.ctx.blocking = Cardinality(busy)]
    IN CASE ~broker.ctx.inProgress -> Decision("wait", NoProfile, broker)
         [] broker.ctx.inProgress /\ busy # {} ->
                Decision("wait", NoProfile,
                         [counted EXCEPT !.state = "switching_profile"])
         [] broker.ctx.inProgress /\ busy = {} ->
                Decision("commit", broker.ctx.to, counted)

MayForce(broker, s) == broker.ctx.inProgress /\ broker.ctx.by = s

(* Cancel without a pending switch leaves the record as it is. *)
MayCancel(broker, s) == ~broker.ctx.inProgress \/ broker.ctx.by = s

Cancelled(broker) ==
    IF broker.ctx.inProgress
    THEN [broker EXCEPT !.ctx = NoSwitch, !.state = "active"]
    ELSE broker
================================================================================
