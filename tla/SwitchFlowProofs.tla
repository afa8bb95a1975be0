--------------------------- MODULE SwitchFlowProofs ---------------------------
(***************************************************************************)
(* Proofs about SwitchFlow: type correctness; a pending switch never waits *)
(* for nothing, keeps its initiator and its count; the runtime map keeps   *)
(* no dead entry; and the protocol implements ProfileSwitch.               *)
(***************************************************************************)
EXTENDS SwitchFlow, FiniteSetTheorems, TLAPS

(* The coordinator counts a finite set. *)
LEMMA BusyFinite ==
    ASSUME NEW B \in SUBSET Sessions
    PROVE  IsFiniteSet(B) /\ Cardinality(B) \in Nat /\ (Cardinality(B) = 0 <=> B = {})
<1>1. IsFiniteSet(Sessions)
  BY SessionsAssumption
<1>2. IsFiniteSet(B)
  BY <1>1, FS_Subset
<1> QED
  BY <1>2, FS_CardinalityType, FS_EmptySet

(* Only sessions are busy. *)
LEMMA BusyType == Busy \in SUBSET Sessions
BY DEF Busy

(* A context is in progress or it is the cleared one. *)
LEMMA ContextType ==
    ASSUME NEW ctx \in Contexts
    PROVE  /\ ctx.inProgress \in BOOLEAN
           /\ ctx.inProgress =>
                ctx \in [inProgress : {TRUE}, from : Profiles \cup {NoProfile},
                         to : Profiles, by : Sessions, blocking : Nat]
           /\ ~ctx.inProgress => ctx = NoSwitch
<1>1. CASE ctx = NoSwitch
  <2>1. ctx.inProgress = FALSE
    BY <1>1 DEF NoSwitch
  <2> QED
    BY <1>1, <2>1
<1>2. CASE ctx \in [inProgress : {TRUE}, from : Profiles \cup {NoProfile},
                     to : Profiles, by : Sessions, blocking : Nat]
  <2>1. ctx.inProgress = TRUE
    BY <1>2
  <2> QED
    BY <1>2, <2>1
<1> QED
  BY <1>1, <1>2 DEF Contexts

(* A broker record with a pending switch in it is a broker record. *)
LEMMA PendingBrokerType ==
    ASSUME NEW b \in BrokerFiles, NEW s \in Sessions,
           NEW from \in Profiles \cup {NoProfile}, NEW p \in Profiles,
           NEW B \in SUBSET Sessions
    PROVE  /\ PendingBroker(b, s, from, p, B) \in BrokerFiles
           /\ PendingBroker(b, s, from, p, B).ctx =
                [inProgress |-> TRUE, from |-> from, to |-> p, by |-> s,
                 blocking |-> Cardinality(B)]
BY BusyFinite DEF PendingBroker, BrokerFiles, Contexts, BrokerStates

(* What RequestSwitch returns, unless it refuses: a commit of p, or a record
   to save whose pending switch, if it has one, is s's own. *)
LEMMA RequestSwitchResult ==
    ASSUME NEW b \in BrokerFiles, NEW s \in Sessions,
           NEW sel \in Profiles, NEW p \in Profiles, NEW B \in SUBSET Sessions,
           NEW d, d = RequestSwitch(sel, b, s, p, B), d.outcome # "refused"
    PROVE  /\ d.broker \in BrokerFiles
           /\ d.commit \in {p, NoProfile}
           /\ b.ctx.inProgress => d.commit = NoProfile /\ b.ctx.by = s
           /\ d.broker.ctx.inProgress /\ d.commit = NoProfile =>
                /\ b.ctx.inProgress \/ B # {}
                /\ d.broker.ctx.by = s
                /\ d.broker = b \/ d.broker.ctx.blocking = Cardinality(B)
<1> DEFINE pb == PendingBroker(b, s, sel, p, B)
<1>0. p # NoProfile
  BY ProfilesAssumption
<1>1. pb \in BrokerFiles /\ pb.ctx.by = s /\ pb.ctx.blocking = Cardinality(B)
  <2>1. sel \in Profiles \cup {NoProfile}
    OBVIOUS
  <2>2. /\ pb \in BrokerFiles
        /\ pb.ctx = [inProgress |-> TRUE, from |-> sel, to |-> p, by |-> s,
                     blocking |-> Cardinality(B)]
    BY <2>1, PendingBrokerType
  <2> QED
    BY <2>2
<1>2. b.ctx.inProgress \in BOOLEAN
  BY ContextType DEF BrokerFiles
<1>3. CASE b.ctx.inProgress /\ b.ctx.by # s
  <2>1. d = Decision("refused", NoProfile, b)
    BY <1>3 DEF RequestSwitch
  <2> QED
    BY <2>1 DEF Decision
<1>4. CASE b.ctx.inProgress /\ b.ctx.by = s
  <2>1. d = Decision("noop", NoProfile, b) \/ d = Decision("updated_pending", NoProfile, pb)
    BY <1>4 DEF RequestSwitch
  <2> HIDE DEF pb
  <2> QED
    BY <2>1, <1>1, <1>4 DEF Decision
<1>5. CASE ~b.ctx.inProgress
  <2>1. \/ d = Decision("noop", NoProfile, b)
        \/ B # {} /\ d = Decision("pending", NoProfile, pb)
        \/ d = Decision("switched", p, b)
    BY <1>5 DEF RequestSwitch
  <2> HIDE DEF pb
  <2> QED
    BY <2>1, <1>1, <1>5 DEF Decision
<1> QED
  BY <1>2, <1>3, <1>4, <1>5

(* Every manager operation returns an entry. *)
LEMMA EntryOperations ==
    ASSUME NEW e \in Entries, NEW connected \in BOOLEAN, NEW status
    PROVE  /\ NoEntry \in Entries
           /\ HostRegistered(e) \in Entries
           /\ HostDisconnected(e) \in Entries
           /\ GatewaySet(e, connected) \in Entries
           /\ TurnNoted(e) \in Entries
           /\ TurnDone(e) \in Entries
           /\ StatusNoted(e, status) \in Entries
<1> DEFINE f == EnsureRuntime(e)
<1>1. NoEntry \in Entries
  BY DEF NoEntry, Entries
<1>2. f \in Entries
  BY DEF EnsureRuntime, Entries
<1> HIDE DEF f
<1>3. HostRegistered(e) \in Entries
  <2>1. HostRegistered(e) = [f EXCEPT !.host = TRUE]
    BY DEF HostRegistered, f
  <2> QED
    BY <1>2, <2>1 DEF Entries
<1>4. HostDisconnected(e) \in Entries
  BY <1>1 DEF HostDisconnected, Entries
<1>5. GatewaySet(e, connected) \in Entries
  <2>1. CASE connected
    <3>1. GatewaySet(e, connected) = [f EXCEPT !.gateway = TRUE]
      BY <2>1 DEF GatewaySet, f
    <3> QED
      BY <1>2, <3>1 DEF Entries
  <2>2. CASE ~connected
    <3>1. \/ GatewaySet(e, connected) = [e EXCEPT !.gateway = FALSE, !.turns = 0]
          \/ GatewaySet(e, connected) = NoEntry
      BY <2>2 DEF GatewaySet
    <3>2. [e EXCEPT !.gateway = FALSE, !.turns = 0] \in Entries
      BY DEF Entries
    <3> QED
      BY <1>1, <3>1, <3>2
  <2> QED
    BY <2>1, <2>2
<1>6. ASSUME NEW n \in Nat
      PROVE  [f EXCEPT !.turns = n] \in Entries
  BY <1>2 DEF Entries
<1>7. f.turns \in Nat
  BY <1>2 DEF Entries
<1>8. TurnNoted(e) \in Entries
  <2>1. TurnNoted(e) = [f EXCEPT !.turns = f.turns + 1]
    BY DEF TurnNoted, f
  <2> QED
    BY <1>6, <1>7, <2>1
<1>9. TurnDone(e) \in Entries
  <2> DEFINE n == IF f.turns > 0 THEN f.turns - 1 ELSE f.turns
  <2>1. TurnDone(e) = [f EXCEPT !.turns = n]
    BY DEF TurnDone, f
  <2>2. n \in Nat
    BY <1>7
  <2> QED
    BY <1>6, <2>1, <2>2
<1>10. StatusNoted(e, status) \in Entries
  <2> DEFINE n == IF status = "active" /\ f.turns = 0 THEN 1 ELSE f.turns
  <2>1. StatusNoted(e, status) = [f EXCEPT !.turns = n]
    BY DEF StatusNoted, f
  <2>2. n \in Nat
    BY <1>7
  <2> QED
    BY <1>6, <2>1, <2>2
<1> QED
  BY <1>1, <1>3, <1>4, <1>5, <1>8, <1>9, <1>10

(* The decisions of reconcile and cancel save broker records. *)
LEMMA ReconcileResult ==
    ASSUME NEW b \in BrokerFiles, NEW B \in SUBSET Sessions, b.ctx.inProgress
    PROVE  LET d == Reconcile(b, B) IN
           /\ d.broker \in BrokerFiles
           /\ d.broker.ctx.by = b.ctx.by
           /\ d.broker.ctx.blocking = Cardinality(B)
           /\ d.commit \in Profiles \cup {NoProfile}
           /\ d.commit = NoProfile => B # {}
<1> DEFINE counted == [b EXCEPT !.ctx.blocking = Cardinality(B)]
           waiting == [counted EXCEPT !.state = "switching_profile"]
<1>1. b.ctx \in [inProgress : {TRUE}, from : Profiles \cup {NoProfile},
                 to : Profiles, by : Sessions, blocking : Nat]
  <2>1. b.ctx \in Contexts
    BY DEF BrokerFiles
  <2> QED
    BY <2>1, ContextType
<1>2. Cardinality(B) \in Nat
  BY BusyFinite
<1>3. /\ counted \in BrokerFiles
      /\ counted.ctx.by = b.ctx.by /\ counted.ctx.blocking = Cardinality(B)
  BY <1>1, <1>2 DEF BrokerFiles, Contexts
<1>4. /\ waiting \in BrokerFiles
      /\ waiting.ctx = counted.ctx
  BY <1>3 DEF BrokerFiles, BrokerStates
<1>5. CASE B # {}
  <2>1. Reconcile(b, B) = Decision("wait", NoProfile, waiting)
    BY <1>5 DEF Reconcile
  <2> HIDE DEF counted, waiting
  <2> QED
    BY <2>1, <1>3, <1>4, <1>5 DEF Decision
<1>6. CASE B = {}
  <2>1. Reconcile(b, B) = Decision("commit", b.ctx.to, counted)
    BY <1>6 DEF Reconcile
  <2>2. b.ctx.to \in Profiles /\ b.ctx.to # NoProfile
    BY <1>1, ProfilesAssumption
  <2> HIDE DEF counted, waiting
  <2> QED
    BY <2>1, <2>2, <1>3, <1>6 DEF Decision
<1> QED
  BY <1>5, <1>6

(* A cancelled record has no switch in it. *)
LEMMA CancelResult ==
    ASSUME NEW b \in BrokerFiles
    PROVE  Cancelled(b) \in BrokerFiles /\ ~Cancelled(b).ctx.inProgress
<1>1. CASE b.ctx.inProgress
  <2>1. Cancelled(b) = [b EXCEPT !.ctx = NoSwitch, !.state = "active"]
    BY <1>1 DEF Cancelled
  <2>2. NoSwitch \in Contexts /\ ~NoSwitch.inProgress
    BY DEF Contexts, NoSwitch
  <2> QED
    BY <2>1, <2>2 DEF BrokerFiles, BrokerStates
<1>2. CASE ~b.ctx.inProgress
  BY <1>2 DEF Cancelled
<1> QED
  BY <1>1, <1>2

--------------------------------------------------------------------------------
(* Type correctness *)

(* The free lock is well typed. *)
LEMMA FreeType == Free \in Holders
<1>1. NoSwitch \in Contexts
  BY DEF Contexts
<1>2. "starting" \in BrokerStates
  BY DEF BrokerStates
<1> QED
  BY <1>1, <1>2 DEF Free, Holders, BrokerFiles

(* What a commit leaves in broker.json is well typed. *)
LEMMA ClearedType ==
    /\ [state |-> "active", ctx |-> NoSwitch] \in BrokerFiles
    /\ [state |-> "reloading_sessions", ctx |-> NoSwitch] \in BrokerFiles
BY DEF BrokerFiles, BrokerStates, Contexts

(* The first state is well typed. *)
LEMMA InitType == Init => TypeOK
<1> SUFFICES ASSUME Init PROVE TypeOK
  OBVIOUS
<1>1. NoEntry \in Entries
  BY DEF NoEntry, Entries
<1> QED
  BY <1>1, FreeType, ClearedType DEF Init, TypeOK, RecordStates, HostStates

(* The steps that take switchMu store a decision of the right type. *)
LEMMA LockType ==
    ASSUME TypeOK, NEW s \in Sessions, NEW p \in Profiles
    PROVE  /\ SelectProfile(s, p) => mu' \in Holders
           /\ ForcePendingSwitch(s) => mu' \in Holders
           /\ CancelPendingSwitch(s) => mu' \in Holders
<1>0. /\ broker \in BrokerFiles /\ selected \in Profiles /\ Busy \in SUBSET Sessions
      /\ broker.ctx \in Contexts
  BY BusyType DEF TypeOK, BrokerFiles
<1>1. ASSUME SelectProfile(s, p) PROVE mu' \in Holders
  <2> DEFINE d == RequestSwitch(selected, broker, s, p, Busy)
  <2>1. d.outcome # "refused" /\ mu' = Holding("select", s, d)
    BY <1>1 DEF SelectProfile
  <2>2. d.broker \in BrokerFiles /\ d.commit \in {p, NoProfile}
    BY <1>0, <2>1, RequestSwitchResult
  <2> HIDE DEF d
  <2> QED
    BY <2>1, <2>2 DEF Holding, Holders
<1>2. ASSUME ForcePendingSwitch(s) PROVE mu' \in Holders
  <2>1. broker.ctx.to \in Profiles
    BY <1>0, <1>2, ContextType DEF ForcePendingSwitch, MayForce
  <2> QED
    BY <1>0, <1>2, <2>1 DEF ForcePendingSwitch, Holding, Decision, Holders
<1>3. ASSUME CancelPendingSwitch(s) PROVE mu' \in Holders
  <2>1. Cancelled(broker) \in BrokerFiles
    BY <1>0, CancelResult
  <2> QED
    BY <1>3, <2>1 DEF CancelPendingSwitch, Holding, Decision, Holders
<1> QED
  BY <1>1, <1>2, <1>3

(* And so does a reconcile that takes it. *)
LEMMA ReconcileLockType ==
    ASSUME TypeOK, ReconcilePendingSwitch
    PROVE  mu' \in Holders
<1>1. broker \in BrokerFiles /\ Busy \in SUBSET Sessions
  BY BusyType DEF TypeOK
<1>2. CASE Pending
  <2> DEFINE d == Reconcile(broker, Busy)
  <2>1. mu' = Holding("reconcile", NoSession, d)
    BY <1>2 DEF ReconcilePendingSwitch
  <2>2. d.broker \in BrokerFiles /\ d.commit \in Profiles \cup {NoProfile}
    BY <1>1, <1>2, ReconcileResult DEF Pending
  <2> HIDE DEF d
  <2> QED
    BY <2>1, <2>2 DEF Holding, Holders
<1>3. CASE ~Pending
  BY <1>3, FreeType DEF ReconcilePendingSwitch
<1> QED
  BY <1>2, <1>3

(* Handlers that hold switchMu keep the types. *)
LEMMA LockedTypeStep == TypeOK /\ Locked => TypeOK'
<1> SUFFICES ASSUME TypeOK, Locked PROVE TypeOK'
  OBVIOUS
<1> USE DEF TypeOK
<1>1. ASSUME NEW s \in Sessions, NEW p \in Profiles, SelectProfile(s, p)
      PROVE  TypeOK'
  <2>1. mu' \in Holders
    BY <1>1, LockType
  <2> QED
    BY <1>1, <2>1 DEF SelectProfile, sessionVars
<1>2. ASSUME NEW s \in Sessions, ForcePendingSwitch(s) \/ CancelPendingSwitch(s)
      PROVE  TypeOK'
  <2>1. mu' \in Holders
    BY <1>2, LockType
  <2> QED
    BY <1>2, <2>1 DEF ForcePendingSwitch, CancelPendingSwitch, sessionVars
<1>3. ASSUME ReconcilePendingSwitch, hostQ' \subseteq hostQ, gatewayQ' \subseteq gatewayQ
      PROVE  TypeOK'
  <2>1. mu' \in Holders
    BY <1>3, ReconcileLockType
  <2> QED
    BY <1>3, <2>1 DEF ReconcilePendingSwitch, sessionVars
<1>4. ASSUME NEW s \in Sessions, ReconcileForHost(s)
      PROVE  TypeOK'
  BY <1>3, <1>4 DEF ReconcileForHost
<1>5. ASSUME NEW s \in Sessions, NEW c \in Conns, ReconcileForGateway(s, c)
      PROVE  TypeOK'
  BY <1>3, <1>5 DEF ReconcileForGateway
<1>6. ASSUME SaveDecision PROVE TypeOK'
  <2>1. mu.broker \in BrokerFiles
    BY DEF Holders
  <2> QED
    BY <1>6, <2>1, FreeType DEF SaveDecision, sessionVars
<1>7. ASSUME CommitProfileSwitch PROVE TypeOK'
  <2>1. mu.commit \in Profiles
    BY <1>7 DEF CommitProfileSwitch, Holders
  <2> QED
    BY <1>7, <2>1, FreeType, ClearedType DEF CommitProfileSwitch, sessionVars
<1> QED
  BY <1>1, <1>2, <1>4, <1>5, <1>6, <1>7 DEF Locked

(* So do the steps of a window. *)
LEMMA WindowTypeStep ==
    ASSUME TypeOK, NEW s \in Sessions, Window(s)
    PROVE  TypeOK'
<1> USE DEF TypeOK, switchVars
<1>0. /\ entry[s] \in Entries /\ NoEntry \in Entries
      /\ HostRegistered(entry[s]) \in Entries
      /\ HostDisconnected(entry[s]) \in Entries
  BY EntryOperations
<1>1. CASE Register(s)
  BY <1>0, <1>1 DEF Register, RecordStates, HostStates
<1>2. CASE Unregister(s)
  BY <1>0, <1>2 DEF Unregister, RecordStates, HostStates
<1>3. CASE ConnectionClosed(s)
  BY <1>0, <1>3 DEF ConnectionClosed, HostStates
<1>4. CASE PrepareLaunchCheck(s)
  BY <1>4 DEF PrepareLaunchCheck, HostStates
<1>5. CASE PrepareLaunchEnsure(s)
  BY <1>5, ClearedType DEF PrepareLaunchEnsure, HostStates
<1>6. CASE PrepareLaunchRecord(s)
  BY <1>6 DEF PrepareLaunchRecord, RecordStates, HostStates
<1>7. CASE ReportInCodex(s)
  BY <1>7 DEF ReportInCodex, RecordStates, HostStates
<1>8. CASE ReportReloading(s)
  BY <1>8 DEF ReportReloading, RecordStates, HostStates
<1>9. CASE ReturnHome(s)
  BY <1>9 DEF ReturnHome, RecordStates, HostStates
<1>10. CASE StartFails(s)
  BY <1>10 DEF StartFails, HostStates
<1> QED
  BY <1>1, <1>2, <1>3, <1>4, <1>5, <1>6, <1>7, <1>8, <1>9, <1>10 DEF Window

(* So do gateway callbacks. *)
LEMMA GatewayTypeStep ==
    ASSUME TypeOK, NEW s \in Sessions, NEW c \in Conns, Gateway(s, c)
    PROVE  TypeOK'
<1> USE DEF TypeOK, switchVars
<1>0. entry[s] \in Entries
  OBVIOUS
<1>1. ASSUME NEW e \in Entries, Callback(s, c, e), open' \subseteq open \cup {<<s, c>>}
      PROVE  TypeOK'
  BY <1>1 DEF Callback
<1>2. CASE GatewayConnected(s, c)
  BY <1>0, <1>1, <1>2, EntryOperations DEF GatewayConnected
<1>3. CASE GatewayDisconnected(s, c)
  BY <1>0, <1>1, <1>3, EntryOperations DEF GatewayDisconnected
<1>4. CASE TurnStarted(s, c)
  BY <1>0, <1>1, <1>4, EntryOperations DEF TurnStarted
<1>5. CASE TurnCompleted(s, c)
  BY <1>0, <1>1, <1>5, EntryOperations DEF TurnCompleted
<1>6. CASE ThreadStatus(s, c)
  BY <1>0, <1>1, <1>6, EntryOperations DEF ThreadStatus
<1> QED
  BY <1>2, <1>3, <1>4, <1>5, <1>6 DEF Gateway

(* Every reachable state has the types TypeOK gives its variables: in
   particular no turn count goes below zero and no pending switch is without
   a target and an owner. *)
THEOREM TypeCorrect == Spec => []TypeOK
<1>1. TypeOK /\ UNCHANGED vars => TypeOK'
  BY DEF TypeOK, vars
<1>2. TypeOK /\ [Next]_vars => TypeOK'
  BY <1>1, LockedTypeStep, WindowTypeStep, GatewayTypeStep DEF Next
<1> QED
  BY InitType, <1>2, PTL DEF Spec
--------------------------------------------------------------------------------
(* No lost wakeup *)

(* The pending switch ctx waits for the sessions that are busy now. *)
Accurate(ctx) == Busy # {} /\ ctx.blocking = Cardinality(Busy)

(* What makes NoLostWakeup inductive: a record in hand that is to be saved
   must be accurate when the save finds everything quiet, as the one in the
   file must be while nobody holds the lock. *)
WakeupInv ==
    /\ TypeOK
    /\ mu.op = "none" => mu = Free
    /\ mu.op = "none" /\ Pending /\ Quiet => Accurate(broker.ctx)
    /\ mu.op # "none" /\ mu.commit = NoProfile /\ mu.broker.ctx.inProgress /\ Quiet
        => Accurate(mu.broker.ctx)

(* A commit that is not interrupted before broker.json is written. *)
CommitsClear == Failures \subseteq {"ensure"}

(* Nothing is pending at first. *)
LEMMA WakeupInit == Init => WakeupInv
<1> SUFFICES ASSUME Init PROVE WakeupInv
  OBVIOUS
<1>1. TypeOK
  BY InitType
<1>2. mu = Free /\ mu.op = "none" /\ ~Pending
  BY DEF Init, Free, Pending, NoSwitch
<1> QED
  BY <1>1, <1>2 DEF WakeupInv

(* Steps that end with somebody on the way keep the invariant. *)
LEMMA NotQuietStep ==
    ASSUME WakeupInv, TypeOK', UNCHANGED mu, ~Quiet'
    PROVE  WakeupInv'
BY DEF WakeupInv

(* So do steps that leave the sessions alone and no switch appears. *)
LEMMA SameSessionsStep ==
    ASSUME WakeupInv, TypeOK', UNCHANGED mu, Busy' = Busy, Quiet' => Quiet,
           broker' = broker \/ ~Pending'
    PROVE  WakeupInv'
<1>1. Pending' => Pending /\ broker' = broker
  BY DEF Pending
<1> QED
  BY <1>1 DEF WakeupInv, Accurate

(* Each window step leaves somebody on the way, or the sessions as they were. *)
LEMMA WakeupWindow ==
    ASSUME WakeupInv, NEW s \in Sessions, Window(s)
    PROVE  WakeupInv'
<1>1. TypeOK /\ TypeOK'
  BY WindowTypeStep DEF WakeupInv
<1>2. /\ record \in [Sessions -> RecordStates] /\ host \in [Sessions -> HostStates]
      /\ entry \in [Sessions -> Entries]
  BY <1>1 DEF TypeOK
<1>3. UNCHANGED mu
  BY DEF Window, Register, Unregister, ConnectionClosed, PrepareLaunchCheck,
         PrepareLaunchEnsure, PrepareLaunchRecord, ReportInCodex, ReportReloading,
         ReturnHome, StartFails, switchVars
<1>4. CASE hostQ' = hostQ \cup {s}
  BY <1>1, <1>3, <1>4, NotQuietStep DEF Quiet
<1>5. CASE Register(s)
  <2>1. ~IsBusy(record[s], entry[s]) /\ ~IsBusy(record'[s], entry'[s])
    BY <1>2, <1>5 DEF Register, IsBusy, IsLive
  <2>2. \A t \in Sessions \ {s} : record'[t] = record[t] /\ entry'[t] = entry[t]
    BY <1>2, <1>5 DEF Register
  <2>3. Busy' = Busy
    BY <2>1, <2>2 DEF Busy
  <2>4. Quiet' => Quiet
    BY <1>2, <1>5 DEF Register, Quiet
  <2> QED
    BY <1>1, <1>3, <1>5, <2>3, <2>4, SameSessionsStep DEF Register, switchVars
<1>6. CASE PrepareLaunchCheck(s) \/ StartFails(s)
  <2>1. Busy' = Busy
    BY <1>6 DEF PrepareLaunchCheck, StartFails, Busy
  <2>2. Quiet' => Quiet
    BY <1>2, <1>6 DEF PrepareLaunchCheck, StartFails, Quiet
  <2> QED
    BY <1>1, <1>3, <1>6, <2>1, <2>2, SameSessionsStep
       DEF PrepareLaunchCheck, StartFails, switchVars
<1>7. CASE PrepareLaunchEnsure(s)
  <2>1. Busy' = Busy
    BY <1>7 DEF PrepareLaunchEnsure, Busy
  <2>2. Quiet' => Quiet
    BY <1>2, <1>7 DEF PrepareLaunchEnsure, Quiet
  <2>3. broker' = broker \/ ~Pending'
    BY <1>7 DEF PrepareLaunchEnsure, Pending, NoSwitch
  <2> QED
    BY <1>1, <1>3, <2>1, <2>2, <2>3, SameSessionsStep
<1>8. CASE PrepareLaunchRecord(s)
  <2>1. ~Quiet'
    BY <1>2, <1>8 DEF PrepareLaunchRecord, Quiet
  <2> QED
    BY <1>1, <1>3, <2>1, NotQuietStep
<1> QED
  BY <1>4, <1>5, <1>6, <1>7, <1>8
     DEF Window, Unregister, ConnectionClosed, ReportInCodex, ReportReloading, ReturnHome

(* Every callback has a reconcile before it. *)
LEMMA WakeupGateway ==
    ASSUME WakeupInv, NEW s \in Sessions, NEW c \in Conns, Gateway(s, c)
    PROVE  WakeupInv'
<1>1. TypeOK'
  BY GatewayTypeStep DEF WakeupInv
<1>2. UNCHANGED mu /\ gatewayQ' = gatewayQ \cup {<<s, c>>}
  BY DEF Gateway, GatewayConnected, GatewayDisconnected, TurnStarted, TurnCompleted,
         ThreadStatus, Callback, switchVars
<1>3. ~Quiet'
  BY <1>2 DEF Quiet
<1> QED
  BY <1>1, <1>2, <1>3, NotQuietStep

(* What the holder of switchMu saves is what it read, or somebody is on the way. *)
LEMMA WakeupLocked ==
    ASSUME WakeupInv, CommitsClear, Locked
    PROVE  WakeupInv'
<1>1. TypeOK /\ TypeOK'
  BY LockedTypeStep DEF WakeupInv
<1>2. /\ broker \in BrokerFiles /\ selected \in Profiles /\ Busy \in SUBSET Sessions
  BY <1>1, BusyType DEF TypeOK
<1>3. Busy' = Busy
  <2>1. UNCHANGED <<record, entry>>
    BY DEF Locked, SelectProfile, ForcePendingSwitch, CancelPendingSwitch,
           ReconcileForHost, ReconcileForGateway, ReconcilePendingSwitch,
           SaveDecision, CommitProfileSwitch, sessionVars
  <2> QED
    BY <2>1 DEF Busy
<1>4. Free.op = "none" /\ Free.commit = NoProfile
  BY DEF Free
<1>5. ASSUME NEW s \in Sessions, NEW p \in Profiles, SelectProfile(s, p)
      PROVE  WakeupInv'
  <2> DEFINE d == RequestSwitch(selected, broker, s, p, Busy)
  <2>1. /\ mu = Free /\ mu'.op = "select" /\ mu'.commit = d.commit
        /\ mu'.broker = d.broker /\ d.outcome # "refused"
    BY <1>5 DEF SelectProfile, Holding
  <2>2. Quiet' = Quiet /\ broker' = broker
    BY <1>5 DEF SelectProfile, sessionVars, Quiet
  <2>3. d.broker.ctx.inProgress /\ d.commit = NoProfile =>
          /\ broker.ctx.inProgress \/ Busy # {}
          /\ d.broker = broker \/ d.broker.ctx.blocking = Cardinality(Busy)
    BY <1>2, <2>1, RequestSwitchResult
  <2> HIDE DEF d
  <2>4. Pending /\ Quiet => Accurate(broker.ctx)
    BY <1>4, <2>1 DEF WakeupInv
  <2>5. d.broker.ctx.inProgress /\ d.commit = NoProfile /\ Quiet => Accurate(d.broker.ctx)
    BY <2>3, <2>4 DEF Accurate, Pending
  <2> QED
    BY <1>1, <1>3, <2>1, <2>2, <2>5 DEF WakeupInv, Accurate
<1>6. ASSUME NEW s \in Sessions, ForcePendingSwitch(s) PROVE WakeupInv'
  <2>1. mu'.op = "force" /\ mu'.commit = broker.ctx.to
    BY <1>6 DEF ForcePendingSwitch, Holding, Decision
  <2>2. broker.ctx.to # NoProfile
    BY <1>2, <1>6, ContextType, ProfilesAssumption
       DEF ForcePendingSwitch, MayForce, BrokerFiles
  <2> QED
    BY <1>1, <2>1, <2>2 DEF WakeupInv
<1>7. ASSUME NEW s \in Sessions, CancelPendingSwitch(s) PROVE WakeupInv'
  <2>1. mu'.op = "cancel" /\ mu'.broker = Cancelled(broker)
    BY <1>7 DEF CancelPendingSwitch, Holding, Decision
  <2>2. ~mu'.broker.ctx.inProgress
    BY <1>2, <2>1, CancelResult
  <2> QED
    BY <1>1, <2>1, <2>2 DEF WakeupInv
<1>8. ASSUME ReconcilePendingSwitch PROVE WakeupInv'
  <2>1. CASE Pending
    <3> DEFINE d == Reconcile(broker, Busy)
    <3>1. mu'.op = "reconcile" /\ mu'.commit = d.commit /\ mu'.broker = d.broker
      BY <1>8, <2>1 DEF ReconcilePendingSwitch, Holding
    <3>2. /\ d.broker.ctx.blocking = Cardinality(Busy)
          /\ d.commit = NoProfile => Busy # {}
      BY <1>2, <2>1, ReconcileResult DEF Pending
    <3> HIDE DEF d
    <3> QED
      BY <1>1, <1>3, <3>1, <3>2 DEF WakeupInv, Accurate
  <2>2. CASE ~Pending
    <3>1. mu' = Free /\ ~Pending'
      BY <1>8, <2>2 DEF ReconcilePendingSwitch, Pending
    <3> QED
      BY <1>1, <1>4, <3>1 DEF WakeupInv
  <2> QED
    BY <2>1, <2>2
<1>9. ASSUME SaveDecision PROVE WakeupInv'
  <2>1. mu' = Free /\ broker' = mu.broker /\ mu.op # "none" /\ mu.commit = NoProfile
    BY <1>9 DEF SaveDecision
  <2>2. Quiet' = Quiet
    BY <1>9 DEF SaveDecision, sessionVars, Quiet
  <2> QED
    BY <1>1, <1>3, <1>4, <2>1, <2>2 DEF WakeupInv, Accurate, Pending
<1>10. ASSUME CommitProfileSwitch PROVE WakeupInv'
  <2>1. mu' = Free /\ ~Pending'
    BY <1>10 DEF CommitProfileSwitch, CommitsClear, Pending, NoSwitch
  <2> QED
    BY <1>1, <1>4, <2>1 DEF WakeupInv
<1> QED
  BY <1>5, <1>6, <1>7, <1>8, <1>9, <1>10 DEF Locked, ReconcileForHost, ReconcileForGateway

(* The strengthening is an invariant. *)
LEMMA WakeupInductive ==
    ASSUME CommitsClear
    PROVE  Spec => []WakeupInv
<1>1. WakeupInv /\ UNCHANGED vars => WakeupInv'
  <2> SUFFICES ASSUME WakeupInv, UNCHANGED vars PROVE WakeupInv'
    OBVIOUS
  <2>1. TypeOK' /\ UNCHANGED mu
    BY DEF WakeupInv, TypeOK, vars
  <2>2. Busy' = Busy /\ Quiet' = Quiet /\ broker' = broker
    BY DEF vars, Busy, Quiet
  <2> QED
    BY <2>1, <2>2, SameSessionsStep
<1>2. WakeupInv /\ [Next]_vars => WakeupInv'
  BY <1>1, WakeupWindow, WakeupGateway, WakeupLocked DEF Next
<1> QED
  BY WakeupInit, <1>2, PTL DEF Spec

(* A pending switch that nothing on its way will look at again waits for a
   session that is busy: whichever handlers interleave, no wakeup is lost, as
   long as a commit gets as far as writing broker.json. *)
THEOREM WakeupNeverLost ==
    ASSUME CommitsClear
    PROVE  Spec => []NoLostWakeup
<1>1. WakeupInv => NoLostWakeup
  BY DEF WakeupInv, NoLostWakeup, Accurate, Free
<1> QED
  BY <1>1, WakeupInductive, PTL

(* The stored count of blocking sessions is then the true one. *)
THEOREM BlockingCountTrue ==
    ASSUME CommitsClear
    PROVE  Spec => []BlockingCountCurrent
<1>1. WakeupInv => BlockingCountCurrent
  BY DEF WakeupInv, BlockingCountCurrent, Accurate, Free
<1> QED
  BY <1>1, WakeupInductive, PTL
--------------------------------------------------------------------------------
(* The owner of a pending switch *)

(* A record in hand that would be saved over a pending switch has the same
   initiator as the file. *)
OwnerInv ==
    /\ TypeOK
    /\ mu.op = "none" => mu = Free
    /\ mu.op # "none" /\ mu.commit = NoProfile /\ mu.broker.ctx.inProgress /\ Pending
        => mu.broker.ctx.by = broker.ctx.by

(* Every step keeps who owns the pending switch and the decision in hand. *)
LEMMA OwnerStep == OwnerInv /\ [Next]_vars => OwnerInv'
<1> SUFFICES ASSUME OwnerInv, [Next]_vars PROVE OwnerInv'
  OBVIOUS
<1>1. TypeOK /\ TypeOK'
  <2>1. TypeOK /\ UNCHANGED vars => TypeOK'
    BY DEF TypeOK, vars
  <2> QED
    BY <2>1, LockedTypeStep, WindowTypeStep, GatewayTypeStep DEF OwnerInv, Next
<1>2. /\ broker \in BrokerFiles /\ selected \in Profiles /\ Busy \in SUBSET Sessions
  BY <1>1, BusyType DEF TypeOK
<1>3. ASSUME UNCHANGED mu, broker' = broker \/ ~Pending'
      PROVE  OwnerInv'
  <2>1. Pending' => Pending /\ broker' = broker
    BY <1>3 DEF Pending
  <2> QED
    BY <1>1, <1>3, <2>1 DEF OwnerInv
<1>4. ASSUME mu' = Free PROVE OwnerInv'
  BY <1>1, <1>4 DEF OwnerInv, Free
<1>5. ASSUME NEW s \in Sessions, NEW p \in Profiles, SelectProfile(s, p)
      PROVE  OwnerInv'
  <2> DEFINE d == RequestSwitch(selected, broker, s, p, Busy)
  <2>1. /\ mu'.op = "select" /\ mu'.commit = d.commit /\ mu'.broker = d.broker
        /\ d.outcome # "refused" /\ broker' = broker
    BY <1>5 DEF SelectProfile, Holding
  <2>2. /\ broker.ctx.inProgress => broker.ctx.by = s
        /\ d.broker.ctx.inProgress /\ d.commit = NoProfile => d.broker.ctx.by = s
    BY <1>2, <2>1, RequestSwitchResult
  <2> HIDE DEF d
  <2> QED
    BY <1>1, <2>1, <2>2 DEF OwnerInv, Pending
<1>6. ASSUME NEW s \in Sessions, ForcePendingSwitch(s) PROVE OwnerInv'
  <2>1. mu'.op = "force" /\ mu'.broker = broker /\ broker' = broker
    BY <1>6 DEF ForcePendingSwitch, Holding, Decision
  <2> QED
    BY <1>1, <2>1 DEF OwnerInv
<1>7. ASSUME NEW s \in Sessions, CancelPendingSwitch(s) PROVE OwnerInv'
  <2>1. mu'.op = "cancel" /\ mu'.broker = Cancelled(broker)
    BY <1>7 DEF CancelPendingSwitch, Holding, Decision
  <2>2. ~mu'.broker.ctx.inProgress
    BY <1>2, <2>1, CancelResult
  <2> QED
    BY <1>1, <2>1, <2>2 DEF OwnerInv
<1>8. ASSUME ReconcilePendingSwitch PROVE OwnerInv'
  <2>1. CASE Pending
    <3> DEFINE d == Reconcile(broker, Busy)
    <3>1. mu'.op = "reconcile" /\ mu'.broker = d.broker /\ broker' = broker
      BY <1>8, <2>1 DEF ReconcilePendingSwitch, Holding
    <3>2. d.broker.ctx.by = broker.ctx.by
      BY <1>2, <2>1, ReconcileResult DEF Pending
    <3> HIDE DEF d
    <3> QED
      BY <1>1, <3>1, <3>2 DEF OwnerInv
  <2>2. CASE ~Pending
    BY <1>4, <1>8, <2>2 DEF ReconcilePendingSwitch
  <2> QED
    BY <2>1, <2>2
<1>9. ASSUME SaveDecision \/ CommitProfileSwitch PROVE OwnerInv'
  BY <1>4, <1>9 DEF SaveDecision, CommitProfileSwitch
<1>10. ASSUME NEW s \in Sessions, Window(s) PROVE OwnerInv'
  <2>1. UNCHANGED mu /\ (broker' = broker \/ ~Pending')
    BY <1>10
       DEF Window, Register, Unregister, ConnectionClosed, PrepareLaunchCheck,
           PrepareLaunchEnsure, PrepareLaunchRecord, ReportInCodex, ReportReloading,
           ReturnHome, StartFails, switchVars, Pending, NoSwitch
  <2> QED
    BY <1>3, <2>1
<1>11. ASSUME NEW s \in Sessions, NEW c \in Conns, Gateway(s, c) PROVE OwnerInv'
  <2>1. UNCHANGED mu /\ broker' = broker
    BY <1>11 DEF Gateway, GatewayConnected, GatewayDisconnected, TurnStarted,
                 TurnCompleted, ThreadStatus, Callback, switchVars
  <2> QED
    BY <1>3, <2>1
<1>12. ASSUME UNCHANGED vars PROVE OwnerInv'
  BY <1>3, <1>12 DEF vars
<1> QED
  BY <1>5, <1>6, <1>7, <1>8, <1>9, <1>10, <1>11, <1>12
     DEF Next, Locked, ReconcileForHost, ReconcileForGateway

(* The strengthening is an invariant. *)
LEMMA OwnerInductive == Spec => []OwnerInv
<1>1. Init => OwnerInv
  BY InitType DEF Init, OwnerInv, Free
<1> QED
  BY <1>1, OwnerStep, PTL DEF Spec

(* While a switch is pending it keeps its initiator, whatever is saved over
   it and whichever commit steps fail. *)
THEOREM OwnerKept == Spec => OwnerKeepsPending
<1>1. OwnerInv /\ [Next]_vars => [Pending /\ Pending' => broker'.ctx.by = broker.ctx.by]_vars
  <2> SUFFICES ASSUME OwnerInv, Next, Pending, Pending'
               PROVE  broker'.ctx.by = broker.ctx.by
    OBVIOUS
  <2>1. CASE SaveDecision
    BY <2>1 DEF SaveDecision, OwnerInv, Pending
  <2>2. CASE broker' = broker
    BY <2>2
  <2>3. CASE CommitProfileSwitch
    BY <2>3, <2>2 DEF CommitProfileSwitch, Pending, NoSwitch
  <2>4. CASE \E s \in Sessions : PrepareLaunchEnsure(s)
    BY <2>4, <2>2 DEF PrepareLaunchEnsure, Pending, NoSwitch
  <2>5. \/ SaveDecision \/ CommitProfileSwitch \/ broker' = broker
        \/ \E s \in Sessions : PrepareLaunchEnsure(s)
    BY DEF Next, Locked, SelectProfile, ForcePendingSwitch, CancelPendingSwitch,
           ReconcileForHost, ReconcileForGateway, ReconcilePendingSwitch,
           Window, Register, Unregister, ConnectionClosed, PrepareLaunchCheck,
           PrepareLaunchRecord, ReportInCodex, ReportReloading, ReturnHome, StartFails,
           Gateway, GatewayConnected, GatewayDisconnected, TurnStarted, TurnCompleted,
           ThreadStatus, Callback, switchVars
  <2> QED
    BY <2>1, <2>2, <2>3, <2>4, <2>5
<1> QED
  BY <1>1, OwnerInductive, PTL DEF Spec, OwnerKeepsPending
--------------------------------------------------------------------------------
(* Refinement *)

(* With the lock free the abstract request is the one in broker.json. *)
LEMMA BarOfFree ==
    ASSUME mu = Free
    PROVE  wantedBar = broker.ctx.to /\ ownerBar = broker.ctx.by
BY DEF Free, wantedBar, ownerBar

(* A cleared context is no request. *)
LEMMA BarOfCleared ==
    ASSUME broker \in BrokerFiles
    PROVE  /\ ~Pending => broker.ctx.to = NoProfile /\ broker.ctx.by = NoSession
           /\ Pending => broker.ctx.to # NoProfile /\ broker.ctx.to \in Profiles
<1>1. broker.ctx \in Contexts
  BY DEF BrokerFiles
<1>2. ASSUME ~Pending PROVE broker.ctx.to = NoProfile /\ broker.ctx.by = NoSession
  <2>1. broker.ctx = NoSwitch
    BY <1>1, <1>2, ContextType DEF Pending
  <2> QED
    BY <2>1 DEF NoSwitch
<1>3. ASSUME Pending PROVE broker.ctx.to # NoProfile /\ broker.ctx.to \in Profiles
  <2>1. broker.ctx.to \in Profiles
    BY <1>1, <1>3, ContextType DEF Pending
  <2> QED
    BY <2>1, ProfilesAssumption
<1> QED
  BY <1>2, <1>3

(* What a request does to the abstract switch, by its outcome. *)
LEMMA SelectRefines ==
    ASSUME OwnerInv, NEW s \in Sessions, NEW p \in Profiles, SelectProfile(s, p)
    PROVE  PS!Ask(s, p) \/ PS!Retarget(s, p) \/ UNCHANGED PS!vars
<1> DEFINE d == RequestSwitch(selected, broker, s, p, Busy)
           pb == PendingBroker(broker, s, selected, p, Busy)
<1>1. /\ mu = Free /\ mu' = Holding("select", s, d) /\ d.outcome # "refused"
      /\ UNCHANGED <<selected, epoch, broker>>
  BY DEF SelectProfile
<1>2. broker \in BrokerFiles /\ selected \in Profiles /\ Busy \in SUBSET Sessions
  BY BusyType DEF OwnerInv, TypeOK
<1>3. wantedBar = broker.ctx.to /\ ownerBar = broker.ctx.by
  BY <1>1, BarOfFree
<1>4. p # NoProfile
  BY ProfilesAssumption
<1>5. pb.ctx.to = p /\ pb.ctx.by = s
  <2>1. selected \in Profiles \cup {NoProfile}
    BY <1>2
  <2>2. pb.ctx = [inProgress |-> TRUE, from |-> selected, to |-> p, by |-> s,
                  blocking |-> Cardinality(Busy)]
    BY <1>2, <2>1, PendingBrokerType
  <2> QED
    BY <2>2
<1>6. /\ mu'.op = "select" /\ mu'.by = s /\ mu'.commit = d.commit /\ mu'.broker = d.broker
  BY <1>1 DEF Holding
<1>7. Pending \in BOOLEAN
  BY <1>2, ContextType DEF Pending, BrokerFiles
<1>8. CASE Pending /\ broker.ctx.by # s
  <2>1. d = Decision("refused", NoProfile, broker)
    BY <1>8 DEF RequestSwitch, Pending
  <2> QED
    BY <1>1, <2>1 DEF Decision
<1>9. CASE Pending /\ broker.ctx.by = s
  <2>1. \/ d = Decision("noop", NoProfile, broker)
        \/ d = Decision("updated_pending", NoProfile, pb)
    BY <1>9 DEF RequestSwitch, Pending
  <2>2. broker.ctx.to # NoProfile
    BY <1>2, <1>9, BarOfCleared
  <2> HIDE DEF d, pb
  <2>3. CASE d = Decision("noop", NoProfile, broker)
    BY <1>1, <1>3, <1>6, <2>3 DEF Decision, wantedBar, ownerBar, PS!vars
  <2>4. CASE d = Decision("updated_pending", NoProfile, pb)
    BY <1>1, <1>3, <1>5, <1>6, <1>9, <2>2, <2>4
       DEF Decision, wantedBar, ownerBar, PS!Retarget
  <2> QED
    BY <2>1, <2>3, <2>4
<1>10. CASE ~Pending
  <2>1. \/ d = Decision("noop", NoProfile, broker)
        \/ selected # p /\ d = Decision("pending", NoProfile, pb)
        \/ selected # p /\ d = Decision("switched", p, broker)
    BY <1>10 DEF RequestSwitch, Pending
  <2>2. broker.ctx.to = NoProfile
    BY <1>2, <1>10, BarOfCleared
  <2> HIDE DEF d, pb
  <2>3. CASE d = Decision("noop", NoProfile, broker)
    BY <1>1, <1>3, <1>6, <2>3 DEF Decision, wantedBar, ownerBar, PS!vars
  <2>4. CASE selected # p /\ d = Decision("pending", NoProfile, pb)
    BY <1>1, <1>3, <1>5, <1>6, <2>2, <2>4 DEF Decision, wantedBar, ownerBar, PS!Ask
  <2>5. CASE selected # p /\ d = Decision("switched", p, broker)
    BY <1>1, <1>3, <1>4, <1>6, <2>2, <2>5 DEF Decision, wantedBar, ownerBar, PS!Ask
  <2> QED
    BY <2>1, <2>3, <2>4, <2>5
<1> QED
  BY <1>7, <1>8, <1>9, <1>10

(* A cleared record saved or marked with the lock free withdraws the request,
   if there was one; in hand, nothing is seen of it. *)
LEMMA EnsureRefines ==
    ASSUME OwnerInv, NEW s \in Sessions, PrepareLaunchEnsure(s)
    PROVE  PS!Withdraw \/ UNCHANGED PS!vars
<1>1. /\ UNCHANGED <<selected, epoch, mu>>
      /\ broker' = broker \/ broker'.ctx = NoSwitch
  BY DEF PrepareLaunchEnsure
<1>2. broker \in BrokerFiles /\ (mu.op = "none" => mu = Free)
  BY DEF OwnerInv, TypeOK
<1>3. CASE mu.op # "none"
  BY <1>1, <1>3 DEF wantedBar, ownerBar, PS!vars
<1>4. CASE mu.op = "none" /\ broker' = broker
  BY <1>1, <1>4 DEF wantedBar, ownerBar, PS!vars
<1>5. CASE mu.op = "none" /\ broker'.ctx = NoSwitch
  <2>1. /\ wantedBar = broker.ctx.to /\ ownerBar = broker.ctx.by
        /\ wantedBar' = NoProfile /\ ownerBar' = NoSession
    BY <1>1, <1>5 DEF wantedBar, ownerBar, NoSwitch
  <2>2. CASE broker.ctx.to = NoProfile
    <3>1. broker.ctx.by = NoSession
      BY <1>2, <2>2, BarOfCleared DEF BrokerFiles
    <3> QED
      BY <1>1, <2>1, <2>2, <3>1 DEF PS!vars
  <2>3. CASE broker.ctx.to # NoProfile
    BY <1>1, <2>1, <2>3 DEF PS!Withdraw
  <2> QED
    BY <2>2, <2>3
<1> QED
  BY <1>1, <1>3, <1>4, <1>5

(* A handler under switchMu takes an abstract step or none. *)
LEMMA LockedRefines ==
    ASSUME OwnerInv, CommitsClear, Locked
    PROVE  [PS!Next]_(PS!vars)
<1>1. broker \in BrokerFiles /\ Busy \in SUBSET Sessions /\ mu \in Holders
  BY BusyType DEF OwnerInv, TypeOK
<1>2. ASSUME NEW s \in Sessions, NEW p \in Profiles, SelectProfile(s, p)
      PROVE  [PS!Next]_(PS!vars)
  BY <1>2, SelectRefines DEF PS!Next
<1>3. ASSUME NEW s \in Sessions, ForcePendingSwitch(s)
      PROVE  UNCHANGED PS!vars
  <2>1. /\ mu = Free /\ UNCHANGED <<selected, epoch, broker>>
        /\ mu'.op = "force" /\ mu'.commit = broker.ctx.to /\ mu'.broker = broker
    BY <1>3 DEF ForcePendingSwitch, Holding, Decision
  <2> QED
    BY <2>1, BarOfFree DEF wantedBar, ownerBar, PS!vars
<1>4. ASSUME NEW s \in Sessions, CancelPendingSwitch(s)
      PROVE  PS!Withdraw \/ UNCHANGED PS!vars
  <2>1. /\ mu = Free /\ UNCHANGED <<selected, epoch, broker>>
        /\ mu'.op = "cancel" /\ mu'.commit = NoProfile /\ mu'.broker = Cancelled(broker)
    BY <1>4 DEF CancelPendingSwitch, Holding, Decision
  <2>2. wantedBar = broker.ctx.to /\ ownerBar = broker.ctx.by
    BY <2>1, BarOfFree
  <2>3. wantedBar' = Cancelled(broker).ctx.to /\ ownerBar' = Cancelled(broker).ctx.by
    BY <2>1 DEF wantedBar, ownerBar
  <2>4. CASE Pending
    <3>1. Cancelled(broker) = [broker EXCEPT !.ctx = NoSwitch, !.state = "active"]
      BY <2>4 DEF Cancelled, Pending
    <3>2. Cancelled(broker).ctx = NoSwitch
      BY <1>1, <3>1 DEF BrokerFiles
    <3>3. wantedBar' = NoProfile /\ ownerBar' = NoSession
      BY <2>3, <3>2 DEF NoSwitch
    <3> QED
      BY <1>1, <2>1, <2>2, <2>4, <3>3, BarOfCleared DEF PS!Withdraw
  <2>5. CASE ~Pending
    BY <2>1, <2>2, <2>3, <2>5 DEF Cancelled, Pending, PS!vars
  <2> QED
    BY <2>4, <2>5
<1>5. ASSUME ReconcilePendingSwitch
      PROVE  UNCHANGED PS!vars
  <2>1. mu = Free /\ UNCHANGED <<selected, epoch, broker>>
    BY <1>5 DEF ReconcilePendingSwitch
  <2>2. CASE Pending
    <3> DEFINE d == Reconcile(broker, Busy)
    <3>1. mu'.op = "reconcile" /\ mu'.commit = d.commit /\ mu'.broker = d.broker
      BY <1>5, <2>2 DEF ReconcilePendingSwitch, Holding
    <3>2. /\ d.broker.ctx.by = broker.ctx.by /\ d.broker.ctx.to = broker.ctx.to
          /\ d.commit \in {NoProfile, broker.ctx.to}
      <4>1. broker.ctx \in [inProgress : {TRUE}, from : Profiles \cup {NoProfile},
                            to : Profiles, by : Sessions, blocking : Nat]
        BY <1>1, <2>2, ContextType DEF Pending, BrokerFiles
      <4> DEFINE counted == [broker EXCEPT !.ctx.blocking = Cardinality(Busy)]
                 waiting == [counted EXCEPT !.state = "switching_profile"]
      <4>2. counted.ctx.by = broker.ctx.by /\ counted.ctx.to = broker.ctx.to
        BY <1>1, <4>1 DEF BrokerFiles
      <4>3. waiting.ctx = counted.ctx
        BY <1>1 DEF BrokerFiles
      <4>4. \/ d = Decision("wait", NoProfile, waiting)
            \/ d = Decision("commit", broker.ctx.to, counted)
        BY <2>2 DEF Reconcile, Pending
      <4> HIDE DEF d, counted, waiting
      <4> QED
        BY <4>2, <4>3, <4>4 DEF Decision
    <3> HIDE DEF d
    <3>3. wantedBar = broker.ctx.to /\ ownerBar = broker.ctx.by
      BY <2>1, BarOfFree
    <3>4. wantedBar' = broker.ctx.to /\ ownerBar' = broker.ctx.by
      BY <3>1, <3>2 DEF wantedBar, ownerBar
    <3> QED
      BY <2>1, <3>3, <3>4 DEF PS!vars
  <2>3. CASE ~Pending
    BY <1>5, <2>1, <2>3 DEF ReconcilePendingSwitch, wantedBar, ownerBar, PS!vars
  <2> QED
    BY <2>2, <2>3
<1>6. ASSUME SaveDecision
      PROVE  UNCHANGED PS!vars
  BY <1>6 DEF SaveDecision, Free, wantedBar, ownerBar, PS!vars
<1>7. ASSUME CommitProfileSwitch
      PROVE  PS!Commit
  <2>1. mu.op # "none"
    BY <1>7 DEF CommitProfileSwitch, OwnerInv, Free
  <2>2. wantedBar = mu.commit /\ mu.commit # NoProfile
    BY <1>7, <2>1 DEF CommitProfileSwitch, wantedBar
  <2>3. /\ mu' = Free /\ broker'.ctx = NoSwitch
        /\ selected' = mu.commit /\ epoch' = epoch + 1
    BY <1>7 DEF CommitProfileSwitch, CommitsClear
  <2>4. wantedBar' = NoProfile /\ ownerBar' = NoSession
    BY <2>3 DEF Free, NoSwitch, wantedBar, ownerBar
  <2> QED
    BY <2>2, <2>3, <2>4 DEF PS!Commit
<1> QED
  BY <1>2, <1>3, <1>4, <1>5, <1>6, <1>7
     DEF Locked, ReconcileForHost, ReconcileForGateway, PS!Next

(* The broker's switch protocol implements the abstract account switch: with
   the decision in hand as the linearization, every commit serves one request,
   bumps the epoch once and uses the request up. *)
THEOREM SwitchRefinement ==
    ASSUME CommitsClear
    PROVE  Spec => ImplementsProfileSwitch
<1>1. Init => PS!Init
  <2> SUFFICES ASSUME Init PROVE PS!Init
    OBVIOUS
  <2> QED
    BY DEF Init, Free, NoSwitch, wantedBar, ownerBar, PS!Init
<1>2. OwnerInv /\ [Next]_vars => [PS!Next]_(PS!vars)
  <2> SUFFICES ASSUME OwnerInv, [Next]_vars PROVE [PS!Next]_(PS!vars)
    OBVIOUS
  <2>1. ASSUME Locked PROVE [PS!Next]_(PS!vars)
    BY <2>1, LockedRefines
  <2>2. ASSUME UNCHANGED <<selected, epoch, broker, mu>> PROVE UNCHANGED PS!vars
    BY <2>2 DEF wantedBar, ownerBar, PS!vars
  <2>3. ASSUME NEW s \in Sessions, Window(s) PROVE [PS!Next]_(PS!vars)
    <3>1. CASE PrepareLaunchEnsure(s)
      BY <3>1, EnsureRefines DEF PS!Next
    <3>2. CASE UNCHANGED switchVars
      BY <2>2, <3>2 DEF switchVars
    <3> QED
      BY <2>3, <3>1, <3>2
         DEF Window, Register, Unregister, ConnectionClosed, PrepareLaunchCheck,
             PrepareLaunchRecord, ReportInCodex, ReportReloading, ReturnHome, StartFails
  <2>4. ASSUME NEW s \in Sessions, NEW c \in Conns, Gateway(s, c)
        PROVE  [PS!Next]_(PS!vars)
    <3>1. UNCHANGED switchVars
      BY <2>4 DEF Gateway, GatewayConnected, GatewayDisconnected, TurnStarted,
                  TurnCompleted, ThreadStatus, Callback
    <3> QED
      BY <2>2, <3>1 DEF switchVars
  <2>5. CASE UNCHANGED vars
    BY <2>2, <2>5 DEF vars
  <2> QED
    BY <2>1, <2>3, <2>4, <2>5 DEF Next
<1> QED
  BY <1>1, <1>2, OwnerInductive, PTL DEF ImplementsProfileSwitch, Spec, PS!Spec
--------------------------------------------------------------------------------
(* Runtime entries *)

Connected(s) == \E c \in Conns : <<s, c>> \in open

(* An entry that says the gateway is connected has an open connection. *)
EntryInv ==
    /\ TypeOK
    /\ \A s \in Sessions : entry[s].present => entry[s].host \/ Connected(s)
    /\ \A s \in Sessions : entry[s].gateway => Connected(s)

(* Only the entry of s changes, and no connection closes. *)
LEMMA EntryChange ==
    ASSUME EntryInv, TypeOK', NEW s \in Sessions, NEW e,
           entry' = [entry EXCEPT ![s] = e], open \subseteq open',
           e.present => e.host \/ Connected(s)',
           e.gateway => Connected(s)'
    PROVE  EntryInv'
<1>1. entry'[s] = e /\ \A t \in Sessions \ {s} : entry'[t] = entry[t]
  BY DEF EntryInv, TypeOK
<1>2. \A t \in Sessions : Connected(t) => Connected(t)'
  BY DEF Connected
<1> QED
  BY <1>1, <1>2 DEF EntryInv

(* Steps that touch no entry keep them reachable. *)
LEMMA EntryUnchanged ==
    ASSUME EntryInv, TypeOK', UNCHANGED <<entry, open>>
    PROVE  EntryInv'
BY DEF EntryInv, Connected

(* Window steps keep every entry reachable. *)
LEMMA EntryWindow ==
    ASSUME EntryInv, NEW s \in Sessions, Window(s)
    PROVE  EntryInv'
<1>1. TypeOK /\ TypeOK'
  BY WindowTypeStep DEF EntryInv
<1>2. entry[s] \in Entries
  BY <1>1 DEF TypeOK
<1>3. Register(s) \/ Unregister(s) \/ ConnectionClosed(s) => UNCHANGED open
  BY DEF Register, Unregister, ConnectionClosed
<1>4. CASE Register(s)
  <2> DEFINE e == HostRegistered(entry[s])
  <2>1. e.host = TRUE /\ e.gateway = entry[s].gateway
    BY <1>2 DEF HostRegistered, EnsureRuntime, Entries
  <2>2. entry' = [entry EXCEPT ![s] = e]
    BY <1>4 DEF Register
  <2>3. entry[s].gateway => Connected(s)'
    BY <1>3, <1>4 DEF EntryInv, Connected
  <2> HIDE DEF e
  <2> QED
    BY <1>1, <1>3, <1>4, <2>1, <2>2, <2>3, EntryChange
<1>5. CASE Unregister(s)
  <2>1. NoEntry.present = FALSE /\ NoEntry.gateway = FALSE
    BY DEF NoEntry
  <2> QED
    BY <1>1, <1>3, <1>5, <2>1, EntryChange DEF Unregister
<1>6. CASE ConnectionClosed(s)
  <2> DEFINE e == HostDisconnected(entry[s])
  <2>1. entry[s].gateway => Connected(s)'
    BY <1>3, <1>6 DEF EntryInv, Connected
  <2>2. (e.present => entry[s].gateway) /\ (e.gateway => entry[s].gateway)
    BY <1>2 DEF HostDisconnected, NoEntry, Entries
  <2>3. entry' = [entry EXCEPT ![s] = e]
    BY <1>6 DEF ConnectionClosed
  <2> HIDE DEF e
  <2> QED
    BY <1>1, <1>3, <1>6, <2>1, <2>2, <2>3, EntryChange
<1>7. CASE UNCHANGED <<entry, open>>
  BY <1>1, <1>7, EntryUnchanged
<1> QED
  BY <1>4, <1>5, <1>6, <1>7
     DEF Window, PrepareLaunchCheck, PrepareLaunchEnsure, PrepareLaunchRecord,
         ReportInCodex, ReportReloading, ReturnHome, StartFails

(* Gateway callbacks keep every entry reachable. *)
LEMMA EntryGateway ==
    ASSUME EntryInv, NEW s \in Sessions, NEW c \in Conns, Gateway(s, c)
    PROVE  EntryInv'
<1>1. TypeOK /\ TypeOK'
  BY GatewayTypeStep DEF EntryInv
<1>2. entry[s] \in Entries
  BY <1>1 DEF TypeOK
<1>3. ASSUME NEW e, Callback(s, c, e), <<s, c>> \in open', open \subseteq open'
      PROVE  EntryInv'
  <2>1. Connected(s)' /\ entry' = [entry EXCEPT ![s] = e]
    BY <1>3 DEF Connected, Callback
  <2> QED
    BY <1>1, <1>3, <2>1, EntryChange
<1>4. CASE GatewayConnected(s, c)
  BY <1>3, <1>4 DEF GatewayConnected
<1>5. CASE TurnStarted(s, c) \/ TurnCompleted(s, c) \/ ThreadStatus(s, c)
  BY <1>3, <1>5 DEF TurnStarted, TurnCompleted, ThreadStatus, Serving
<1>6. CASE GatewayDisconnected(s, c)
  <2> DEFINE e == GatewaySet(entry[s], FALSE)
  <2>1. e.gateway = FALSE /\ (e.present => e.host)
    BY <1>2 DEF GatewaySet, NoEntry, Entries
  <2>2. entry'[s] = e /\ \A t \in Sessions \ {s} : entry'[t] = entry[t]
    BY <1>1, <1>6 DEF GatewayDisconnected, Callback, TypeOK
  <2>3. \A t \in Sessions \ {s} : Connected(t) => Connected(t)'
    BY <1>6 DEF GatewayDisconnected, Connected
  <2> HIDE DEF e
  <2> QED
    BY <1>1, <2>1, <2>2, <2>3 DEF EntryInv
<1> QED
  BY <1>4, <1>5, <1>6 DEF Gateway

(* However connections overlap with quitting and dying hosts, the runtime map
   keeps no entry that neither a host nor a connection will clear. *)
THEOREM NoZombies == Spec => []NoZombieEntry
<1>1. Init => EntryInv
  <2> SUFFICES ASSUME Init PROVE EntryInv
    OBVIOUS
  <2>1. \A s \in Sessions : entry[s] = NoEntry
    BY DEF Init
  <2> QED
    BY <2>1, InitType DEF EntryInv, NoEntry
<1>2. EntryInv /\ [Next]_vars => EntryInv'
  <2> SUFFICES ASSUME EntryInv, [Next]_vars PROVE EntryInv'
    OBVIOUS
  <2>1. CASE Locked
    <3>1. TypeOK'
      BY <2>1, LockedTypeStep DEF EntryInv
    <3>2. UNCHANGED <<entry, open>>
      BY <2>1 DEF Locked, SelectProfile, ForcePendingSwitch, CancelPendingSwitch,
                  ReconcileForHost, ReconcileForGateway, ReconcilePendingSwitch,
                  SaveDecision, CommitProfileSwitch, sessionVars
    <3> QED
      BY <3>1, <3>2, EntryUnchanged
  <2>2. CASE UNCHANGED vars
    BY <2>2, EntryUnchanged DEF vars, EntryInv, TypeOK
  <2> QED
    BY <2>1, <2>2, EntryWindow, EntryGateway DEF Next
<1>3. EntryInv => NoZombieEntry
  BY DEF EntryInv, NoZombieEntry, Connected
<1> QED
  BY <1>1, <1>2, <1>3, PTL DEF Spec
================================================================================
