------------------------ MODULE BrokerLifecycleProofs ------------------------
(* What holds of broker processes for any number of brokers, windows and
   commands, whichever of them overlap or crash. *)
EXTENDS BrokerLifecycle, TLAPS

(* A window with a record has registered and was not unregistered. *)
Recorded ==
    \A w \in records :
        phase[w] \in {"home", "ensured", "late", "in_codex", "cut", "left", "lost"}

(* Nobody is connected to a broker that has never listened. *)
Unheard ==
    \A b \in Brokers, c \in Callers :
        stage[b] \in {"none", "reset", "ensure", "listen", "refused"} => with[c] # b

(* A caller that calls has a broker. *)
HasBroker == \A c \in Callers : phase[c] \in Connected => with[c] \in Brokers

IInv ==
    /\ TypeOK
    /\ Recorded
    /\ Unheard
    /\ HasBroker
    /\ LaunchHasServer
    /\ LoserLeavesNoServer
    /\ NoLostIdleCheck

(* The initial state has the type. *)
LEMMA TypeInit == Init => TypeOK
BY DEF Init, TypeOK, Stages, WindowPhases, CommandPhases, Callers, Handles

(* Cutting windows off keeps them in their phases. *)
LEMMA CutOffPhases ==
    ASSUME TypeOK, NEW b \in Brokers
    PROVE  /\ CutOff(b) \in [Callers -> WindowPhases \cup CommandPhases]
           /\ \A w \in Windows : CutOff(b)[w] \in WindowPhases
           /\ \A c \in Commands : CutOff(b)[c] = phase[c]
<1>1. DOMAIN AfterCut = {"in_codex", "ensured"} /\ AfterCut["in_codex"] = "cut"
      /\ AfterCut["ensured"] = "late"
  BY DEF AfterCut
<1> QED
  BY <1>1, CallersAssumption DEF TypeOK, CutOff, Callers, WindowPhases, CommandPhases

(* Cutting a broker's windows off leaves none of them with an app-server, and
   the phases of all the others alone. *)
LEMMA CutOffServers ==
    ASSUME TypeOK, NEW b \in Brokers, NEW c \in Callers
    PROVE  /\ CutOff(b)[c] \in {"ensured", "in_codex"} =>
                 CutOff(b)[c] = phase[c] /\ with[c] # b
           /\ CutOff(b)[c] # phase[c] =>
                 /\ phase[c] \in {"ensured", "in_codex"} /\ CutOff(b)[c] \in {"late", "cut"}
                 /\ with[c] = b
<1>1. DOMAIN AfterCut = {"in_codex", "ensured"} /\ AfterCut["in_codex"] = "cut"
      /\ AfterCut["ensured"] = "late"
  BY DEF AfterCut
<1> QED
  BY <1>1 DEF CutOff

(* EnsureActiveProfile keeps its variables' types. *)
LEMMA EnsureTypes ==
    ASSUME TypeOK, NEW b \in Brokers, NEW outcome \in Outcomes, EnsureActiveProfile(b, outcome)
    PROVE  app' \in [Brokers -> BOOLEAN] /\ server' \in {"healthy", "stopped"}
BY DEF TypeOK, EnsureActiveProfile, Outcomes

(* A caller that changes its phase to one of its kind keeps phase's type. *)
LEMMA GoesType ==
    ASSUME TypeOK, NEW c \in Callers, NEW p, Goes(c, p),
           c \in Windows => p \in WindowPhases, c \in Commands => p \in CommandPhases
    PROVE  /\ phase' \in [Callers -> WindowPhases \cup CommandPhases]
           /\ \A w \in Windows : phase'[w] \in WindowPhases
           /\ \A x \in Commands : phase'[x] \in CommandPhases
BY DEF TypeOK, Goes, Callers

(* An idle check is scheduled in the broker that handles the call. *)
LEMMA SchedulesType ==
    ASSUME TypeOK, NEW w \in Windows, Handles(with[w]),
           Schedules(w) \/ UNCHANGED <<timers, unread>>
    PROVE  /\ timers' \in [Brokers -> SUBSET Windows]
           /\ unread' \subseteq Brokers
           /\ \A b \in Brokers : timers'[b] # {} => Handles(b)
BY DEF TypeOK, Schedules, Handles

(* Every step keeps the types. *)
LEMMA TypeStep == TypeOK /\ [Next]_vars => TypeOK'
<1> SUFFICES ASSUME TypeOK, [Next]_vars
             PROVE  TypeOK'
  OBVIOUS
<1>1. CASE UNCHANGED vars
  BY <1>1 DEF TypeOK, vars, Handles
<1>2. ASSUME NEW b \in Brokers, BrokerStep(b) \/ Faults(b)
      PROVE  TypeOK'
  <2>0. /\ CutOff(b) \in [Callers -> WindowPhases \cup CommandPhases]
        /\ \A w \in Windows : CutOff(b)[w] \in WindowPhases
        /\ \A c \in Commands : CutOff(b)[c] \in CommandPhases
    BY CutOffPhases DEF TypeOK
  <2>1. CASE Reset(b)
    BY <2>1 DEF TypeOK, Stages, Handles, Reset, callers
  <2>2. CASE ReconcileStartup(b)
    BY <2>2, EnsureTypes DEF TypeOK, Stages, Handles, ReconcileStartup, callers
  <2>3. CASE Listen(b)
    BY <2>3 DEF TypeOK, Stages, Handles, Listen, callers
  <2>4. CASE Refused(b)
    BY <2>4 DEF TypeOK, Stages, Handles, Refused, Shutdown, callers
  <2>5. ASSUME NEW w \in Windows, IdleCheck(b, w)
        PROVE  TypeOK'
    BY <2>5 DEF TypeOK, Handles, IdleCheck, callers
  <2>6. CASE GoDown(b)
    BY <2>0, <2>6 DEF TypeOK, Stages, Handles, GoDown, Shutdown
  <2>7. CASE Close(b)
    BY <2>7 DEF TypeOK, Stages, Handles, Close, callers
  <2>8. CASE Vanishes(b)
    BY <2>0, <2>8 DEF TypeOK, Stages, Handles, Vanishes
  <2>9. CASE AppExits(b)
    BY <2>0, <2>9 DEF TypeOK, Handles, AppExits
  <2> QED
    BY <1>2, <2>1, <2>2, <2>3, <2>4, <2>5, <2>6, <2>7, <2>8, <2>9
    DEF BrokerStep, Faults, Exit, Crash
<1>3. ASSUME NEW c \in Callers, CallerStep(c)
      PROVE  TypeOK'
  <2>1. CASE GivesUp(c)
    <3>1. Goes(c, "failed")
      BY <2>1 DEF GivesUp
    <3> QED
      BY <2>1, <3>1, GoesType DEF TypeOK, GivesUp, WindowPhases, CommandPhases, Handles, brokers
  <2>2. CASE TellStop(c)
    <3>1. PICK p \in {"stopped", "again"} : Goes(c, p)
      BY <2>2 DEF TellStop
    <3>2. c \notin Windows /\ p \in CommandPhases
      BY <2>2, CallersAssumption DEF TellStop, CommandPhases
    <3> QED
      BY <2>2, <3>1, <3>2, GoesType DEF TypeOK, TellStop, Handles
  <2>3. ASSUME NEW b \in Brokers, Finds(c, b)
        PROVE  TypeOK'
    <3>1. CASE Goes(c, "found")
      BY <2>3, <3>1, GoesType DEF TypeOK, Finds, WindowPhases, CommandPhases, Handles, brokers
    <3>2. CASE phase[c] \in {"again", "wait_again"} /\ Goes(c, "restarted")
      <4>1. c \notin Windows
        BY <3>2 DEF TypeOK, WindowPhases
      <4> QED
        BY <2>3, <3>2, <4>1, GoesType DEF TypeOK, Finds, CommandPhases, Handles, brokers
    <3> QED
      BY <2>3, <3>1, <3>2 DEF Finds
  <2>4. ASSUME NEW b \in Brokers, Spawns(c, b)
        PROVE  TypeOK'
    <3>1. CASE phase[c] = "start" /\ Goes(c, "wait")
      BY <2>4, <3>1, GoesType DEF TypeOK, Spawns, Stages, WindowPhases, CommandPhases, Handles
    <3>2. CASE phase[c] = "again" /\ Goes(c, "wait_again")
      <4>1. c \notin Windows
        BY <3>2 DEF TypeOK, WindowPhases
      <4> QED
        BY <2>4, <3>2, <4>1, GoesType DEF TypeOK, Spawns, Stages, CommandPhases, Handles
    <3> QED
      BY <2>4, <3>1, <3>2 DEF Spawns
  <2>5. ASSUME NEW b \in Brokers, Dial(c, b)
        PROVE  TypeOK'
    BY <2>5, GoesType DEF TypeOK, Dial, WindowPhases, CommandPhases, Handles, brokers
  <2>6. CASE Register(c)
    <3>1. c \in Windows /\ c \notin Commands /\ \E p \in {"home", "failed"} : Goes(c, p)
      BY <2>6, CallersAssumption DEF Register, Served, FailsTo
    <3>2. records' \subseteq Windows /\ UNCHANGED <<stage, app, ends, timers, unread, server, with>>
      BY <2>6, <3>1 DEF TypeOK, Register, FailsTo
    <3> QED
      BY <3>1, <3>2, GoesType DEF TypeOK, WindowPhases, Handles
  <2>7. CASE EnsureLaunch(c)
    <3>1. c \in Windows /\ c \notin Commands /\ with[c] \in Brokers
      BY <2>7, CallersAssumption DEF EnsureLaunch, Served, Handles, TypeOK
    <3>2. PICK outcome \in Outcomes :
            /\ EnsureActiveProfile(with[c], outcome)
            /\ \E f \in {phase, CutOff(with[c])}, p \in {"ensured", "home"} :
                  phase' = [f EXCEPT ![c] = p]
      BY <2>7 DEF EnsureLaunch
    <3>3. /\ phase' \in [Callers -> WindowPhases \cup CommandPhases]
          /\ \A w \in Windows : phase'[w] \in WindowPhases
          /\ \A x \in Commands : phase'[x] \in CommandPhases
      BY <3>1, <3>2, CutOffPhases DEF TypeOK, WindowPhases
    <3> QED
      BY <2>7, <3>1, <3>2, <3>3, EnsureTypes DEF TypeOK, EnsureLaunch, Handles
  <2>8. CASE EnterCodex(c)
    <3>1. c \in Windows /\ c \notin Commands /\ Handles(with[c])
      BY <2>8, CallersAssumption DEF EnterCodex, Served
    <3>2. \E p \in {"in_codex", "cut", "home"} : Goes(c, p)
      BY <2>8 DEF EnterCodex, AfterStart, FailsTo
    <3>3. /\ phase' \in [Callers -> WindowPhases \cup CommandPhases]
          /\ \A w \in Windows : phase'[w] \in WindowPhases
          /\ \A x \in Commands : phase'[x] \in CommandPhases
      BY <3>1, <3>2, GoesType DEF WindowPhases
    <3>4. Schedules(c) \/ UNCHANGED <<timers, unread>>
      BY <2>8 DEF EnterCodex, FailsTo
    <3>5. records' = records /\ UNCHANGED <<stage, app, ends, server, with>>
      BY <2>8 DEF EnterCodex, FailsTo
    <3> QED
      BY <3>1, <3>3, <3>4, <3>5, SchedulesType DEF TypeOK, Handles
  <2>9. CASE ReturnHome(c) \/ Unregister(c)
    <3>1. c \in Windows /\ c \notin Commands /\ Handles(with[c])
      BY <2>9, CallersAssumption DEF ReturnHome, Unregister, Served
    <3>2. \E p \in {"home", "quit", "left"} : Goes(c, p)
      BY <2>9 DEF ReturnHome, Unregister, FailsTo
    <3>3. Schedules(c) \/ UNCHANGED <<timers, unread>>
      BY <2>9 DEF ReturnHome, Unregister, FailsTo
    <3>4. records' \subseteq Windows /\ UNCHANGED <<stage, app, ends, server, with>>
      BY <2>9 DEF TypeOK, ReturnHome, Unregister, FailsTo
    <3>5. /\ phase' \in [Callers -> WindowPhases \cup CommandPhases]
          /\ \A w \in Windows : phase'[w] \in WindowPhases
          /\ \A x \in Commands : phase'[x] \in CommandPhases
      BY <3>1, <3>2, GoesType DEF WindowPhases
    <3> QED
      BY <3>1, <3>3, <3>4, <3>5, SchedulesType DEF TypeOK, Handles
  <2>10. CASE Dies(c)
    BY <2>10, GoesType, CallersAssumption DEF TypeOK, Dies, WindowPhases, Handles, brokers
  <2>11. CASE Lost(c)
    <3>1. PICK p \in {"lost", "failed"} : Goes(c, p) /\ (c \in Windows <=> p = "lost")
      BY <2>11 DEF Lost
    <3> QED
      BY <2>11, <3>1, GoesType, CallersAssumption DEF TypeOK, Lost, WindowPhases, CommandPhases, Handles, brokers
  <2> QED
    BY <1>3, <2>1, <2>2, <2>3, <2>4, <2>5, <2>6, <2>7, <2>8, <2>9, <2>10, <2>11
    DEF CallerStep
<1> QED
  BY <1>1, <1>2, <1>3 DEF Next

(* Every variable keeps its type. *)
THEOREM TypeCorrect == Spec => []TypeOK
BY TypeInit, TypeStep, PTL DEF Spec

(* A record is made by a window that registers and goes when it quits. *)
LEMMA RecordedStep == TypeOK /\ Recorded /\ [Next]_vars => Recorded'
<1> SUFFICES ASSUME TypeOK, Recorded, [Next]_vars
             PROVE  Recorded'
  OBVIOUS
<1>1. CASE UNCHANGED vars
  BY <1>1 DEF Recorded, vars
<1>2. ASSUME NEW b \in Brokers, BrokerStep(b) \/ Faults(b)
      PROVE  Recorded'
  <2>1. records' \in {{}, records}
    BY <1>2 DEF BrokerStep, Faults, Reset, ReconcileStartup, Listen, Refused, IdleCheck, GoDown,
                Close, Exit, Crash, Vanishes, AppExits
  <2>2. phase' \in {phase, CutOff(b)}
    BY <1>2 DEF BrokerStep, Faults, Reset, ReconcileStartup, Listen, Refused, IdleCheck, GoDown,
                Close, Exit, Crash, Vanishes, AppExits, callers
  <2> QED
    BY <2>1, <2>2, CutOffServers DEF Recorded, TypeOK, Callers
<1>3. ASSUME NEW c \in Callers, CallerStep(c)
      PROVE  Recorded'
  <2>1. CASE GivesUp(c)
    BY <2>1 DEF Recorded, GivesUp, Goes, TypeOK, Callers, brokers
  <2>2. CASE TellStop(c)
    BY <2>2, CallersAssumption DEF Recorded, TellStop, Goes, TypeOK, Callers
  <2>3. ASSUME NEW b \in Brokers, Finds(c, b) \/ Spawns(c, b) \/ Dial(c, b)
        PROVE  Recorded'
    BY <2>3 DEF Recorded, Finds, Spawns, Dial, Goes, TypeOK, Callers, brokers
  <2>4. CASE Register(c)
    BY <2>4 DEF Recorded, Register, FailsTo, Served, Goes, TypeOK, Callers
  <2>5. CASE EnsureLaunch(c)
    <3>1. with[c] \in Brokers /\ records' = records
      BY <2>5 DEF EnsureLaunch, Served, Handles
    <3>2. PICK f \in {phase, CutOff(with[c])}, p \in {"ensured", "home"} :
            phase' = [f EXCEPT ![c] = p]
      BY <2>5 DEF EnsureLaunch
    <3> QED
      BY <3>1, <3>2, CutOffServers, CutOffPhases DEF Recorded, TypeOK, Callers
  <2>6. CASE EnterCodex(c)
    <3>1. records' = records /\ \E p \in {"in_codex", "cut", "home"} : Goes(c, p)
      BY <2>6 DEF EnterCodex, AfterStart, FailsTo
    <3> QED
      BY <3>1 DEF Recorded, Goes, TypeOK, Callers
  <2>7. CASE ReturnHome(c) \/ Dies(c)
    BY <2>7 DEF Recorded, ReturnHome, FailsTo, Dies, Goes, TypeOK, Callers, brokers
  <2>8. CASE Unregister(c)
    BY <2>8 DEF Recorded, Unregister, FailsTo, Goes, TypeOK, Callers
  <2>9. CASE Lost(c)
    BY <2>9 DEF Recorded, Lost, Goes, TypeOK, Callers, brokers
  <2> QED
    BY <1>3, <2>1, <2>2, <2>3, <2>4, <2>5, <2>6, <2>7, <2>8, <2>9 DEF CallerStep
<1> QED
  BY <1>1, <1>2, <1>3 DEF Next

(* A caller's broker is one that has listened: it changes only when it dials,
   finds, or lets go. *)
LEMMA ConnectedStep ==
    TypeOK /\ Unheard /\ HasBroker /\ [Next]_vars => Unheard' /\ HasBroker'
<1> SUFFICES ASSUME TypeOK, Unheard, HasBroker, [Next]_vars
             PROVE  Unheard' /\ HasBroker'
  OBVIOUS
<1>1. CASE UNCHANGED vars
  BY <1>1 DEF Unheard, HasBroker, vars
<1>2. ASSUME NEW b \in Brokers, BrokerStep(b) \/ Faults(b)
      PROVE  Unheard' /\ HasBroker'
  <2>1. with' = with
    BY <1>2 DEF BrokerStep, Faults, Reset, ReconcileStartup, Listen, Refused, IdleCheck, GoDown,
                Close, Exit, Crash, Vanishes, AppExits, callers
  <2>2. phase' \in {phase, CutOff(b)}
    BY <1>2 DEF BrokerStep, Faults, Reset, ReconcileStartup, Listen, Refused, IdleCheck, GoDown,
                Close, Exit, Crash, Vanishes, AppExits, callers
  <2>3. \A a \in Brokers :
          stage'[a] \in {"none", "reset", "ensure", "listen", "refused"} =>
              stage[a] \in {"none", "reset", "ensure", "listen", "refused"}
    BY <1>2 DEF BrokerStep, Faults, Reset, ReconcileStartup, Listen, Refused, IdleCheck, GoDown,
                Close, Exit, Crash, Vanishes, AppExits, TypeOK
  <2>4. HasBroker'
    BY <2>1, <2>2, CutOffServers DEF HasBroker, Connected
  <2> QED
    BY <2>1, <2>3, <2>4 DEF Unheard
<1>3. ASSUME NEW c \in Callers, CallerStep(c)
      PROVE  Unheard' /\ HasBroker'
  <2>1. CASE GivesUp(c) \/ TellStop(c) \/ Lost(c)
    BY <2>1, BrokersAssumption
    DEF Unheard, HasBroker, GivesUp, TellStop, Lost, Goes, TypeOK, Connected, brokers
  <2>2. ASSUME NEW b \in Brokers, Finds(c, b) \/ Dial(c, b)
        PROVE  Unheard' /\ HasBroker'
    BY <2>2 DEF Unheard, HasBroker, Finds, Dial, Accepts, Goes, TypeOK, Connected, brokers
  <2>3. ASSUME NEW b \in Brokers, Spawns(c, b)
        PROVE  Unheard' /\ HasBroker'
    BY <2>3 DEF Unheard, HasBroker, Spawns, Goes, TypeOK, Connected
  <2>4. CASE Register(c) \/ ReturnHome(c) \/ Unregister(c) \/ Dies(c)
    BY <2>4 DEF Unheard, HasBroker, Register, ReturnHome, Unregister, Dies, FailsTo, Served,
                Handles, Goes, TypeOK, Connected, brokers
  <2>5. CASE EnsureLaunch(c)
    <3>1. with[c] \in Brokers /\ UNCHANGED <<stage, with>>
      BY <2>5 DEF EnsureLaunch, Served, Handles
    <3>2. PICK f \in {phase, CutOff(with[c])}, p \in {"ensured", "home"} :
            phase' = [f EXCEPT ![c] = p]
      BY <2>5 DEF EnsureLaunch
    <3>3. HasBroker'
      BY <3>1, <3>2, CutOffServers, CutOffPhases DEF HasBroker, TypeOK, Connected
    <3> QED
      BY <3>1, <3>3 DEF Unheard
  <2>6. CASE EnterCodex(c)
    <3>1. UNCHANGED <<stage, with>> /\ \E p \in {"in_codex", "cut", "home"} : Goes(c, p)
      BY <2>6 DEF EnterCodex, AfterStart, FailsTo
    <3>2. with[c] \in Brokers
      BY <2>6 DEF EnterCodex, Served, Handles
    <3> QED
      BY <3>1, <3>2 DEF Unheard, HasBroker, Goes, TypeOK, Connected
  <2> QED
    BY <1>3, <2>1, <2>2, <2>3, <2>4, <2>5, <2>6 DEF CallerStep
<1> QED
  BY <1>1, <1>2, <1>3 DEF Next

(* EnsureActiveProfile touches the app-server of its own broker only, leaves it
   running if it succeeds, and as it is if it is kept. *)
LEMMA EnsureServer ==
    ASSUME TypeOK, NEW b \in Brokers, NEW outcome \in Outcomes, EnsureActiveProfile(b, outcome)
    PROVE  /\ \A a \in Brokers : a # b => app'[a] = app[a]
           /\ CanReuse(b) \/ outcome = "started" => app'[b]
           /\ CanReuse(b) \/ outcome = "uncopied" => app' = app
BY DEF TypeOK, EnsureActiveProfile, CanReuse, Outcomes

(* A launch has an app-server until it is cut off. *)
LEMMA ServerStep ==
    TypeOK /\ Unheard /\ HasBroker /\ LaunchHasServer /\ [Next]_vars => LaunchHasServer'
<1> SUFFICES ASSUME TypeOK, Unheard, HasBroker, LaunchHasServer, [Next]_vars
             PROVE  LaunchHasServer'
  OBVIOUS
<1>0. \A w \in Windows : w \in Callers
  BY DEF Callers
<1>1. CASE UNCHANGED vars
  BY <1>1 DEF LaunchHasServer, vars
<1>2. ASSUME NEW b \in Brokers, BrokerStep(b) \/ Faults(b)
      PROVE  LaunchHasServer'
  <2>1. CASE ReconcileStartup(b)
    <3>1. \A w \in Windows : with[w] # b
      BY <1>0, <2>1 DEF Unheard, ReconcileStartup
    <3>2. UNCHANGED <<phase, with>> /\ \A a \in Brokers : a # b => app'[a] = app[a]
      BY <2>1, EnsureServer DEF ReconcileStartup, callers
    <3> QED
      BY <1>0, <3>1, <3>2 DEF LaunchHasServer, HasBroker, Connected
  <2>2. CASE Refused(b)
    <3>1. \A w \in Windows : with[w] # b
      BY <1>0, <2>2 DEF Unheard, Refused
    <3>2. UNCHANGED <<phase, with>> /\ \A a \in Brokers : a # b => app'[a] = app[a]
      BY <2>2 DEF Refused, Shutdown, callers, TypeOK
    <3> QED
      BY <1>0, <3>1, <3>2 DEF LaunchHasServer, HasBroker, Connected
  <2>3. CASE GoDown(b) \/ Vanishes(b) \/ AppExits(b)
    <3>1. /\ with' = with /\ phase' = CutOff(b)
          /\ \A a \in Brokers : a # b => app'[a] = app[a]
      BY <2>3 DEF GoDown, Vanishes, AppExits, Shutdown, TypeOK
    <3> QED
      BY <1>0, <3>1, CutOffServers DEF LaunchHasServer, HasBroker, Connected
  <2>4. CASE UNCHANGED <<app, phase, with>>
    BY <2>4 DEF LaunchHasServer
  <2> QED
    BY <1>2, <2>1, <2>2, <2>3, <2>4
    DEF BrokerStep, Faults, Reset, Listen, IdleCheck, Close, Exit, Crash, callers
<1>3. ASSUME NEW c \in Callers, CallerStep(c)
      PROVE  LaunchHasServer'
  <2>1. CASE EnsureLaunch(c)
    <3> DEFINE b == with[c]
    <3>1. b \in Brokers /\ with' = with /\ c \in Windows
      BY <2>1 DEF EnsureLaunch, Served, Handles
    <3>2. PICK outcome \in Outcomes :
            /\ EnsureActiveProfile(b, outcome)
            /\ phase' = [(IF CanReuse(b) \/ outcome = "uncopied" THEN phase ELSE CutOff(b))
                           EXCEPT ![c] = IF CanReuse(b) \/ outcome = "started"
                                         THEN "ensured" ELSE "home"]
      BY <2>1 DEF EnsureLaunch
    <3>3. /\ \A a \in Brokers : a # b => app'[a] = app[a]
          /\ CanReuse(b) \/ outcome = "started" => app'[b]
          /\ CanReuse(b) \/ outcome = "uncopied" => app' = app
      BY <3>1, <3>2, EnsureServer
    <3>4. CASE CanReuse(b) \/ outcome = "uncopied"
      BY <1>0, <3>1, <3>2, <3>3, <3>4 DEF LaunchHasServer, TypeOK
    <3>5. CASE ~(CanReuse(b) \/ outcome = "uncopied")
      <4>1. phase' = [CutOff(b) EXCEPT ![c] = IF outcome = "started" THEN "ensured" ELSE "home"]
        BY <3>2, <3>5
      <4>2. ASSUME NEW w \in Windows, phase'[w] \in {"ensured", "in_codex"}
            PROVE  app'[with'[w]]
        <5>1. CASE w = c
          BY <3>1, <3>2, <3>3, <3>5, <4>1, <4>2, <5>1, CutOffPhases DEF TypeOK
        <5>2. CASE w # c
          <6>1. phase'[w] = CutOff(b)[w] /\ w \in Callers
            BY <1>0, <3>1, <4>1, <5>2, CutOffPhases
          <6> QED
            BY <3>1, <3>3, <4>2, <6>1, CutOffServers DEF LaunchHasServer, HasBroker, Connected
        <5> QED
          BY <5>1, <5>2
      <4> QED
        BY <4>2 DEF LaunchHasServer
    <3> QED
      BY <3>4, <3>5
  <2>2. CASE EnterCodex(c)
    <3>1. UNCHANGED <<app, with>>
      BY <2>2 DEF EnterCodex
    <3>2. PICK p \in {"ensured", "late"} :
            phase[c] = p /\ (Goes(c, AfterStart[p]) \/ Goes(c, "home"))
      BY <2>2 DEF EnterCodex, Served, AfterStart, FailsTo
    <3>3. AfterStart["ensured"] = "in_codex" /\ AfterStart["late"] = "cut"
      BY DEF AfterStart
    <3> QED
      BY <1>0, <3>1, <3>2, <3>3 DEF LaunchHasServer, Goes, TypeOK
  <2>3. CASE GivesUp(c) \/ TellStop(c) \/ Lost(c)
    BY <1>0, <2>3, CallersAssumption DEF LaunchHasServer, GivesUp, TellStop, Lost, Goes, TypeOK, brokers
  <2>4. ASSUME NEW b \in Brokers, Finds(c, b) \/ Spawns(c, b) \/ Dial(c, b)
        PROVE  LaunchHasServer'
    BY <1>0, <2>4 DEF LaunchHasServer, Finds, Spawns, Dial, Goes, TypeOK, brokers
  <2>5. CASE Register(c) \/ ReturnHome(c) \/ Unregister(c) \/ Dies(c)
    BY <1>0, <2>5 DEF LaunchHasServer, Register, ReturnHome, Unregister, Dies, FailsTo, Goes,
                       TypeOK, brokers
  <2> QED
    BY <1>3, <2>1, <2>2, <2>3, <2>4, <2>5 DEF CallerStep
<1> QED
  BY <1>1, <1>2, <1>3 DEF Next

(* A broker is refused without an app-server and never gets another. *)
LEMMA LoserStep == TypeOK /\ LoserLeavesNoServer /\ [Next]_vars => LoserLeavesNoServer'
<1> SUFFICES ASSUME TypeOK, LoserLeavesNoServer, [Next]_vars
             PROVE  LoserLeavesNoServer'
  OBVIOUS
<1>1. CASE UNCHANGED vars
  BY <1>1 DEF LoserLeavesNoServer, vars
<1>2. ASSUME NEW b \in Brokers, BrokerStep(b) \/ Faults(b)
      PROVE  LoserLeavesNoServer'
  <2>1. CASE ReconcileStartup(b)
    BY <2>1, EnsureServer DEF LoserLeavesNoServer, ReconcileStartup, TypeOK
  <2> QED
    BY <1>2, <2>1
    DEF LoserLeavesNoServer, BrokerStep, Faults, Reset, Listen, Refused, IdleCheck, GoDown,
        Close, Exit, Crash, Vanishes, AppExits, Shutdown, TypeOK
<1>3. ASSUME NEW c \in Callers, CallerStep(c)
      PROVE  LoserLeavesNoServer'
  <2>1. CASE EnsureLaunch(c)
    <3>1. with[c] \in Brokers /\ stage' = stage /\ stage[with[c]] # "refused"
      BY <2>1 DEF EnsureLaunch, Served, Handles
    <3>2. \A a \in Brokers : a # with[c] => app'[a] = app[a]
      BY <2>1, <3>1, EnsureServer DEF EnsureLaunch
    <3> QED
      BY <3>1, <3>2 DEF LoserLeavesNoServer
  <2>2. ASSUME NEW b \in Brokers, Finds(c, b) \/ Spawns(c, b) \/ Dial(c, b)
        PROVE  LoserLeavesNoServer'
    BY <2>2 DEF LoserLeavesNoServer, Finds, Spawns, Dial, TypeOK, brokers
  <2> QED
    BY <1>3, <2>1, <2>2
    DEF LoserLeavesNoServer, CallerStep, GivesUp, TellStop, Register, EnterCodex, ReturnHome,
        Unregister, FailsTo, Dies, Lost, brokers
<1> QED
  BY <1>1, <1>2, <1>3 DEF Next

(* The phases of a window that has never been registered. *)
Outside == {"start", "wait", "found", "dialed", "failed"}

(* Somebody will look at broker b again, or the disk has kept a check from it. *)
Watched(b) == timers[b] # {} \/ ends[b] # {} \/ b \in unread

(* Of the windows only one that quits brings its broker nearer to being idle. *)
LEMMA IdleBefore ==
    ASSUME NEW b \in Brokers, Idle(b)', stage[b] = "serving",
           \A w \in Windows :
               /\ phase'[w] = "quit" => phase[w] = "quit" /\ with[w] = with'[w]
               /\ phase'[w] \in Outside => phase[w] \in Outside
    PROVE  Idle(b)
BY DEF Idle, Outside

(* The check after the last unregister is not lost. *)
LEMMA CheckStep ==
    TypeOK /\ Recorded /\ Unheard /\ NoLostIdleCheck /\ [Next]_vars => NoLostIdleCheck'
<1> SUFFICES ASSUME TypeOK, Recorded, Unheard, NoLostIdleCheck, [Next]_vars,
                    NEW a \in Brokers, Idle(a)'
             PROVE  Watched(a)'
  BY DEF NoLostIdleCheck, Watched
<1>0. \A w \in Windows : w \in Callers
  BY DEF Callers
<1>1. CASE UNCHANGED vars
  BY <1>1 DEF NoLostIdleCheck, Watched, Idle, vars
<1>2. ASSUME NEW b \in Brokers, BrokerStep(b) \/ Faults(b)
      PROVE  Watched(a)'
  <2>1. CASE Listen(b)
    <3>1. CASE a = b
      BY <1>0, <2>1, <3>1 DEF Listen, Unheard, Idle, callers
    <3>2. CASE a # b
      BY <2>1, <3>2 DEF Listen, NoLostIdleCheck, Watched, Idle, callers, TypeOK
    <3> QED
      BY <3>1, <3>2
  <2>2. ASSUME NEW w \in Windows, IdleCheck(b, w)
        PROVE  Watched(a)'
    <3>1. records = {}
      BY <2>2 DEF IdleCheck, Recorded, Idle, TypeOK, callers
    <3>2. CASE a = b
      BY <2>2, <3>1, <3>2 DEF IdleCheck, Watched, TypeOK
    <3>3. CASE a # b
      BY <2>2, <3>3 DEF IdleCheck, NoLostIdleCheck, Watched, Idle, TypeOK, callers
    <3> QED
      BY <3>2, <3>3
  <2>3. CASE GoDown(b) \/ Vanishes(b) \/ AppExits(b)
    <3>1. /\ stage[a] = "serving" /\ with' = with /\ phase' = CutOff(b)
          /\ timers'[a] = timers[a] /\ ends'[a] = ends[a] /\ unread' = unread
      BY <2>3 DEF GoDown, Vanishes, AppExits, Idle, TypeOK
    <3>2. Idle(a)
      BY <1>0, <3>1, CutOffServers, IdleBefore DEF Outside
    <3> QED
      BY <3>1, <3>2 DEF NoLostIdleCheck, Watched
  <2>4. CASE Reset(b) \/ ReconcileStartup(b) \/ Refused(b) \/ Close(b)
    BY <2>4
    DEF Reset, ReconcileStartup, Refused, Close, NoLostIdleCheck, Watched, Idle, callers, TypeOK
  <2> QED
    BY <1>2, <2>1, <2>2, <2>3, <2>4 DEF BrokerStep, Faults, Exit, Crash
<1>3. ASSUME NEW c \in Callers, CallerStep(c)
      PROVE  Watched(a)'
  <2>1. CASE Unregister(c)
    <3>1. c \in Windows /\ phase'[c] \in {"quit", "left"} /\ with[c] \in Brokers /\ with' = with
      BY <1>0, <2>1 DEF Unregister, FailsTo, Served, Handles, Goes, TypeOK
    <3>2. phase'[c] = "quit" /\ with[c] = a
      BY <3>1 DEF Idle
    <3>3. Schedules(c)
      BY <1>0, <2>1, <3>1, <3>2 DEF Unregister, FailsTo, Goes, TypeOK
    <3> QED
      BY <3>1, <3>2, <3>3 DEF Schedules, Watched, TypeOK
  <2>2. CASE EnsureLaunch(c)
    <3>1. /\ with[c] \in Brokers /\ c \in Windows /\ phase[c] = "home"
          /\ UNCHANGED <<stage, ends, timers, with>>
      BY <2>2 DEF EnsureLaunch, Served, Handles
    <3>2. PICK f \in {phase, CutOff(with[c])}, p \in {"ensured", "home"} :
            phase' = [f EXCEPT ![c] = p]
      BY <2>2 DEF EnsureLaunch
    <3>3. phase'[c] = p
      BY <3>2, CutOffPhases, <3>1 DEF TypeOK
    <3> QED
      BY <3>1, <3>3 DEF Idle
  <2>3. CASE EnterCodex(c)
    <3>1. c \in Windows /\ \E p \in {"in_codex", "cut", "home"} : phase'[c] = p
      BY <2>3 DEF EnterCodex, FailsTo, Served, AfterStart, Goes, TypeOK
    <3> QED
      BY <3>1 DEF Idle
  <2>4. CASE ReturnHome(c) \/ Dies(c)
    <3>1. c \in Windows /\ phase'[c] \in {"home", "lost"}
      BY <2>4 DEF ReturnHome, FailsTo, Dies, Served, Goes, TypeOK
    <3> QED
      BY <3>1 DEF Idle
  <2>10. CASE Register(c)
    <3>1. c \in Windows /\ phase[c] = "dialed" /\ UNCHANGED <<stage, ends, with>>
      BY <2>10 DEF Register, Served
    <3>2. phase'[c] = "failed" /\ FailsTo(c, "failed")
      BY <1>0, <2>10, <3>1 DEF Register, FailsTo, Goes, Idle, TypeOK
    <3>3. stage[a] = "serving" /\ UNCHANGED <<timers, unread>>
      BY <3>1, <3>2 DEF FailsTo, Idle
    <3>4. \A w \in Windows : w # c => phase'[w] = phase[w]
      BY <1>0, <3>2 DEF FailsTo, Goes, TypeOK
    <3>5. Idle(a)
      BY <3>1, <3>2, <3>3, <3>4, IdleBefore DEF Outside
    <3> QED
      BY <3>1, <3>3, <3>5 DEF NoLostIdleCheck, Watched
  <2>5. CASE Lost(c)
    <3>1. phase'[c] = "lost" \/ c \notin Windows
      BY <2>5 DEF Lost, Goes, TypeOK
    <3>2. CASE c \in Windows
      BY <3>1, <3>2 DEF Idle
    <3>3. CASE c \notin Windows
      BY <1>0, <2>5, <3>3 DEF Lost, Goes, Idle, NoLostIdleCheck, Watched, TypeOK, brokers
    <3> QED
      BY <3>2, <3>3
  <2>6. CASE TellStop(c)
    <3>1. c \notin Windows
      BY <2>6, CallersAssumption DEF TellStop
    <3>2. stage[a] = "serving" /\ Idle(a)
      BY <1>0, <2>6, <3>1 DEF TellStop, Goes, Idle, TypeOK
    <3> QED
      BY <2>6, <3>2 DEF TellStop, NoLostIdleCheck, Watched, TypeOK
  <2>7. CASE GivesUp(c)
    <3>1. stage[a] = "serving" /\ UNCHANGED <<timers, ends, unread, with>>
      BY <2>7 DEF GivesUp, Idle, brokers
    <3>2. \A w \in Windows : phase[w] \notin {"again", "wait_again"}
      BY DEF TypeOK, WindowPhases
    <3>3. Idle(a)
      BY <1>0, <2>7, <3>1, <3>2, IdleBefore DEF GivesUp, Goes, Outside, TypeOK
    <3> QED
      BY <3>1, <3>3 DEF NoLostIdleCheck, Watched
  <2>8. ASSUME NEW b \in Brokers, Dial(c, b)
        PROVE  Watched(a)'
    <3>1. stage[a] = "serving" /\ UNCHANGED <<timers, ends, unread>>
      BY <2>8 DEF Dial, Idle, brokers
    <3>2. Idle(a)
      BY <1>0, <2>8, <3>1, IdleBefore DEF Dial, Goes, Outside, TypeOK
    <3> QED
      BY <3>1, <3>2 DEF NoLostIdleCheck, Watched
  <2>9. ASSUME NEW b \in Brokers, Finds(c, b) \/ Spawns(c, b)
        PROVE  Watched(a)'
    <3>1. stage[a] = "serving" /\ UNCHANGED <<timers, ends, unread>>
      BY <2>9 DEF Finds, Spawns, Idle, TypeOK, brokers
    <3>2. \A w \in Windows : phase[w] \notin {"again", "wait_again"}
      BY DEF TypeOK, WindowPhases
    <3>3. Idle(a)
      BY <1>0, <2>9, <3>1, <3>2, IdleBefore DEF Finds, Spawns, Goes, Outside, TypeOK
    <3> QED
      BY <3>1, <3>3 DEF NoLostIdleCheck, Watched
  <2> QED
    BY <1>3, <2>1, <2>2, <2>3, <2>4, <2>5, <2>6, <2>7, <2>8, <2>9, <2>10 DEF CallerStep
<1> QED
  BY <1>1, <1>2, <1>3 DEF Next

(* The strengthened invariant holds from the start. *)
LEMMA InvInit == Init => IInv
<1> SUFFICES ASSUME Init
             PROVE  IInv
  OBVIOUS
<1>1. TypeOK
  BY TypeInit
<1>2. Recorded /\ LoserLeavesNoServer
  BY DEF Init, Recorded, LoserLeavesNoServer
<1>3. Unheard /\ HasBroker
  BY BrokersAssumption DEF Init, Unheard, HasBroker, Connected
<1>4. LaunchHasServer /\ NoLostIdleCheck
  BY DEF Init, LaunchHasServer, NoLostIdleCheck, Idle, Callers
<1> QED
  BY <1>1, <1>2, <1>3, <1>4 DEF IInv

(* Every step keeps it. *)
LEMMA InvStep == IInv /\ [Next]_vars => IInv'
BY TypeStep, RecordedStep, ConnectedStep, ServerStep, LoserStep, CheckStep DEF IInv

(* The strengthened invariant always holds. *)
LEMMA InvHolds == Spec => []IInv
BY InvInit, InvStep, PTL DEF Spec

(* A launch is given an app-server of its own broker, whatever other brokers
   have left in broker.json. *)
THEOREM LaunchesHaveServers == Spec => []LaunchHasServer
<1>1. IInv => LaunchHasServer
  BY DEF IInv
<1> QED
  BY <1>1, InvHolds, PTL

(* A broker that finds the pipe taken leaves no app-server behind. *)
THEOREM LosersLeaveNothing == Spec => []LoserLeavesNoServer
<1>1. IInv => LoserLeavesNoServer
  BY DEF IInv
<1> QED
  BY <1>1, InvHolds, PTL

(* A broker whose last window has been unregistered has a check due, or is
   stopping, or its check could not read sessions.json; calls, resets and
   checks may fail at any time. *)
THEOREM IdleChecksNotLost == Spec => []NoLostIdleCheck
<1>1. IInv => NoLostIdleCheck
  BY DEF IInv
<1> QED
  BY <1>1, InvHolds, PTL
==============================================================================
