--------------------------- MODULE AuthRuntimeProofs ---------------------------
(***************************************************************************)
(* Theorems about AuthRuntime.  TypeCorrect holds for every variant.  The  *)
(* two results about epochs hold as long as settings.update does not       *)
(* overlap another handler, whatever launches and failures do: only        *)
(* SaveState then changes state.json, and it goes one epoch up from the    *)
(* state it loaded, which is still the state in the file.  The results     *)
(* about the account (vaults, live auth.json, app-server) are for handlers *)
(* that do not overlap: see Serial.                                        *)
(***************************************************************************)
EXTENDS AuthRuntime, TLAPS

--------------------------------------------------------------------------------
(* Types. *)

(* The three handlers that are not launches are actors of their own. *)
LEMMA ActorKinds ==
    /\ "switch" \in Actors /\ "startup" \in Actors /\ "settings" \in Actors
    /\ \A w \in Launchers : w \in Actors /\ w # "switch" /\ w # "settings"
BY LaunchersAssumption DEF Actors

(* A job that is at a step is a job. *)
LEMMA AtStepIsJob ==
    ASSUME TypeOK, NEW a \in Actors, job[a].at # "idle"
    PROVE  job[a] \in Jobs
BY DEF TypeOK, NoJob

(* Moving a job on keeps its type. *)
LEMMA GotoKeepsType ==
    ASSUME TypeOK, NEW a \in Actors, job[a].at # "idle",
           NEW step \in {"copy_back", "save_state", "save_broker", "check", "copy_in",
                         "shutdown", "start", "ready", "mark", "record", "save_settings"},
           Goto(a, step)
    PROVE  job' \in [Actors -> Jobs \cup {NoJob}]
<1>1. job[a] \in Jobs BY AtStepIsJob
<1>2. [job[a] EXCEPT !.at = step] \in Jobs BY <1>1 DEF Jobs
<1> QED BY <1>2 DEF Goto, TypeOK

(* Ending a job keeps its type. *)
LEMMA FinishKeepsType ==
    ASSUME TypeOK, NEW a \in Actors, Finish(a)
    PROVE  job' \in [Actors -> Jobs \cup {NoJob}]
BY DEF Finish, TypeOK

(* A new job is well typed. *)
LEMMA BeginKeepsType ==
    ASSUME TypeOK, NEW a \in Actors, NEW p \in Profiles,
           NEW step \in {"copy_back", "save_state", "check", "save_settings"},
           Begin(a, step, p)
    PROVE  job' \in [Actors -> Jobs \cup {NoJob}]
<1>1. [at |-> step, profile |-> p, state |-> state, broker |-> broker, pid |-> NoPid] \in Jobs
      BY DEF Jobs, TypeOK
<1> QED BY <1>1 DEF Begin, TypeOK

(* The first state is well typed. *)
LEMMA InitType == Init => TypeOK
BY BoundsAssumption DEF Init, TypeOK, States, Brokers, Credentials, NoCredential, Memories, NoMemory

(* Shutdown leaves well-typed fields and files. *)
LEMMA ShutdownKeepsType ==
    ASSUME TypeOK, Shutdown
    PROVE  /\ broker' \in Brokers /\ mem' \in Memories
           /\ procs' \in [Pids -> Credentials \cup {NoCredential}]
<1>1. broker' \in Brokers BY DEF Shutdown, TypeOK, Brokers
<1>2. mem' \in Memories BY DEF Shutdown, NoMemory, Memories
<1>3. procs' \in [Pids -> Credentials \cup {NoCredential}] BY DEF Shutdown, TypeOK
<1> QED BY <1>1, <1>2, <1>3

(* The steps of EnsureActiveProfile keep the types. *)
LEMMA EnsureKeepsType ==
    ASSUME TypeOK, NEW a \in Actors, Ensure(a)
    PROVE  TypeOK'
<1>1. CASE Check(a)
      <2>1. job' \in [Actors -> Jobs \cup {NoJob}]
            BY <1>1, GotoKeepsType DEF Check
      <2> QED BY <1>1, <2>1 DEF Check, TypeOK, files
<1>2. CASE CopyIn(a)
      <2>0. job[a] \in Jobs BY <1>2, AtStepIsJob DEF CopyIn
      <2>1. job' \in [Actors -> Jobs \cup {NoJob}]
            BY <1>2, GotoKeepsType, FinishKeepsType DEF CopyIn, Fail
      <2>2. runtimeAuth' \in Credentials \cup {NoCredential}
            BY <1>2, <2>0 DEF CopyIn, TypeOK, Jobs
      <2>3. phase' \in {"off", "starting", "serving"}
            BY <1>2 DEF CopyIn, Fail, TypeOK
      <2> QED BY <1>2, <2>1, <2>2, <2>3 DEF CopyIn, TypeOK
<1>3. CASE ShutdownOld(a)
      <2>1. job' \in [Actors -> Jobs \cup {NoJob}]
            BY <1>3, GotoKeepsType DEF ShutdownOld
      <2> QED BY <1>3, <2>1, ShutdownKeepsType DEF ShutdownOld, TypeOK
<1>4. CASE StartAppServer(a)
      <2>0. job[a] \in Jobs BY <1>4, AtStepIsJob DEF StartAppServer
      <2>1. CASE Fail(a) /\ UNCHANGED <<procs, mem>>
            BY <1>4, <2>1, FinishKeepsType DEF StartAppServer, Fail, TypeOK, files
      <2>2. ASSUME NEW i \in Pids \ Alive,
                   procs' = [procs EXCEPT ![i] = runtimeAuth],
                   mem' = [mem EXCEPT !.cmd = i, !.url = TRUE],
                   job' = [job EXCEPT ![a].at = "ready", ![a].pid = i],
                   UNCHANGED phase
            PROVE  TypeOK'
            <3>1. [job[a] EXCEPT !.at = "ready", !.pid = i] \in Jobs
                  BY <2>0 DEF Jobs
            <3>2. job' = [job EXCEPT ![a] = [job[a] EXCEPT !.at = "ready", !.pid = i]]
                  BY <2>2 DEF TypeOK
            <3>3. job' \in [Actors -> Jobs \cup {NoJob}]
                  BY <3>1, <3>2 DEF TypeOK
            <3>4. mem' \in Memories BY <2>2 DEF TypeOK, Memories
            <3> QED BY <1>4, <2>2, <3>3, <3>4 DEF StartAppServer, TypeOK, files
      <2> QED BY <1>4, <2>1, <2>2 DEF StartAppServer
<1>5. CASE AwaitReady(a)
      <2>1. CASE /\ mem' = [mem EXCEPT !.control = TRUE]
                 /\ broker' = [broker EXCEPT !.healthy = TRUE]
                 /\ Goto(a, "mark") /\ UNCHANGED <<phase, procs>>
            <3>1. job' \in [Actors -> Jobs \cup {NoJob}]
                  BY <1>5, <2>1, GotoKeepsType DEF AwaitReady
            <3>2. mem' \in Memories BY <2>1 DEF TypeOK, Memories
            <3>3. broker' \in Brokers BY <2>1 DEF TypeOK, Brokers
            <3> QED BY <1>5, <2>1, <3>1, <3>2, <3>3 DEF AwaitReady, TypeOK
      <2>2. CASE Shutdown /\ Fail(a)
            BY <1>5, <2>2, ShutdownKeepsType, FinishKeepsType DEF AwaitReady, Fail, TypeOK
      <2> QED BY <1>5, <2>1, <2>2 DEF AwaitReady
<1>6. CASE Mark(a)
      <2>0. job[a] \in Jobs BY <1>6, AtStepIsJob DEF Mark, MarkWith
      <2>1. job' \in [Actors -> Jobs \cup {NoJob}]
            BY <1>6, GotoKeepsType, FinishKeepsType DEF Mark, MarkWith
      <2>2. broker' \in Brokers
            BY <1>6, <2>0 DEF Mark, MarkWith, TypeOK, Jobs, Brokers, States
      <2> QED BY <1>6, <2>1, <2>2 DEF Mark, MarkWith, TypeOK
<1> QED BY <1>1, <1>2, <1>3, <1>4, <1>5, <1>6 DEF Ensure

(* The steps of a commit keep the types. *)
LEMMA CommitKeepsType ==
    ASSUME TypeOK, CopyBack \/ SaveState \/ SaveBroker
    PROVE  TypeOK'
<1> USE ActorKinds
<1>0. job["switch"] \in Jobs
      BY AtStepIsJob DEF CopyBack, SaveState, SaveBroker
<1>1. CASE CopyBack
      <2>1. job' \in [Actors -> Jobs \cup {NoJob}]
            BY <1>1, GotoKeepsType, FinishKeepsType DEF CopyBack
      <2>2. vault' \in [Profiles -> Credentials]
            BY <1>1 DEF CopyBack, TypeOK
      <2> QED BY <1>1, <2>1, <2>2 DEF CopyBack, TypeOK
<1>2. CASE SaveState
      <2>1. job' \in [Actors -> Jobs \cup {NoJob}]
            BY <1>2, GotoKeepsType DEF SaveState
      <2>2. state' \in States
            BY <1>0, <1>2 DEF SaveState, Jobs, States
      <2> QED BY <1>2, <2>1, <2>2 DEF SaveState, TypeOK
<1>3. CASE SaveBroker
      <2>1. job' \in [Actors -> Jobs \cup {NoJob}]
            BY <1>3, GotoKeepsType DEF SaveBroker
      <2> QED BY <1>0, <1>3, <2>1 DEF SaveBroker, TypeOK, Jobs
<1> QED BY <1>1, <1>2, <1>3

(* Every step keeps the types. *)
LEMMA NextType == TypeOK /\ [Next]_vars => TypeOK'
<1> SUFFICES ASSUME TypeOK, [Next]_vars PROVE TypeOK' OBVIOUS
<1> USE ActorKinds
<1>s. state.selected \in Profiles BY DEF TypeOK, States
<1>1. CASE BeginStartup
      <2>1. job' \in [Actors -> Jobs \cup {NoJob}]
            BY <1>1, <1>s, BeginKeepsType DEF BeginStartup
      <2> QED BY <1>1, <2>1 DEF BeginStartup, TypeOK, files
<1>2. ASSUME NEW p \in Profiles, BeginSwitch(p) PROVE TypeOK'
      <2>1. job' \in [Actors -> Jobs \cup {NoJob}]
            <3>1. CASE state.selected = p
                  BY <1>2, <3>1, BeginKeepsType DEF BeginSwitch
            <3>2. CASE state.selected # p
                  BY <1>2, <3>2, BeginKeepsType DEF BeginSwitch
            <3> QED BY <3>1, <3>2
      <2> QED BY <1>2, <2>1 DEF BeginSwitch, TypeOK, files
<1>3. ASSUME NEW p \in Profiles, UsageRefresh(p) PROVE TypeOK'
      <2>1. vault' \in [Profiles -> Credentials]
            BY <1>3 DEF UsageRefresh, TypeOK, Credentials
      <2> QED BY <1>3, <2>1 DEF UsageRefresh, TypeOK
<1>4. CASE CopyBack \/ SaveState \/ SaveBroker BY <1>4, CommitKeepsType
<1>5. ASSUME NEW w \in Launchers, BeginLaunch(w) PROVE TypeOK'
      <2>1. job' \in [Actors -> Jobs \cup {NoJob}]
            BY <1>5, <1>s, BeginKeepsType DEF BeginLaunch
      <2> QED BY <1>5, <2>1 DEF BeginLaunch, TypeOK, files
<1>6. ASSUME NEW w \in Launchers, RecordLaunch(w) PROVE TypeOK'
      <2>0. job[w] \in Jobs BY <1>6, AtStepIsJob DEF RecordLaunch
      <2>1. job' \in [Actors -> Jobs \cup {NoJob}]
            BY <1>6, FinishKeepsType DEF RecordLaunch
      <2>2. spec' \in [Launchers -> [profile : Profiles, epoch : Nat]]
            BY <1>6, <2>0 DEF RecordLaunch, TypeOK, Jobs, States
      <2> QED BY <1>6, <2>1, <2>2 DEF RecordLaunch, TypeOK, files
<1>7. CASE BeginSettings
      <2>1. job' \in [Actors -> Jobs \cup {NoJob}]
            BY <1>7, <1>s, BeginKeepsType DEF BeginSettings
      <2> QED BY <1>7, <2>1 DEF BeginSettings, TypeOK, files
<1>8. CASE SaveSettings
      <2>0. job["settings"] \in Jobs BY <1>8, AtStepIsJob DEF SaveSettings
      <2>1. job' \in [Actors -> Jobs \cup {NoJob}]
            BY <1>8, FinishKeepsType DEF SaveSettings
      <2> QED BY <1>8, <2>0, <2>1 DEF SaveSettings, TypeOK, Jobs
<1>9. ASSUME NEW a \in Actors, Ensure(a) PROVE TypeOK' BY <1>9, EnsureKeepsType
<1>10. ASSUME NEW i \in Pids, AppServerExits(i) PROVE TypeOK'
      BY <1>10 DEF AppServerExits, TypeOK, Memories, files
<1>11. ASSUME NEW i \in Pids, TokenRefresh(i) PROVE TypeOK'
      <2>1. procs[i] \in Credentials BY <1>11 DEF TokenRefresh, Alive, TypeOK
      <2>2. [procs[i] EXCEPT !.version = @ + 1] \in Credentials BY <2>1 DEF Credentials
      <2>3. procs' = [procs EXCEPT ![i] = [procs[i] EXCEPT !.version = @ + 1]]
            BY <1>11 DEF TokenRefresh, TypeOK
      <2>4. procs' \in [Pids -> Credentials \cup {NoCredential}] /\ procs'[i] \in Credentials
            BY <2>2, <2>3 DEF TypeOK
      <2> QED BY <1>11, <2>4 DEF TokenRefresh, TypeOK
<1>12. CASE Stop
      BY <1>12, ShutdownKeepsType DEF Stop, TypeOK
<1>13. CASE Crash
      BY <1>13 DEF Crash, TypeOK, NoMemory, Memories, files
<1>14. CASE UNCHANGED vars BY <1>14 DEF vars, TypeOK
<1> QED BY <1>1, <1>2, <1>3, <1>4, <1>5, <1>6, <1>7, <1>8, <1>9, <1>10, <1>11, <1>12,
           <1>13, <1>14 DEF Next

(* Every reachable state is well typed, whatever overlaps and fails. *)
THEOREM TypeCorrect == Spec => []TypeOK
BY InitType, NextType, PTL DEF Spec
--------------------------------------------------------------------------------
(* Epochs. *)

(* Two pairs of a profile and an epoch agree. *)
Agree(p, e, q, f) == e = f => p = q

CommitsFrom == {"copy_back", "save_state"}

(* The strengthening.  What a handler loaded is not ahead of state.json; a
   switch that has not saved yet and a settings update hold what is in it, and
   are never at work together; and the pairs that are written down somewhere
   agree with each other. *)
EpochInv ==
    /\ \A a \in Actors : job[a] # NoJob => job[a].state.epoch <= state.epoch
    /\ job["switch"] # NoJob /\ job["switch"].at \in CommitsFrom =>
         job["switch"].state = state
    /\ job["settings"] # NoJob => job["settings"].state = state /\ job["switch"] = NoJob
    /\ \A w \in Launchers :
         /\ spec[w].epoch <= state.epoch
         /\ Agree(spec[w].profile, spec[w].epoch, state.selected, state.epoch)
         /\ job[w] # NoJob =>
              Agree(job[w].state.selected, job[w].state.epoch, state.selected, state.epoch)
    /\ \A v, w \in Launchers :
         /\ Agree(spec[v].profile, spec[v].epoch, spec[w].profile, spec[w].epoch)
         /\ job[v] # NoJob =>
              Agree(job[v].state.selected, job[v].state.epoch, spec[w].profile, spec[w].epoch)
         /\ job[v] # NoJob /\ job[w] # NoJob =>
              Agree(job[v].state.selected, job[v].state.epoch,
                    job[w].state.selected, job[w].state.epoch)

(* A handler ends, or goes on with what it loaded. *)
GoesOn(a) ==
    \/ job'[a] = NoJob
    \/ /\ job[a] # NoJob /\ job'[a] # NoJob
       /\ job'[a].state = job[a].state
       /\ job'[a].at \in CommitsFrom => job[a].at \in CommitsFrom

(* One handler at a step goes on or ends; the others stay where they are. *)
LEMMA GotoGoesOn ==
    ASSUME TypeOK, NEW a \in Actors, job[a].at # "idle", NEW step,
           step # "idle", step \in CommitsFrom => job[a].at \in CommitsFrom,
           Goto(a, step) \/ Finish(a)
    PROVE  \A b \in Actors : GoesOn(b)
<1>1. job[a] \in Jobs BY AtStepIsJob
<1>2. job[a] # NoJob BY DEF NoJob
<1>3. CASE Goto(a, step)
      <2>1. job' = [job EXCEPT ![a] = [job[a] EXCEPT !.at = step]]
            BY <1>3 DEF Goto, TypeOK
      <2>2. DEFINE j == [job[a] EXCEPT !.at = step]
      <2>3. j.at = step /\ j.state = job[a].state BY <1>1 DEF Jobs
      <2>4. j # NoJob BY <2>3 DEF NoJob
      <2>5. job' = [job EXCEPT ![a] = j] BY <2>1
      <2> HIDE DEF j
      <2> QED BY <2>3, <2>4, <2>5, <1>2 DEF GoesOn, TypeOK
<1>4. CASE Finish(a)
      BY <1>4 DEF Finish, GoesOn, TypeOK
<1> QED BY <1>3, <1>4

(* As long as nobody touches state.json or the specs, going on is harmless. *)
LEMMA GoingOnKeepsEpochs ==
    ASSUME TypeOK, EpochInv, \A b \in Actors : GoesOn(b), state' = state, spec' = spec
    PROVE  EpochInv'
BY ActorKinds DEF EpochInv, GoesOn, Agree

(* EnsureActiveProfile changes neither state.json nor a spec. *)
LEMMA EnsureKeepsEpochs ==
    ASSUME TypeOK, EpochInv, NEW a \in Actors, Ensure(a)
    PROVE  EpochInv'
<1>0. state' = state /\ spec' = spec
      BY DEF Ensure, Check, CopyIn, ShutdownOld, StartAppServer, AwaitReady, Mark, MarkWith, files
<1>1. CASE Check(a)
      BY <1>0, <1>1, GotoGoesOn, GoingOnKeepsEpochs DEF Check, CommitsFrom
<1>2. CASE CopyIn(a)
      BY <1>0, <1>2, GotoGoesOn, GoingOnKeepsEpochs DEF CopyIn, Fail, CommitsFrom
<1>3. CASE ShutdownOld(a)
      BY <1>0, <1>3, GotoGoesOn, GoingOnKeepsEpochs DEF ShutdownOld, CommitsFrom
<1>4. CASE StartAppServer(a)
      <2>0. job[a] \in Jobs BY <1>4, AtStepIsJob DEF StartAppServer
      <2>1. CASE Fail(a)
            BY <1>0, <1>4, <2>1, GotoGoesOn, GoingOnKeepsEpochs
               DEF StartAppServer, Fail, CommitsFrom
      <2>2. ASSUME NEW i \in Pids,
                   job' = [job EXCEPT ![a].at = "ready", ![a].pid = i]
            PROVE  EpochInv'
            <3> DEFINE j == [job[a] EXCEPT !.at = "ready", !.pid = i]
            <3>1. job' = [job EXCEPT ![a] = j] BY <2>2 DEF TypeOK
            <3>2. j.at = "ready" /\ j.state = job[a].state BY <2>0 DEF Jobs
            <3>3. j # NoJob BY <3>2 DEF NoJob
            <3>4. job[a] # NoJob
                  <4>1. job[a].at = "start" BY <1>4 DEF StartAppServer
                  <4> QED BY <4>1 DEF NoJob
            <3> HIDE DEF j
            <3>5. \A b \in Actors : GoesOn(b)
                  BY <3>1, <3>2, <3>3, <3>4 DEF GoesOn, CommitsFrom, TypeOK
            <3> QED BY <3>5, <1>0, GoingOnKeepsEpochs
      <2> QED BY <1>4, <2>1, <2>2 DEF StartAppServer
<1>5. CASE AwaitReady(a)
      BY <1>0, <1>5, GotoGoesOn, GoingOnKeepsEpochs DEF AwaitReady, Fail, CommitsFrom
<1>6. CASE Mark(a)
      BY <1>0, <1>6, GotoGoesOn, GoingOnKeepsEpochs DEF Mark, MarkWith, CommitsFrom
<1> QED BY <1>1, <1>2, <1>3, <1>4, <1>5, <1>6 DEF Ensure

(* A handler that begins holds what is in state.json.  A switch begins only
   when no settings update is at work, and the other way round. *)
LEMMA BeginKeepsEpochs ==
    ASSUME TypeOK, EpochInv, NEW a \in Actors, NEW step, step # "idle", NEW p,
           Begin(a, step, p), state' = state, spec' = spec,
           a = "switch" => job["settings"] = NoJob,
           a = "settings" => job["switch"] = NoJob
    PROVE  EpochInv'
<1> DEFINE j == [at |-> step, profile |-> p, state |-> state, broker |-> broker,
                 pid |-> NoPid]
<1>1. job' = [job EXCEPT ![a] = j] BY DEF Begin
<1>2. j.state = state /\ j # NoJob BY DEF NoJob
<1> HIDE DEF j
<1>3. \A b \in Actors : job'[b] = IF b = a THEN j ELSE job[b] BY <1>1 DEF TypeOK
<1>4. state.epoch \in Nat BY DEF TypeOK, States
<1> QED BY <1>2, <1>3, <1>4, ActorKinds DEF EpochInv, Agree

(* The one step that changes state.json: one epoch up from all that is known. *)
LEMMA SaveStateKeepsEpochs ==
    ASSUME TypeOK, EpochInv, SaveState
    PROVE  EpochInv' /\ state'.epoch >= state.epoch
<1> USE ActorKinds
<1>1. job["switch"] # NoJob /\ job["switch"] \in Jobs
      BY AtStepIsJob DEF SaveState, NoJob
<1>2. job["switch"].state = state BY <1>1 DEF SaveState, EpochInv, CommitsFrom
<1>3. state'.epoch = state.epoch + 1 BY <1>2 DEF SaveState
<1>4. state.epoch \in Nat BY DEF TypeOK, States
<1>5. \A b \in Actors : GoesOn(b)
      BY <1>1, GotoGoesOn DEF SaveState, CommitsFrom
<1>6. job["settings"] = NoJob BY <1>1 DEF EpochInv
<1>7. \A b \in Actors : job[b] # NoJob => job[b].state.epoch \in Nat
      BY DEF TypeOK, Jobs, States
<1>8. \A w \in Launchers : spec[w].epoch \in Nat BY DEF TypeOK
<1>9. spec' = spec BY DEF SaveState
<1>10. job'["switch"].at \notin CommitsFrom
      BY <1>1 DEF SaveState, Goto, CommitsFrom, TypeOK, Jobs
<1>11. job'["settings"] = NoJob BY <1>5, <1>6 DEF GoesOn
<1>12. \A a \in Actors : job'[a] # NoJob =>
          /\ job[a] # NoJob /\ job'[a].state = job[a].state
          /\ job'[a].state.epoch < state'.epoch
      BY <1>3, <1>4, <1>5, <1>7 DEF GoesOn, EpochInv
<1>13. \A w \in Launchers : spec'[w].epoch < state'.epoch
      BY <1>3, <1>4, <1>8, <1>9 DEF EpochInv
<1>14. /\ \A a \in Actors : job'[a] # NoJob => job'[a].state.epoch <= state'.epoch
       /\ \A w \in Launchers :
            /\ spec'[w].epoch <= state'.epoch
            /\ Agree(spec'[w].profile, spec'[w].epoch, state'.selected, state'.epoch)
            /\ job'[w] # NoJob => Agree(job'[w].state.selected, job'[w].state.epoch,
                                        state'.selected, state'.epoch)
      BY <1>3, <1>4, <1>7, <1>8, <1>9, <1>12, <1>13 DEF Agree
<1>15. \A v, w \in Launchers :
         /\ Agree(spec'[v].profile, spec'[v].epoch, spec'[w].profile, spec'[w].epoch)
         /\ job'[v] # NoJob => Agree(job'[v].state.selected, job'[v].state.epoch,
                                     spec'[w].profile, spec'[w].epoch)
         /\ job'[v] # NoJob /\ job'[w] # NoJob =>
              Agree(job'[v].state.selected, job'[v].state.epoch,
                    job'[w].state.selected, job'[w].state.epoch)
      BY <1>9, <1>12 DEF EpochInv
<1>16. EpochInv' BY <1>10, <1>11, <1>14, <1>15 DEF EpochInv
<1> QED BY <1>3, <1>4, <1>16

(* A spec takes the pair its job loaded, which agreed with every other. *)
LEMMA RecordKeepsEpochs ==
    ASSUME TypeOK, EpochInv, NEW w \in Launchers, RecordLaunch(w)
    PROVE  EpochInv'
<1> USE ActorKinds
<1>1. job[w] # NoJob /\ job[w] \in Jobs BY AtStepIsJob DEF RecordLaunch, NoJob
<1>2. \A b \in Actors : GoesOn(b) /\ job'[b] = IF b = w THEN NoJob ELSE job[b]
      BY <1>1 DEF RecordLaunch, Finish, GoesOn, TypeOK
<1>3. \A v \in Launchers :
        /\ v # w => spec'[v] = spec[v]
        /\ v = w => /\ spec'[v].profile = job[w].state.selected
                    /\ spec'[v].epoch = job[w].state.epoch
      BY DEF RecordLaunch, TypeOK
<1>4. state' = state BY DEF RecordLaunch, files
<1>5. \A v \in Launchers :
        /\ spec'[v].epoch <= state.epoch
        /\ Agree(spec'[v].profile, spec'[v].epoch, state.selected, state.epoch)
      BY <1>1, <1>3 DEF EpochInv
<1>6. \A v \in Launchers : job[v] # NoJob =>
        \A u \in Launchers : Agree(job[v].state.selected, job[v].state.epoch,
                                   spec'[u].profile, spec'[u].epoch)
      BY <1>1, <1>3 DEF EpochInv
<1>7. \A v, u \in Launchers :
        Agree(spec'[v].profile, spec'[v].epoch, spec'[u].profile, spec'[u].epoch)
      <2> TAKE v \in Launchers, u \in Launchers
      <2>1. CASE v = w BY <1>1, <1>3, <1>6, <2>1 DEF Agree
      <2>2. CASE u = w BY <1>1, <1>3, <1>6, <2>2 DEF Agree
      <2>3. CASE v # w /\ u # w BY <1>3, <2>3 DEF EpochInv
      <2> QED BY <2>1, <2>2, <2>3
<1> QED BY <1>2, <1>4, <1>5, <1>6, <1>7 DEF EpochInv

(* At first every spec and state.json agree. *)
LEMMA InitEpochs == Init => EpochInv
BY ActorKinds, BoundsAssumption DEF Init, EpochInv, Agree

(* Every step keeps the strengthening, and none takes the epoch back. *)
LEMMA NextEpochs ==
    ASSUME "settings" \notin Overlap
    PROVE  TypeOK /\ EpochInv /\ [Next]_vars => EpochInv' /\ state'.epoch >= state.epoch
<1> SUFFICES ASSUME TypeOK, EpochInv, [Next]_vars
             PROVE  EpochInv' /\ state'.epoch >= state.epoch
    OBVIOUS
<1> USE ActorKinds
<1>e. state.epoch \in Nat /\ (state' = state => state'.epoch >= state.epoch)
      BY DEF TypeOK, States
<1>j. Kind("switch") = "switch" /\ Kind("settings") = "settings"
      BY LaunchersAssumption DEF Kind
<1>o. {"switch", "settings"} \cap Overlap = {} /\ {"settings", "switch"} \cap Overlap = {}
      BY VariantAssumption
<1>k. MayServe("switch") => job["settings"] = NoJob
      BY <1>j, <1>o DEF MayServe
<1>l. MayServe("settings") => job["switch"] = NoJob
      BY <1>j, <1>o DEF MayServe
<1>1. CASE BeginStartup
      BY <1>1, <1>e, BeginKeepsEpochs DEF BeginStartup, files
<1>2. ASSUME NEW p \in Profiles, BeginSwitch(p) PROVE EpochInv' /\ state'.epoch >= state.epoch
      <2>1. CASE state.selected = p
            BY <1>2, <1>e, <1>k, <2>1, BeginKeepsEpochs DEF BeginSwitch, files
      <2>2. CASE state.selected # p
            BY <1>2, <1>e, <1>k, <2>2, BeginKeepsEpochs DEF BeginSwitch, files
      <2> QED BY <2>1, <2>2
<1>3. ASSUME NEW p \in Profiles, UsageRefresh(p) PROVE EpochInv' /\ state'.epoch >= state.epoch
      BY <1>3, <1>e DEF UsageRefresh, EpochInv, Agree
<1>4. CASE CopyBack
      <2>1. \A b \in Actors : GoesOn(b)
            BY <1>4, GotoGoesOn DEF CopyBack, CommitsFrom
      <2> QED BY <1>4, <1>e, <2>1, GoingOnKeepsEpochs DEF CopyBack
<1>5. CASE SaveState BY <1>5, SaveStateKeepsEpochs
<1>6. CASE SaveBroker
      <2>1. \A b \in Actors : GoesOn(b)
            BY <1>6, GotoGoesOn DEF SaveBroker, CommitsFrom
      <2> QED BY <1>6, <1>e, <2>1, GoingOnKeepsEpochs DEF SaveBroker
<1>7. ASSUME NEW w \in Launchers, BeginLaunch(w) PROVE EpochInv' /\ state'.epoch >= state.epoch
      BY <1>7, <1>e, BeginKeepsEpochs DEF BeginLaunch, files
<1>8. ASSUME NEW w \in Launchers, RecordLaunch(w) PROVE EpochInv' /\ state'.epoch >= state.epoch
      BY <1>8, <1>e, RecordKeepsEpochs DEF RecordLaunch, files
<1>9. CASE BeginSettings
      BY <1>9, <1>e, <1>l, BeginKeepsEpochs DEF BeginSettings, files
<1>10. CASE SaveSettings
      <2>1. job["settings"] # NoJob BY <1>10 DEF SaveSettings, NoJob
      <2>2. state' = state BY <1>10, <2>1 DEF SaveSettings, EpochInv
      <2>3. \A b \in Actors : GoesOn(b)
            BY <1>10 DEF SaveSettings, Finish, GoesOn, TypeOK
      <2> QED BY <1>10, <1>e, <2>2, <2>3, GoingOnKeepsEpochs DEF SaveSettings
<1>11. ASSUME NEW a \in Actors, Ensure(a) PROVE EpochInv' /\ state'.epoch >= state.epoch
      <2>1. state' = state
            BY <1>11 DEF Ensure, Check, CopyIn, ShutdownOld, StartAppServer, AwaitReady,
                         Mark, MarkWith, files
      <2> QED BY <1>11, <1>e, <2>1, EnsureKeepsEpochs
<1>12. ASSUME NEW i \in Pids, AppServerExits(i) \/ TokenRefresh(i)
       PROVE  EpochInv' /\ state'.epoch >= state.epoch
      BY <1>12, <1>e DEF AppServerExits, TokenRefresh, files, EpochInv, Agree
<1>13. CASE Stop BY <1>13, <1>e DEF Stop, EpochInv, Agree
<1>14. CASE Crash
      <2>1. \A b \in Actors : GoesOn(b) BY <1>14 DEF Crash, GoesOn
      <2> QED BY <1>14, <1>e, <2>1, GoingOnKeepsEpochs DEF Crash, files
<1>15. CASE UNCHANGED vars BY <1>15, <1>e DEF vars, EpochInv, Agree
<1> QED BY <1>1, <1>2, <1>3, <1>4, <1>5, <1>6, <1>7, <1>8, <1>9, <1>10, <1>11, <1>12,
           <1>13, <1>14, <1>15 DEF Next

(* However launches, crashes, failed steps and refreshes interleave with a
   switch, an auth epoch stands for one profile: the pair a launch hands to its
   window was in state.json together. *)
THEOREM EpochsNameProfiles ==
    ASSUME "settings" \notin Overlap
    PROVE  Spec => []EpochNamesOneProfile
<1>1. EpochInv => EpochNamesOneProfile BY DEF EpochInv, EpochNamesOneProfile, Agree
<1> QED BY <1>1, InitType, NextType, InitEpochs, NextEpochs, PTL DEF Spec

(* The strengthening: a record that is behind the selected epoch, and would let
   the selected profile's app-server be reused, is on its way to be marked. *)
Behind == CanReuse(state.selected) /\ broker.epoch # state.epoch

AboutToMark(a) ==
    \/ job[a].at \in {"ready", "mark"}
    \/ a = "switch" /\ job[a].at \in {"save_broker", "check"}

CurrentInv ==
    /\ job["switch"].at \in {"save_broker", "check"} => job["switch"].profile = state.selected
    /\ Behind => \E a \in Actors : AboutToMark(a)

(* The jobs as far as CurrentInv looks at them. *)
LEMMA JobSteps ==
    ASSUME TypeOK, NEW a \in Actors, job[a].at # "idle"
    PROVE  /\ \A step : step # "idle" /\ Goto(a, step) =>
                job'[a].at = step /\ job'[a].profile = job[a].profile
           /\ (\E step : Goto(a, step)) \/ Finish(a) => \A b \in Actors : b # a => job'[b] = job[b]
           /\ Finish(a) => job'[a] = NoJob
<1>1. job[a] \in Jobs
  BY AtStepIsJob
<1>2. ASSUME NEW step, Goto(a, step)
      PROVE  /\ job'[a].at = step /\ job'[a].profile = job[a].profile
             /\ \A b \in Actors : b # a => job'[b] = job[b]
  <2> DEFINE j == [job[a] EXCEPT !.at = step]
  <2>1. j.at = step /\ j.profile = job[a].profile
    BY <1>1 DEF Jobs
  <2>2. job' = [job EXCEPT ![a] = j]
    BY <1>2 DEF Goto, TypeOK
  <2> HIDE DEF j
  <2> QED
    BY <2>1, <2>2 DEF TypeOK
<1>3. ASSUME Finish(a)
      PROVE  job'[a] = NoJob /\ \A b \in Actors : b # a => job'[b] = job[b]
  BY <1>3 DEF Finish, TypeOK
<1> QED
  BY <1>2, <1>3

(* A step of a handler that makes nothing reusable and is not on its way. *)
LEMMA SideStepKeepsCurrent ==
    ASSUME CurrentInv, NEW a \in Actors, state' = state,
           Behind' => Behind, ~AboutToMark(a) \/ AboutToMark(a)',
           \A b \in Actors : b # a => job'[b] = job[b],
           a = "switch" => job'[a].at \notin {"save_broker", "check"}
    PROVE  CurrentInv'
<1>1. job'["switch"].at \in {"save_broker", "check"} => job'["switch"].profile = state'.selected
  BY ActorKinds DEF CurrentInv
<1>2. ASSUME Behind' PROVE \E b \in Actors : AboutToMark(b)'
  <2>1. PICK b \in Actors : AboutToMark(b)
    BY <1>2 DEF CurrentInv
  <2> QED
    BY <2>1 DEF AboutToMark
<1> QED
  BY <1>1, <1>2 DEF CurrentInv

LEMMA ShutdownNotBehind ==
    ASSUME Shutdown
    PROVE  ~Behind'
BY DEF Shutdown, Behind, CanReuse, NoMemory

LEMMA EnsureKeepsCurrent ==
    ASSUME TypeOK, CurrentInv, NEW a \in Actors, Ensure(a)
    PROVE  CurrentInv'
<1>0. state' = state
  BY DEF Ensure, Check, CopyIn, ShutdownOld, StartAppServer, AwaitReady, Mark, MarkWith, files
<1>1. CASE Check(a)
  <2>1. /\ job[a].at = "check" /\ UNCHANGED <<state, broker, mem>>
        /\ Goto(a, IF CanReuse(job[a].profile) THEN "mark" ELSE "copy_in")
    BY <1>1 DEF Check, files
  <2>2. /\ job'[a].at = IF CanReuse(job[a].profile) THEN "mark" ELSE "copy_in"
        /\ \A b \in Actors : b # a => job'[b] = job[b]
    BY <2>1, JobSteps
  <2>3. Behind' => Behind
    BY <2>1 DEF Behind, CanReuse
  <2>4. CASE CanReuse(job[a].profile) \/ a # "switch"
    <3>1. ~AboutToMark(a) \/ AboutToMark(a)'
      BY <2>1, <2>2, <2>4 DEF AboutToMark
    <3> QED
      BY <1>0, <2>2, <2>3, <3>1, SideStepKeepsCurrent
  <2>5. CASE ~CanReuse(job[a].profile) /\ a = "switch"
    <3>1. ~Behind'
      BY <2>1, <2>3, <2>5 DEF CurrentInv, Behind
    <3> QED
      BY <2>2, <2>5, <3>1 DEF CurrentInv
  <2> QED
    BY <2>4, <2>5
<1>2. CASE CopyIn(a)
  <2>1. job[a].at = "copy_in" /\ (Goto(a, "shutdown") \/ Finish(a)) /\ UNCHANGED <<broker, mem>>
    BY <1>2 DEF CopyIn, Fail
  <2>2. /\ job'[a].at \notin {"save_broker", "check"}
        /\ \A b \in Actors : b # a => job'[b] = job[b]
    BY <2>1, JobSteps DEF NoJob
  <2>3. (Behind' => Behind) /\ ~AboutToMark(a)
    BY <1>0, <2>1 DEF Behind, CanReuse, AboutToMark
  <2> QED
    BY <1>0, <2>2, <2>3, SideStepKeepsCurrent
<1>3. CASE ShutdownOld(a)
  <2>1. job[a].at = "shutdown" /\ Goto(a, "start") /\ Shutdown
    BY <1>3 DEF ShutdownOld
  <2>2. job'[a].at = "start" /\ \A b \in Actors : b # a => job'[b] = job[b]
    BY <2>1, JobSteps
  <2>3. ~Behind' /\ ~AboutToMark(a)
    BY <2>1, ShutdownNotBehind DEF AboutToMark
  <2> QED
    BY <1>0, <2>2, <2>3, SideStepKeepsCurrent
<1>4. CASE StartAppServer(a)
  <2>0. job[a] \in Jobs /\ job[a].at = "start" /\ UNCHANGED broker
    BY <1>4, AtStepIsJob DEF StartAppServer, files
  <2>1. CASE Fail(a) /\ UNCHANGED <<procs, mem>>
    <3>1. job'[a].at = "idle" /\ \A b \in Actors : b # a => job'[b] = job[b]
      BY <2>0, <2>1, JobSteps DEF Fail, NoJob
    <3>2. (Behind' => Behind) /\ ~AboutToMark(a)
      BY <1>0, <2>0, <2>1 DEF Behind, CanReuse, AboutToMark
    <3> QED
      BY <1>0, <3>1, <3>2, SideStepKeepsCurrent
  <2>2. ASSUME NEW i \in Pids, job' = [job EXCEPT ![a].at = "ready", ![a].pid = i]
        PROVE  CurrentInv'
    <3> DEFINE j == [job[a] EXCEPT !.at = "ready", !.pid = i]
    <3>1. job' = [job EXCEPT ![a] = j]
      BY <2>2 DEF TypeOK
    <3>2. j.at = "ready"
      BY <2>0 DEF Jobs
    <3> HIDE DEF j
    <3>3. job'[a].at = "ready" /\ \A b \in Actors : b # a => job'[b] = job[b]
      BY <3>1, <3>2 DEF TypeOK
    <3> QED
      BY <1>0, <3>3, ActorKinds DEF CurrentInv, AboutToMark
  <2> QED
    BY <1>4, <2>1, <2>2 DEF StartAppServer
<1>5. CASE AwaitReady(a)
  <2>0. job[a].at = "ready"
    BY <1>5 DEF AwaitReady
  <2>1. CASE Goto(a, "mark")
    <3>1. job'[a].at = "mark" /\ \A b \in Actors : b # a => job'[b] = job[b]
      BY <2>0, <2>1, JobSteps
    <3> QED
      BY <1>0, <3>1, ActorKinds DEF CurrentInv, AboutToMark
  <2>2. CASE Shutdown /\ Fail(a)
    <3>1. job'[a].at = "idle" /\ \A b \in Actors : b # a => job'[b] = job[b]
      BY <2>0, <2>2, JobSteps DEF Fail, NoJob
    <3> QED
      BY <1>0, <2>2, <3>1, ShutdownNotBehind, ActorKinds DEF CurrentInv
  <2> QED
    BY <1>5, <2>1, <2>2 DEF AwaitReady
<1>6. CASE Mark(a)
  <2>1. /\ job[a].at = "mark" /\ (Goto(a, "record") \/ Finish(a))
        /\ broker' = [active |-> job[a].profile, epoch |-> state.epoch, healthy |-> TRUE]
    BY <1>6 DEF Mark, MarkWith
  <2>2. /\ job'[a].at \notin {"save_broker", "check"}
        /\ \A b \in Actors : b # a => job'[b] = job[b]
    BY <2>1, JobSteps DEF NoJob
  <2>3. ~Behind'
    BY <1>0, <2>1 DEF Behind
  <2> QED
    BY <1>0, <2>2, <2>3, ActorKinds DEF CurrentInv
<1> QED
  BY <1>1, <1>2, <1>3, <1>4, <1>5, <1>6 DEF Ensure

LEMMA NextCurrent ==
    ASSUME "settings" \notin Overlap
    PROVE  TypeOK /\ EpochInv /\ CurrentInv /\ [Next]_vars => CurrentInv'
<1> SUFFICES ASSUME TypeOK, EpochInv, CurrentInv, [Next]_vars PROVE CurrentInv'
  OBVIOUS
<1> USE ActorKinds
<1>1. ASSUME NEW a \in Actors, NEW step \in {"copy_back", "save_state", "check", "save_settings"},
             NEW p, Begin(a, step, p), UNCHANGED <<files, mem>>, a = "switch" => step # "check"
      PROVE  CurrentInv'
  <2>1. job[a] = NoJob /\ job'[a].at = step /\ \A b \in Actors : b # a => job'[b] = job[b]
    BY <1>1 DEF Begin, TypeOK
  <2>2. (Behind' => Behind) /\ ~AboutToMark(a)
    BY <1>1, <2>1 DEF Behind, CanReuse, AboutToMark, NoJob, files
  <2> QED
    BY <1>1, <2>1, <2>2, SideStepKeepsCurrent DEF files
<1>2. CASE BeginStartup
  BY <1>1, <1>2, LaunchersAssumption DEF BeginStartup
<1>3. ASSUME NEW p \in Profiles, BeginSwitch(p) PROVE CurrentInv'
  <2>1. CASE state.selected = p
    BY <1>1, <1>3, <2>1 DEF BeginSwitch
  <2>2. CASE state.selected # p
    BY <1>1, <1>3, <2>2 DEF BeginSwitch
  <2> QED
    BY <2>1, <2>2
<1>4. ASSUME NEW w \in Launchers, BeginLaunch(w) PROVE CurrentInv'
  BY <1>1, <1>4 DEF BeginLaunch
<1>5. CASE BeginSettings
  BY <1>1, <1>5 DEF BeginSettings
<1>6. CASE CopyBack
  <2>1. /\ job["switch"].at = "copy_back" /\ (Goto("switch", "save_state") \/ Finish("switch"))
        /\ UNCHANGED <<state, broker, mem>>
    BY <1>6 DEF CopyBack
  <2>2. /\ job'["switch"].at \notin {"save_broker", "check"}
        /\ \A b \in Actors : b # "switch" => job'[b] = job[b]
    BY <2>1, JobSteps DEF NoJob
  <2>3. (Behind' => Behind) /\ ~AboutToMark("switch")
    BY <2>1 DEF Behind, CanReuse, AboutToMark
  <2> QED
    BY <2>1, <2>2, <2>3, SideStepKeepsCurrent
<1>7. CASE SaveState
  <2>1. /\ job["switch"].at = "save_state" /\ Goto("switch", "save_broker")
        /\ state'.selected = job["switch"].profile
    BY <1>7 DEF SaveState
  <2>2. job'["switch"].at = "save_broker" /\ job'["switch"].profile = job["switch"].profile
    BY <2>1, JobSteps
  <2> QED
    BY <2>1, <2>2 DEF CurrentInv, AboutToMark
<1>8. CASE SaveBroker
  <2>1. job["switch"].at = "save_broker" /\ Goto("switch", "check") /\ state' = state
    BY <1>8 DEF SaveBroker
  <2>2. job'["switch"].at = "check" /\ job'["switch"].profile = job["switch"].profile
    BY <2>1, JobSteps
  <2> QED
    BY <2>1, <2>2 DEF CurrentInv, AboutToMark
<1>9. ASSUME NEW w \in Launchers, RecordLaunch(w) PROVE CurrentInv'
  <2>1. job[w].at = "record" /\ Finish(w) /\ UNCHANGED <<state, broker, mem>>
    BY <1>9 DEF RecordLaunch, files
  <2>2. job'[w].at = "idle" /\ \A b \in Actors : b # w => job'[b] = job[b]
    BY <2>1, JobSteps DEF NoJob
  <2>3. (Behind' => Behind) /\ ~AboutToMark(w)
    BY <2>1 DEF Behind, CanReuse, AboutToMark
  <2> QED
    BY <2>1, <2>2, <2>3, SideStepKeepsCurrent
<1>10. CASE SaveSettings
  <2>1. /\ job["settings"].at = "save_settings" /\ state' = job["settings"].state
        /\ Finish("settings") /\ UNCHANGED <<broker, mem>>
    BY <1>10 DEF SaveSettings
  <2>2. job'["settings"].at = "idle" /\ \A b \in Actors : b # "settings" => job'[b] = job[b]
    BY <2>1, JobSteps DEF NoJob
  <2>3. state' = state
    BY <2>1 DEF EpochInv, NoJob
  <2>4. (Behind' => Behind) /\ ~AboutToMark("settings")
    BY <2>1, <2>3 DEF Behind, CanReuse, AboutToMark
  <2> QED
    BY <2>2, <2>3, <2>4, SideStepKeepsCurrent
<1>11. ASSUME NEW a \in Actors, Ensure(a) PROVE CurrentInv'
  BY <1>11, EnsureKeepsCurrent
<1>12. ASSUME NEW i \in Pids, AppServerExits(i) PROVE CurrentInv'
  <2>1. UNCHANGED <<state, broker, job>> /\ mem' = IF mem.cmd = i THEN [mem EXCEPT !.cmd = NoPid] ELSE mem
    BY <1>12 DEF AppServerExits, files
  <2>2. Behind' => Behind
    <3>1. mem.cmd = i => mem'.cmd = NoPid
      BY <2>1 DEF TypeOK, Memories
    <3> QED
      BY <2>1, <3>1 DEF Behind, CanReuse
  <2> QED
    BY <2>1, <2>2 DEF CurrentInv, AboutToMark
<1>13. ASSUME NEW i \in Pids, TokenRefresh(i) PROVE CurrentInv'
  BY <1>13 DEF TokenRefresh, CurrentInv, AboutToMark, Behind, CanReuse
<1>14. ASSUME NEW p \in Profiles, UsageRefresh(p) PROVE CurrentInv'
  BY <1>14 DEF UsageRefresh, CurrentInv, AboutToMark, Behind, CanReuse
<1>15. CASE Stop
  <2>1. AllIdle /\ UNCHANGED job /\ ~Behind'
    BY <1>15, ShutdownNotBehind DEF Stop
  <2> QED
    BY <2>1 DEF CurrentInv, AllIdle, NoJob
<1>16. CASE Crash
  <2>1. ~Behind' /\ job'["switch"] = NoJob
    BY <1>16 DEF Crash, Behind, CanReuse, NoMemory
  <2> QED
    BY <2>1 DEF CurrentInv, NoJob
<1>17. CASE UNCHANGED vars
  BY <1>17 DEF vars, CurrentInv, AboutToMark, Behind, CanReuse
<1> QED
  BY <1>2, <1>3, <1>4, <1>5, <1>6, <1>7, <1>8, <1>9, <1>10, <1>11, <1>12, <1>13, <1>14,
     <1>15, <1>16, <1>17 DEF Next

(* Whatever launches interleave with a switch, and whichever of their steps
   fail, a record of the selected profile that a launch would reuse has the
   selected epoch. *)
THEOREM ActiveEpochsCurrent ==
    ASSUME "settings" \notin Overlap
    PROVE  Spec => []ActiveEpochCurrent
<1>1. Init => CurrentInv
  BY ActorKinds DEF Init, CurrentInv, Behind, CanReuse, NoJob, NoMemory
<1>2. CurrentInv => ActiveEpochCurrent
  BY DEF CurrentInv, ActiveEpochCurrent, AllIdle, AboutToMark, Behind, NoJob
<1> QED
  BY <1>1, <1>2, InitType, NextType, InitEpochs, NextEpochs, NextCurrent, PTL DEF Spec
--------------------------------------------------------------------------------
(* The account, as long as handlers do not overlap and no step outside the
   controller's own failures disturbs them. *)

Serial == Overlap = {} /\ Events \subseteq {"usage_refresh"}

Usable == mem.cmd # NoPid /\ mem.control /\ mem.url

LiveIsSelected == runtimeAuth.owner = state.selected

ServerIsLive == mem.cmd # NoPid => procs[mem.cmd].owner = runtimeAuth.owner

ActiveIsLive == broker.healthy /\ Usable => broker.active = runtimeAuth.owner

(* What holds when the broker serves and no handler is at work. *)
Settled ==
    /\ LiveIsSelected /\ ServerIsLive
    /\ broker.healthy /\ Usable => broker.active = state.selected /\ broker.epoch = state.epoch

(* What holds while a handler is at j.at.  From "check" on, the profile it
   makes active is the selected one, and the live auth.json may be another's
   until it is copied in. *)
JobOk(j) ==
    /\ j.at \in {"copy_back", "save_state", "save_settings", "record"} => Settled
    /\ j.at \in {"copy_back", "save_state", "save_settings"} => j.state = state
    /\ j.at \in {"copy_back", "save_state", "save_broker"} => j.broker = broker
    /\ j.at \in {"save_broker", "check"} => ServerIsLive /\ ActiveIsLive
    /\ j.at \in {"save_broker", "check", "copy_in", "shutdown", "start", "ready", "mark"} =>
         j.profile = state.selected
    /\ j.at \in {"shutdown", "start", "ready", "mark"} => LiveIsSelected
    /\ j.at = "start" => mem = NoMemory
    /\ j.at \in {"ready", "mark"} => ServerIsLive

OneJob == \A a, b \in Actors : a = b \/ job[a] = NoJob \/ job[b] = NoJob

Phases ==
    /\ phase = "off" => AllIdle /\ mem = NoMemory
    /\ phase = "starting" <=> job["startup"] # NoJob

AccountInv ==
    /\ VaultsPure /\ OneJob /\ Phases
    /\ phase = "serving" /\ AllIdle => Settled
    /\ \A a \in Actors : JobOk(job[a])

LEMMA InitAccount == Init => AccountInv
<1> SUFFICES ASSUME Init PROVE AccountInv
  OBVIOUS
<1>1. VaultsPure
  BY DEF Init, VaultsPure
<1>2. OneJob /\ Phases /\ phase = "off"
  BY ActorKinds DEF Init, OneJob, Phases, AllIdle
<1>3. \A a \in Actors : JobOk(job[a])
  BY DEF Init, JobOk, NoJob
<1> QED
  BY <1>1, <1>2, <1>3 DEF AccountInv

(* The job of a step, and nobody else's. *)
LEMMA AloneAtWork ==
    ASSUME TypeOK, AccountInv, NEW a \in Actors, job[a].at # "idle"
    PROVE  /\ job[a] # NoJob /\ ~AllIdle
           /\ \A b \in Actors : b # a => job[b] = NoJob
           /\ a # "startup" => phase = "serving"
           /\ a = "startup" => phase = "starting"
           /\ JobOk(job[a])
<1>1. phase = "off" => AllIdle
  BY DEF AccountInv, Phases
<1>2. job[a] # NoJob /\ ~AllIdle
  BY DEF NoJob, AllIdle
<1>3. \A b \in Actors : b # a => job[b] = NoJob
  BY <1>2 DEF AccountInv, OneJob
<1> QED
  BY <1>1, <1>2, <1>3, ActorKinds DEF AccountInv, Phases, TypeOK

(* A handler goes on. *)
LEMMA StaysAtWork ==
    ASSUME TypeOK, TypeOK', AccountInv, NEW a \in Actors, job[a].at # "idle",
           \A b \in Actors : b # a => job'[b] = job[b],
           job'[a] # NoJob, phase' = phase,
           VaultsPure', JobOk(job[a])'
    PROVE  AccountInv'
<1>1. /\ job[a] # NoJob /\ job'[a] # NoJob
      /\ \A b \in Actors : b # a => job[b] = NoJob /\ job'[b] = NoJob
  BY AloneAtWork DEF TypeOK, NoJob
<1>2. OneJob' /\ ~AllIdle'
  BY <1>1 DEF OneJob, AllIdle
<1>3. Phases'
  <2>1. phase # "off" /\ (phase = "starting" <=> job["startup"] # NoJob)
    BY AloneAtWork DEF Phases, AccountInv
  <2>2. job["startup"] # NoJob <=> job'["startup"] # NoJob
    BY <1>1, ActorKinds
  <2> QED
    BY <2>1, <2>2 DEF Phases
<1>4. ASSUME NEW b \in Actors PROVE JobOk(job[b])'
  <2>1. CASE b = a
    BY <2>1
  <2>2. CASE b # a
    <3>1. job'[b].at = "idle"
      BY <1>1, <2>2 DEF NoJob
    <3> QED
      BY <3>1 DEF JobOk
  <2> QED
    BY <2>1, <2>2
<1>5. \A b \in Actors : JobOk(job[b])'
  BY <1>4
<1>6. (phase = "serving" /\ AllIdle => Settled)'
  BY <1>2
<1> QED
  BY <1>2, <1>3, <1>5, <1>6 DEF AccountInv

(* A handler ends. *)
LEMMA Ends ==
    ASSUME TypeOK, TypeOK', AccountInv, NEW a \in Actors, job[a].at # "idle",
           Finish(a), phase' = IF a = "startup" THEN "serving" ELSE phase,
           VaultsPure', Settled'
    PROVE  AccountInv'
<1>1. \A b \in Actors : job'[b] = NoJob
  BY AloneAtWork DEF Finish, TypeOK
<1>2. phase' = "serving"
  BY AloneAtWork
<1>3. OneJob' /\ Phases'
  BY <1>1, <1>2, ActorKinds DEF OneJob, Phases
<1>4. ASSUME NEW b \in Actors PROVE JobOk(job[b])'
  <2>1. job'[b].at = "idle"
    BY <1>1 DEF NoJob
  <2> QED
    BY <2>1 DEF JobOk
<1> QED
  BY <1>2, <1>3, <1>4 DEF AccountInv

(* A handler begins, and what it has loaded is what the files hold. *)
LEMMA Begins ==
    ASSUME TypeOK, AccountInv, AllIdle, NEW a \in Actors, NEW step, NEW p, Begin(a, step, p),
           \/ phase' = "starting" /\ a = "startup"
           \/ phase' = "serving" /\ a # "startup",
           UNCHANGED <<files, procs, mem>>,
           \/ step = "check" /\ p = state.selected /\ ServerIsLive /\ ActiveIsLive
           \/ step \in {"copy_back", "save_state", "save_settings"} /\ Settled
    PROVE  AccountInv'
<1> DEFINE j == [at |-> step, profile |-> p, state |-> state, broker |-> broker, pid |-> NoPid]
<1>1. job'[a] = j /\ \A b \in Actors : b # a => job'[b] = NoJob
  BY DEF Begin, TypeOK, AllIdle
<1>2. j # NoJob /\ j.at # "idle"
  BY DEF NoJob
<1>3. OneJob' /\ ~AllIdle'
  BY <1>1, <1>2 DEF OneJob, AllIdle
<1>4. Phases'
  BY <1>1, <1>2, ActorKinds DEF Phases
<1>5. JobOk(job[a])'
  <2>1. /\ job'[a].at = step /\ job'[a].profile = p
        /\ job'[a].state = state /\ job'[a].broker = broker
    BY <1>1
  <2> QED
    BY <2>1 DEF JobOk, files, Settled, LiveIsSelected, ServerIsLive, ActiveIsLive, Usable
<1>6. ASSUME NEW b \in Actors, b # a PROVE JobOk(job[b])'
  <2>1. job'[b].at = "idle"
    BY <1>1, <1>6 DEF NoJob
  <2> QED
    BY <2>1 DEF JobOk
<1>7. \A b \in Actors : JobOk(job[b])'
  BY <1>5, <1>6
<1>8. VaultsPure'
  BY DEF AccountInv, VaultsPure, files
<1> QED
  BY <1>3, <1>4, <1>7, <1>8 DEF AccountInv

(* EnsureActiveProfile: the copy is of the profile's own vault, and a process
   that is reused, or answers, runs with the live auth.json. *)
LEMMA EnsureKeepsAccount ==
    ASSUME Serial, TypeOK, TypeOK', AccountInv, NEW a \in Actors, Ensure(a)
    PROVE  AccountInv'
<1> DEFINE j == job[a]
<1>1. \A q \in Profiles : vault[q].owner = q
  BY DEF AccountInv, VaultsPure
<1>2. ASSUME job[a].at # "idle" PROVE job[a] \in Jobs /\ JobOk(job[a])
  BY <1>2, AtStepIsJob, AloneAtWork
<1>3. ASSUME vault' = vault PROVE VaultsPure'
  BY <1>1, <1>3 DEF VaultsPure
<1>4. ASSUME NEW step, step # "idle", j.at # "idle", Goto(a, step)
      PROVE  /\ job'[a] = [job[a] EXCEPT !.at = step] /\ job'[a] # NoJob
             /\ job'[a].at = step /\ job'[a].profile = j.profile
             /\ \A b \in Actors : b # a => job'[b] = job[b]
  <2>1. job[a] \in Jobs
    BY <1>2, <1>4
  <2>2. job'[a] = [job[a] EXCEPT !.at = step] /\ \A b \in Actors : b # a => job'[b] = job[b]
    BY <1>4 DEF Goto, TypeOK
  <2>3. job'[a].at = step /\ job'[a].profile = j.profile
    BY <2>1, <2>2 DEF Jobs
  <2> QED
    BY <1>4, <2>2, <2>3 DEF NoJob
<1>5. CASE Check(a)
  <2> DEFINE reuse == CanReuse(j.profile)
  <2>1. /\ j.at = "check" /\ UNCHANGED <<phase, state, broker, vault, runtimeAuth, procs, mem>>
        /\ Goto(a, IF reuse THEN "mark" ELSE "copy_in")
    BY <1>5 DEF Check, files
  <2>2. j.profile = state.selected /\ ServerIsLive /\ ActiveIsLive
    BY <1>2, <2>1 DEF JobOk
  <2>3. reuse => LiveIsSelected
    BY <2>2 DEF CanReuse, ActiveIsLive, Usable, LiveIsSelected
  <2> HIDE DEF reuse
  <2>4. /\ job'[a] # NoJob /\ job'[a].profile = j.profile
        /\ job'[a].at = IF reuse THEN "mark" ELSE "copy_in"
        /\ \A b \in Actors : b # a => job'[b] = job[b]
    BY <1>4, <2>1
  <2>5. JobOk(job[a])'
    BY <2>1, <2>2, <2>3, <2>4 DEF JobOk, LiveIsSelected, ServerIsLive
  <2> QED
    BY <1>3, <2>1, <2>4, <2>5, StaysAtWork
<1>6. CASE CopyIn(a)
  <2>1. /\ j.at = "copy_in" /\ UNCHANGED <<phase, state, vault>>
        /\ runtimeAuth' = vault[j.profile] /\ Goto(a, "shutdown")
    BY <1>6 DEF CopyIn, Serial
  <2>2. j.profile = state.selected /\ state.selected \in Profiles
    BY <1>2, <2>1 DEF JobOk, TypeOK, States
  <2>3. LiveIsSelected'
    BY <1>1, <2>1, <2>2 DEF LiveIsSelected
  <2>4. /\ job'[a] # NoJob /\ job'[a].profile = j.profile /\ job'[a].at = "shutdown"
        /\ \A b \in Actors : b # a => job'[b] = job[b]
    BY <1>4, <2>1
  <2>5. JobOk(job[a])'
    BY <2>1, <2>2, <2>3, <2>4 DEF JobOk
  <2> QED
    BY <1>3, <2>1, <2>4, <2>5, StaysAtWork
<1>7. CASE ShutdownOld(a)
  <2>1. /\ j.at = "shutdown" /\ UNCHANGED <<phase, state, vault, runtimeAuth>>
        /\ mem' = NoMemory /\ Goto(a, "start")
    BY <1>7 DEF ShutdownOld, Shutdown
  <2>2. j.profile = state.selected /\ LiveIsSelected
    BY <1>2, <2>1 DEF JobOk
  <2>3. /\ job'[a] # NoJob /\ job'[a].profile = j.profile /\ job'[a].at = "start"
        /\ \A b \in Actors : b # a => job'[b] = job[b]
    BY <1>4, <2>1
  <2>4. JobOk(job[a])'
    BY <2>1, <2>2, <2>3 DEF JobOk, LiveIsSelected
  <2> QED
    BY <1>3, <2>1, <2>3, <2>4, StaysAtWork
<1>8. CASE StartAppServer(a)
  <2>1. j.at = "start" /\ UNCHANGED <<state, broker, vault, runtimeAuth>>
    BY <1>8 DEF StartAppServer, files
  <2>2. j.profile = state.selected /\ LiveIsSelected /\ mem = NoMemory
    BY <1>2, <2>1 DEF JobOk
  <2>3. LiveIsSelected'
    BY <2>1, <2>2 DEF LiveIsSelected
  <2>4. CASE Fail(a) /\ UNCHANGED <<procs, mem>>
    <3>1. Settled'
      BY <2>2, <2>3, <2>4 DEF Settled, ServerIsLive, Usable, NoMemory
    <3> QED
      BY <1>3, <2>1, <2>4, <3>1, Ends DEF Fail
  <2>5. ASSUME NEW i \in Pids, procs' = [procs EXCEPT ![i] = runtimeAuth],
               mem' = [mem EXCEPT !.cmd = i, !.url = TRUE],
               job' = [job EXCEPT ![a].at = "ready", ![a].pid = i], UNCHANGED phase
        PROVE  AccountInv'
    <3>1. /\ job'[a].at = "ready" /\ job'[a].profile = j.profile
          /\ \A b \in Actors : b # a => job'[b] = job[b]
      <4>1. job[a] \in Jobs
        BY <1>2, <2>1
      <4>2. /\ job'[a] = [job[a] EXCEPT !.at = "ready", !.pid = i]
            /\ \A b \in Actors : b # a => job'[b] = job[b]
        BY <2>5 DEF TypeOK
      <4> QED
        BY <4>1, <4>2 DEF Jobs
    <3>2. mem'.cmd = i /\ procs'[i] = runtimeAuth
      BY <2>5 DEF TypeOK, Memories
    <3>3. ServerIsLive'
      BY <2>1, <3>2 DEF ServerIsLive
    <3>4. JobOk(job[a])' /\ job'[a] # NoJob
      BY <2>1, <2>2, <2>3, <3>1, <3>3 DEF JobOk, NoJob
    <3> QED
      BY <1>3, <2>1, <2>5, <3>1, <3>4, StaysAtWork
  <2> QED
    BY <1>8, <2>4, <2>5 DEF StartAppServer
<1>9. CASE AwaitReady(a)
  <2>1. j.at = "ready" /\ UNCHANGED <<state, vault, runtimeAuth>>
    BY <1>9 DEF AwaitReady
  <2>2. j.profile = state.selected /\ LiveIsSelected /\ ServerIsLive
    BY <1>2, <2>1 DEF JobOk
  <2>3. LiveIsSelected'
    BY <2>1, <2>2 DEF LiveIsSelected
  <2>4. CASE /\ mem' = [mem EXCEPT !.control = TRUE]
             /\ Goto(a, "mark") /\ UNCHANGED <<phase, procs>>
    <3>1. mem'.cmd = mem.cmd
      BY <2>4 DEF TypeOK, Memories
    <3>2. ServerIsLive'
      BY <2>1, <2>2, <2>4, <3>1 DEF ServerIsLive
    <3>3. /\ job'[a] # NoJob /\ job'[a].profile = j.profile /\ job'[a].at = "mark"
          /\ \A b \in Actors : b # a => job'[b] = job[b]
      BY <1>4, <2>1, <2>4
    <3>4. JobOk(job[a])'
      BY <2>1, <2>2, <2>3, <3>2, <3>3 DEF JobOk
    <3> QED
      BY <1>3, <2>1, <2>4, <3>3, <3>4, StaysAtWork
  <2>5. CASE Shutdown /\ Fail(a)
    <3>1. Settled'
      BY <2>3, <2>5 DEF Settled, ServerIsLive, Usable, NoMemory, Shutdown
    <3> QED
      BY <1>3, <2>1, <2>5, <3>1, Ends DEF Fail
  <2> QED
    BY <1>9, <2>4, <2>5 DEF AwaitReady
<1>10. CASE Mark(a)
  <2>1. /\ j.at = "mark" /\ UNCHANGED <<state, vault, runtimeAuth, procs, mem>>
        /\ broker' = [active |-> j.profile, epoch |-> state.epoch, healthy |-> TRUE]
        /\ IF a \in Launchers THEN Goto(a, "record") ELSE Finish(a)
        /\ phase' = IF a = "startup" THEN "serving" ELSE phase
    BY <1>10 DEF Mark, MarkWith
  <2>2. j.profile = state.selected /\ LiveIsSelected /\ ServerIsLive
    BY <1>2, <2>1 DEF JobOk
  <2>3. Settled'
    BY <2>1, <2>2 DEF Settled, LiveIsSelected, ServerIsLive
  <2>4. CASE a \in Launchers
    <3>1. /\ job'[a] # NoJob /\ job'[a].profile = j.profile /\ job'[a].at = "record"
          /\ \A b \in Actors : b # a => job'[b] = job[b]
      BY <1>4, <2>1, <2>4
    <3>2. JobOk(job[a])'
      BY <2>1, <2>2, <2>3, <3>1 DEF JobOk
    <3>3. phase' = phase
      BY <2>1, <2>4, LaunchersAssumption
    <3> QED
      BY <1>3, <2>1, <3>1, <3>2, <3>3, StaysAtWork
  <2>5. CASE a \notin Launchers
    BY <1>3, <2>1, <2>3, <2>5, Ends
  <2> QED
    BY <2>4, <2>5
<1> QED
  BY <1>5, <1>6, <1>7, <1>8, <1>9, <1>10 DEF Ensure

(* CommitProfileSwitch before it: what is copied back is the previous
   profile's own, and the broker record is the one that is there already. *)
LEMMA CommitKeepsAccount ==
    ASSUME TypeOK, TypeOK', AccountInv, CopyBack \/ SaveState \/ SaveBroker
    PROVE  AccountInv'
<1> DEFINE j == job["switch"]
<1>1. j \in Jobs /\ JobOk(j) /\ j.at # "idle"
  BY ActorKinds, AtStepIsJob, AloneAtWork DEF CopyBack, SaveState, SaveBroker
<1>2. ASSUME NEW step, step # "idle", Goto("switch", step)
      PROVE  /\ job'["switch"] # NoJob /\ job'["switch"].at = step
             /\ job'["switch"].profile = j.profile /\ job'["switch"].state = j.state
             /\ job'["switch"].broker = j.broker
             /\ \A b \in Actors : b # "switch" => job'[b] = job[b]
  <2>1. /\ job'["switch"] = [job["switch"] EXCEPT !.at = step]
        /\ \A b \in Actors : b # "switch" => job'[b] = job[b]
    BY <1>2, ActorKinds DEF Goto, TypeOK
  <2> QED
    BY <1>1, <1>2, <2>1 DEF Jobs, NoJob
<1>3. ASSUME vault' = vault PROVE VaultsPure'
  BY <1>3 DEF AccountInv, VaultsPure
<1>4. CASE CopyBack
  <2>1. /\ j.at = "copy_back" /\ UNCHANGED <<phase, state, broker, runtimeAuth, procs, mem>>
        /\ \/ vault' = [vault EXCEPT ![j.state.selected] = runtimeAuth]
              /\ Goto("switch", "save_state")
           \/ Finish("switch") /\ UNCHANGED vault
    BY <1>4 DEF CopyBack
  <2>2. Settled /\ j.state = state /\ j.broker = broker
    BY <1>1, <2>1 DEF JobOk
  <2>3. Settled'
    BY <2>1, <2>2 DEF Settled, LiveIsSelected, ServerIsLive, Usable
  <2>4. CASE Finish("switch") /\ UNCHANGED vault
    BY <1>1, <1>3, <2>1, <2>3, <2>4, ActorKinds, Ends
  <2>5. CASE /\ vault' = [vault EXCEPT ![j.state.selected] = runtimeAuth]
             /\ Goto("switch", "save_state")
    <3>1. VaultsPure'
      BY <2>2, <2>5 DEF Settled, LiveIsSelected, AccountInv, VaultsPure, TypeOK
    <3>2. JobOk(job["switch"])'
      BY <1>2, <2>1, <2>2, <2>3, <2>5 DEF JobOk
    <3> QED
      BY <1>1, <1>2, <2>1, <2>5, <3>1, <3>2, ActorKinds, StaysAtWork
  <2> QED
    BY <2>1, <2>4, <2>5
<1>5. CASE SaveState
  <2>1. /\ j.at = "save_state" /\ UNCHANGED <<phase, broker, vault, runtimeAuth, procs, mem>>
        /\ state'.selected = j.profile /\ Goto("switch", "save_broker")
    BY <1>5 DEF SaveState
  <2>2. Settled /\ j.broker = broker
    BY <1>1, <2>1 DEF JobOk
  <2>3. ServerIsLive' /\ ActiveIsLive'
    BY <2>1, <2>2 DEF Settled, LiveIsSelected, ServerIsLive, ActiveIsLive, Usable
  <2>4. JobOk(job["switch"])'
    BY <1>2, <2>1, <2>2, <2>3 DEF JobOk
  <2> QED
    BY <1>1, <1>2, <1>3, <2>1, <2>4, ActorKinds, StaysAtWork
<1>6. CASE SaveBroker
  <2>1. /\ j.at = "save_broker" /\ UNCHANGED <<phase, state, vault, runtimeAuth, procs, mem>>
        /\ broker' = j.broker /\ Goto("switch", "check")
    BY <1>6 DEF SaveBroker
  <2>2. j.broker = broker /\ j.profile = state.selected /\ ServerIsLive /\ ActiveIsLive
    BY <1>1, <2>1 DEF JobOk
  <2>3. ServerIsLive' /\ ActiveIsLive'
    BY <2>1, <2>2 DEF ServerIsLive, ActiveIsLive, Usable
  <2>4. JobOk(job["switch"])'
    BY <1>2, <2>1, <2>2, <2>3 DEF JobOk
  <2> QED
    BY <1>1, <1>2, <1>3, <2>1, <2>4, ActorKinds, StaysAtWork
<1> QED
  BY <1>4, <1>5, <1>6

(* Handlers begin only when none is at work, and launches and settings
   updates end. *)
LEMMA OthersKeepAccount ==
    ASSUME Serial, TypeOK, TypeOK', AccountInv,
           \/ BeginStartup \/ (\E p \in Profiles : BeginSwitch(p)) \/ BeginSettings
           \/ (\E w \in Launchers : BeginLaunch(w) \/ RecordLaunch(w)) \/ SaveSettings
    PROVE  AccountInv'
<1>1. ASSUME NEW a \in Actors, MayServe(a)
      PROVE  AllIdle /\ phase = "serving" /\ Settled /\ ServerIsLive /\ ActiveIsLive
  <2>1. AllIdle /\ phase = "serving"
    BY <1>1 DEF MayServe, Serial, AllIdle
  <2> QED
    BY <2>1 DEF AccountInv, Settled, ActiveIsLive, LiveIsSelected
<1>2. CASE BeginStartup
  <2>1. /\ phase = "off" /\ phase' = "starting" /\ Begin("startup", "check", state.selected)
        /\ UNCHANGED <<files, procs, mem>>
    BY <1>2 DEF BeginStartup
  <2>2. AllIdle /\ ServerIsLive /\ ActiveIsLive
    BY <2>1 DEF AccountInv, Phases, ServerIsLive, ActiveIsLive, Usable, NoMemory
  <2> QED
    BY <2>1, <2>2, ActorKinds, Begins
<1>3. ASSUME NEW p \in Profiles, BeginSwitch(p) PROVE AccountInv'
  <2>1. /\ MayServe("switch") /\ UNCHANGED <<phase, files, procs, mem>>
        /\ \/ Begin("switch", "save_state", p)
           \/ Begin("switch", "copy_back", p)
    BY <1>3 DEF BeginSwitch
  <2> QED
    BY <1>1, <2>1, ActorKinds, Begins
<1>4. CASE BeginSettings
  <2>1. /\ MayServe("settings") /\ Begin("settings", "save_settings", state.selected)
        /\ UNCHANGED <<phase, files, procs, mem>>
    BY <1>4 DEF BeginSettings
  <2> QED
    BY <1>1, <2>1, ActorKinds, Begins
<1>5. ASSUME NEW w \in Launchers, BeginLaunch(w) PROVE AccountInv'
  <2>1. /\ MayServe(w) /\ Begin(w, "check", state.selected)
        /\ UNCHANGED <<phase, files, procs, mem>>
    BY <1>5 DEF BeginLaunch
  <2>2. w \in Actors /\ w # "startup"
    BY LaunchersAssumption DEF Actors
  <2> QED
    BY <1>1, <2>1, <2>2, Begins
<1>6. ASSUME NEW w \in Launchers, RecordLaunch(w) PROVE AccountInv'
  <2>1. w \in Actors /\ w # "startup"
    BY LaunchersAssumption DEF Actors
  <2>2. job[w].at = "record" /\ Finish(w) /\ UNCHANGED <<phase, files, procs, mem>>
    BY <1>6 DEF RecordLaunch
  <2>3. Settled
    BY <2>1, <2>2, AloneAtWork DEF JobOk
  <2>4. Settled' /\ VaultsPure'
    BY <2>2, <2>3 DEF Settled, LiveIsSelected, ServerIsLive, Usable, files, AccountInv, VaultsPure
  <2> QED
    BY <2>1, <2>2, <2>4, Ends
<1>7. CASE SaveSettings
  <2>1. /\ job["settings"].at = "save_settings" /\ state' = job["settings"].state
        /\ Finish("settings") /\ UNCHANGED <<phase, broker, vault, runtimeAuth, procs, mem>>
    BY <1>7 DEF SaveSettings
  <2>2. Settled /\ job["settings"].state = state
    BY <2>1, ActorKinds, AloneAtWork DEF JobOk
  <2>3. Settled' /\ VaultsPure'
    BY <2>1, <2>2 DEF Settled, LiveIsSelected, ServerIsLive, Usable, AccountInv, VaultsPure
  <2> QED
    BY <2>1, <2>3, ActorKinds, Ends
<1> QED
  BY <1>2, <1>3, <1>4, <1>5, <1>6, <1>7

(* The world leaves the account alone. *)
LEMMA SameJobs ==
    ASSUME AccountInv, UNCHANGED <<phase, state, job>>,
           VaultsPure', UNCHANGED broker, LiveIsSelected => LiveIsSelected',
           ServerIsLive => ServerIsLive', Usable' => Usable,
           ActiveIsLive => ActiveIsLive', mem = NoMemory => mem' = NoMemory
    PROVE  AccountInv'
<1>1. Settled => Settled'
  BY DEF Settled
<1>2. ASSUME NEW a \in Actors PROVE JobOk(job[a])'
  <2>1. JobOk(job[a])
    BY DEF AccountInv
  <2> QED
    BY <1>1, <2>1 DEF JobOk
<1>3. OneJob' /\ (AllIdle' <=> AllIdle)
  BY DEF AccountInv, OneJob, AllIdle
<1>4. Phases'
  BY <1>3 DEF AccountInv, Phases
<1> QED
  BY <1>1, <1>2, <1>3, <1>4 DEF AccountInv

LEMMA WorldKeepsAccount ==
    ASSUME Serial, TypeOK, AccountInv,
           \/ (\E i \in Pids : AppServerExits(i) \/ TokenRefresh(i)) \/ Stop \/ Crash
           \/ (\E p \in Profiles : UsageRefresh(p))
    PROVE  AccountInv'
<1>1. ASSUME NEW i \in Pids, AppServerExits(i) PROVE AccountInv'
  <2>1. /\ UNCHANGED <<phase, state, broker, vault, runtimeAuth, job>>
        /\ procs' = [procs EXCEPT ![i] = NoCredential]
        /\ mem' = IF mem.cmd = i THEN [mem EXCEPT !.cmd = NoPid] ELSE mem
    BY <1>1 DEF AppServerExits, files
  <2>2. /\ mem'.cmd # NoPid => mem'.cmd = mem.cmd /\ mem.cmd # i
        /\ mem'.control = mem.control /\ mem'.url = mem.url
        /\ mem = NoMemory => mem' = NoMemory
    <3>1. mem = NoMemory => mem.cmd = NoPid /\ mem.cmd # i
      BY PidsAssumption DEF NoMemory
    <3>2. CASE mem.cmd = i
      BY <2>1, <3>1, <3>2 DEF TypeOK, Memories
    <3>3. CASE mem.cmd # i
      BY <2>1, <3>3
    <3> QED
      BY <3>2, <3>3
  <2>3. ServerIsLive => ServerIsLive'
    BY <2>1, <2>2 DEF ServerIsLive, TypeOK, Memories
  <2>4. Usable' => Usable
    BY <2>2 DEF Usable
  <2> QED
    BY <2>1, <2>2, <2>3, <2>4, SameJobs DEF AccountInv, VaultsPure, LiveIsSelected, ActiveIsLive
<1>2. ASSUME NEW i \in Pids, TokenRefresh(i) PROVE AccountInv'
  <2>1. /\ AllIdle /\ mem.cmd = i /\ UNCHANGED <<phase, state, broker, vault, mem, job>>
        /\ procs' = [procs EXCEPT ![i].version = procs[i].version + 1]
        /\ runtimeAuth' = procs'[i] /\ i \in Alive
    BY <1>2 DEF TokenRefresh, Serial
  <2>2. procs[i] \in Credentials
    BY <2>1 DEF Alive, TypeOK
  <2>3. procs'[i].owner = procs[i].owner
    BY <2>1, <2>2 DEF TypeOK, Credentials
  <2>4. phase = "serving" /\ Settled
    BY <2>1, PidsAssumption, ActorKinds
       DEF AccountInv, Phases, NoMemory, TypeOK, AllIdle
  <2>5. procs[i].owner = state.selected /\ runtimeAuth.owner = state.selected
    BY <2>1, <2>4, PidsAssumption DEF Settled, ServerIsLive, LiveIsSelected
  <2> QED
    BY <2>1, <2>3, <2>5, SameJobs
       DEF AccountInv, VaultsPure, LiveIsSelected, ServerIsLive, ActiveIsLive, Usable
<1>3. CASE Stop
  <2>1. /\ AllIdle /\ phase' = "off" /\ mem' = NoMemory /\ UNCHANGED <<state, vault, runtimeAuth, job>>
    BY <1>3 DEF Stop, Shutdown
  <2>2. OneJob' /\ AllIdle' /\ VaultsPure'
    BY <2>1 DEF OneJob, AllIdle, AccountInv, VaultsPure
  <2>3. Phases' /\ \A a \in Actors : JobOk(job[a])'
    BY <2>1, <2>2, ActorKinds DEF Phases, AllIdle, JobOk, NoJob
  <2> QED
    BY <2>1, <2>2, <2>3 DEF AccountInv
<1>4. CASE Crash
  <2>1. phase' = "off" /\ mem' = NoMemory /\ job' = [a \in Actors |-> NoJob] /\ vault' = vault
    BY <1>4 DEF Crash, files
  <2>2. OneJob' /\ AllIdle' /\ VaultsPure'
    BY <2>1 DEF OneJob, AllIdle, AccountInv, VaultsPure
  <2>3. Phases' /\ \A a \in Actors : JobOk(job[a])'
    BY <2>1, <2>2, ActorKinds DEF Phases, AllIdle, JobOk, NoJob
  <2> QED
    BY <2>1, <2>2, <2>3 DEF AccountInv
<1>5. ASSUME NEW p \in Profiles, UsageRefresh(p) PROVE AccountInv'
  <2>1. /\ vault' = [vault EXCEPT ![p].version = vault[p].version + 1]
        /\ UNCHANGED <<phase, state, broker, runtimeAuth, procs, mem, job>>
    BY <1>5 DEF UsageRefresh
  <2>2. VaultsPure'
    BY <2>1 DEF AccountInv, VaultsPure, TypeOK, Credentials
  <2> QED
    BY <2>1, <2>2, SameJobs DEF LiveIsSelected, ServerIsLive, ActiveIsLive, Usable
<1> QED
  BY <1>1, <1>2, <1>3, <1>4, <1>5

LEMMA NextAccount ==
    ASSUME Serial, TypeOK, TypeOK', AccountInv, [Next]_vars
    PROVE  AccountInv'
<1>1. CASE Next
  BY <1>1, EnsureKeepsAccount, CommitKeepsAccount, OthersKeepAccount, WorldKeepsAccount DEF Next
<1>2. CASE UNCHANGED vars
  BY <1>2 DEF vars, files, AccountInv, VaultsPure, OneJob, Phases, AllIdle, JobOk, Settled,
              LiveIsSelected, ServerIsLive, ActiveIsLive, Usable
<1> QED
  BY <1>1, <1>2

(* The invariant holds throughout, failed starts, exits of the app-server,
   crashes and restarts at any step included. *)
LEMMA AccountCorrect ==
    ASSUME Serial
    PROVE  Spec => []AccountInv
<1>1. TypeOK /\ TypeOK' /\ AccountInv /\ [Next]_vars => AccountInv'
  BY NextAccount
<1> QED
  BY <1>1, TypeCorrect, InitAccount, PTL DEF Spec

(* No profile's vault ever holds another's tokens: what a switch copies back is
   the live auth.json of the profile it leaves, even if the broker died after
   selecting that profile and before copying it in. *)
THEOREM VaultsStayPure ==
    ASSUME Serial
    PROVE  Spec => []VaultsPure
<1>1. AccountInv => VaultsPure
  BY DEF AccountInv
<1> QED
  BY <1>1, AccountCorrect, PTL

(* A process that a launch reuses was started with the selected profile's
   tokens, and the live auth.json is that profile's as well. *)
THEOREM ReusedServersAreSelected ==
    ASSUME Serial
    PROVE  Spec => []ReusedServerIsSelected
<1>1. TypeOK /\ AccountInv => ReusedServerIsSelected
  <2> SUFFICES ASSUME TypeOK, AccountInv, AllIdle, CanReuse(state.selected)
               PROVE  /\ procs[mem.cmd].owner = state.selected
                      /\ runtimeAuth.owner = state.selected
    BY DEF ReusedServerIsSelected
  <2>1. phase = "serving"
    BY ActorKinds DEF CanReuse, AccountInv, Phases, AllIdle, NoMemory, TypeOK
  <2> QED
    BY <2>1 DEF CanReuse, AccountInv, Settled, LiveIsSelected, ServerIsLive
<1> QED
  BY <1>1, TypeCorrect, AccountCorrect, PTL
================================================================================
