----------------------------- MODULE SessionRecords -----------------------------
(***************************************************************************)
(* The records of sessions.json and what each operation of the session     *)
(* manager (internal/broker/sessions/manager.go) makes of one: timestamps, *)
(* process ids and working directories are left out.                       *)
(***************************************************************************)
CONSTANTS Sessions, Threads, NoThread, NoRecord, NoUpdate

States == {"home", "launching_codex", "in_codex"}
Records == [state : States, thread : Threads \cup {NoThread}]
Mirrors == [Sessions -> Records \cup {NoRecord}]
NoSessions == [s \in Sessions |-> NoRecord]

(* The host's IPC connection and the gateway's dispatcher of each window,
   and the startup of the broker. *)
Hosts == Sessions \X {"host"}
Gateways == Sessions \X {"gateway"}
Actors == Hosts \cup Gateways
Startup == <<"broker", "startup">>
Writers == Actors \cup {Startup}

HostUpdates(s) ==
    [op : {"register", "unregister", "return_home", "prepare_launch"}, session : {s}]
      \cup [op : {"update_state"}, session : {s}, state : States]
GatewayUpdates(s) == [op : {"record_thread"}, session : {s}, thread : Threads]
Updates == UNION {HostUpdates(s) \cup GatewayUpdates(s) : s \in Sessions}

(* The record each of the manager's operations makes of the loaded one. *)
RegisterHost(r) == IF r = NoRecord THEN [state |-> "home", thread |-> NoThread] ELSE r
UpdateState(r, state) == IF r = NoRecord THEN r ELSE [r EXCEPT !.state = state]
ReturnHome(r) == UpdateState(r, "home")
PrepareLaunch(r) == UpdateState(r, "launching_codex")
RecordThread(r, thread) == IF r = NoRecord THEN r ELSE [r EXCEPT !.thread = thread]

(* A window that quits is put back to Home instead of being removed. *)
UnregisterHome(r) == UpdateState(r, "home")
Unregister(r) == NoRecord

Applied(u, r) ==
    CASE u.op = "register" -> RegisterHost(r)
      [] u.op = "unregister" -> Unregister(r)
      [] u.op = "update_state" -> UpdateState(r, u.state)
      [] u.op = "return_home" -> ReturnHome(r)
      [] u.op = "prepare_launch" -> PrepareLaunch(r)
      [] u.op = "record_thread" -> RecordThread(r, u.thread)

(* What a caller may ask for is none of these marks. *)
ASSUME MarksAssumption ==
    /\ NoThread \notin Threads
    /\ NoRecord \notin Records
    /\ NoUpdate \notin Updates
================================================================================
