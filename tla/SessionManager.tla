----------------------------- MODULE SessionManager -----------------------------
(***************************************************************************)
(* internal/broker/sessions/manager.go: the broker's in-memory entry for   *)
(* one live window (RuntimeSession) and what each callback does to it.     *)
(* NoEntry is a session without an entry in the runtime map; its fields    *)
(* are the zero values ensureRuntime starts an entry with.                 *)
(* LastThreadStatus is written and never read, and is left out.            *)
(***************************************************************************)
EXTENDS Integers

Entries ==
    [present : BOOLEAN, host : BOOLEAN, gateway : BOOLEAN, turns : Nat]

NoEntry == [present |-> FALSE, host |-> FALSE, gateway |-> FALSE, turns |-> 0]

(* States of the session's record in sessions.json; "absent": no record. *)
RecordStates == {"absent", "home", "launching_codex", "in_codex", "reloading"}

EnsureRuntime(e) == [e EXCEPT !.present = TRUE]

(* RegisterHost, the in-memory half. *)
HostRegistered(e) == [EnsureRuntime(e) EXCEPT !.host = TRUE]

(* HandleHostDisconnect for the connection the entry names. *)
HostDisconnected(e) ==
    IF e.present /\ e.gateway THEN [e EXCEPT !.host = FALSE] ELSE NoEntry

(* SetGatewayConnected(false) that forgets to drop an entry nobody uses. *)
GatewaySetKeepingEntry(e, connected) ==
    IF connected THEN [EnsureRuntime(e) EXCEPT !.gateway = TRUE]
    ELSE [EnsureRuntime(e) EXCEPT !.gateway = FALSE, !.turns = 0]

(* SetGatewayConnected(false) that keeps the count. *)
GatewaySetKeepingTurns(e, connected) ==
    IF connected THEN [EnsureRuntime(e) EXCEPT !.gateway = TRUE]
    ELSE IF e.host THEN [e EXCEPT !.gateway = FALSE]
    ELSE NoEntry

(* SetGatewayConnected. *)
GatewaySet(e, connected) ==
    IF connected THEN [EnsureRuntime(e) EXCEPT !.gateway = TRUE]
    ELSE IF e.host THEN [e EXCEPT !.gateway = FALSE, !.turns = 0]
    ELSE NoEntry

(* NoteTurnStarted. *)
TurnNoted(e) == [EnsureRuntime(e) EXCEPT !.turns = @ + 1]

(* NoteTurnCompleted without its floor. *)
TurnDoneNoFloor(e) == [EnsureRuntime(e) EXCEPT !.turns = @ - 1]

(* NoteTurnCompleted: a completion nobody saw start counts for nothing. *)
TurnDone(e) ==
    [EnsureRuntime(e) EXCEPT !.turns = IF @ > 0 THEN @ - 1 ELSE @]

(* NoteThreadStatus that takes any other status for the end of every turn. *)
StatusNotedResetting(e, status) ==
    [EnsureRuntime(e) EXCEPT
        !.turns = IF status # "active" THEN 0 ELSE IF @ = 0 THEN 1 ELSE @]

(* NoteThreadStatus: "active" repairs a missed start; no other status
   changes the count. *)
StatusNoted(e, status) ==
    [EnsureRuntime(e) EXCEPT
        !.turns = IF status = "active" /\ @ = 0 THEN 1 ELSE @]

(* Readiness: the sessions that count as live, and those that block. *)
IsLive(recordState, e) == e.present /\ e.host /\ recordState = "in_codex"

IsBusy(recordState, e) == IsLive(recordState, e) /\ e.gateway /\ e.turns > 0
================================================================================
