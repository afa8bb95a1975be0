------------------------------ MODULE RemoteCalls ------------------------------
(***************************************************************************)
(* What internal/ipc promises its callers.  A call that returns without an *)
(* error was executed by the broker, once, and returns what its handler    *)
(* said.  A call may also fail (no answer in time, connection gone), and   *)
(* then it may have been executed, not have been, or still be: nobody      *)
(* retries it, so it is executed at most once all the same.                *)
(***************************************************************************)
CONSTANTS
    Calls,
    Refused     \* calls whose handler returns an error

Outcome(c) == IF c \in Refused THEN "error" ELSE "ok"

VARIABLES
    state,      \* call -> "new", "open" or "over"
    executed,   \* calls whose handler has returned
    returned    \* call -> what its caller was told, or "none"

vars == <<state, executed, returned>>

Init ==
    /\ state = [c \in Calls |-> "new"]
    /\ executed = {}
    /\ returned = [c \in Calls |-> "none"]

Open(c) ==
    /\ state[c] = "new"
    /\ state' = [state EXCEPT ![c] = "open"]
    /\ UNCHANGED <<executed, returned>>

Execute(c) ==
    /\ state[c] # "new" /\ c \notin executed
    /\ executed' = executed \cup {c}
    /\ UNCHANGED <<state, returned>>

Over(c, told) ==
    /\ state[c] = "open"
    /\ state' = [state EXCEPT ![c] = "over"]
    /\ returned' = [returned EXCEPT ![c] = told]
    /\ UNCHANGED executed

Answer(c) == c \in executed /\ Over(c, Outcome(c))

Fail(c) == Over(c, "failed")

Next == \E c \in Calls : Open(c) \/ Execute(c) \/ Answer(c) \/ Fail(c)

Spec == Init /\ [][Next]_vars
================================================================================
