------------------------------ MODULE SessionStore ------------------------------
(***************************************************************************)
(* What the session manager promises of sessions.json: each handler's      *)
(* update reaches the record of its own window whole and at once, or not   *)
(* at all, and the handler is told which.  A new broker starts with no     *)
(* record, or with those of the last one when it could not clear them.     *)
(***************************************************************************)
EXTENDS SessionRecords

VARIABLES records,     \* session -> its record, or NoRecord
          asked,       \* actor -> the update it has asked for, or NoUpdate
          answer       \* actor -> how its last call ended

vars == <<records, asked, answer>>

Init ==
    /\ records = [s \in Sessions |-> NoRecord]
    /\ asked = [a \in Actors |-> NoUpdate]
    /\ answer = [a \in Actors |-> "none"]

Ask(a, u) ==
    /\ asked[a] = NoUpdate
    /\ asked' = [asked EXCEPT ![a] = u]
    /\ answer' = [answer EXCEPT ![a] = "none"]
    /\ UNCHANGED records

Done(a) ==
    /\ asked[a] # NoUpdate
    /\ records' = [records EXCEPT ![asked[a].session] = Applied(asked[a], @)]
    /\ asked' = [asked EXCEPT ![a] = NoUpdate]
    /\ answer' = [answer EXCEPT ![a] = "ok"]

Refuse(a) ==
    /\ asked[a] # NoUpdate
    /\ asked' = [asked EXCEPT ![a] = NoUpdate]
    /\ answer' = [answer EXCEPT ![a] = "error"]
    /\ UNCHANGED records

(* The broker dies: calls under way are never answered. *)
Die ==
    /\ asked' = [a \in Actors |-> NoUpdate]
    /\ answer' = [a \in Actors |-> "none"]
    /\ UNCHANGED records

Clear ==
    /\ asked = [a \in Actors |-> NoUpdate]
    /\ records' = [s \in Sessions |-> NoRecord]
    /\ UNCHANGED <<asked, answer>>

Next ==
    \/ \E a \in Actors, u \in Updates : Ask(a, u)
    \/ \E a \in Actors : Done(a) \/ Refuse(a)
    \/ Die
    \/ Clear

Spec == Init /\ [][Next]_vars
================================================================================
