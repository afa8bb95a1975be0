----------------------------- MODULE ProfileSwitch -----------------------------
(***************************************************************************)
(* What the broker promises about the one global account: the selected     *)
(* profile moves only to a profile some window asked for, a request is     *)
(* used up by the commit that serves it, the epoch grows by one with each  *)
(* commit and with nothing else, and while a request stands it belongs to  *)
(* the window that made it: another window can neither take it over nor    *)
(* retarget it.  A request may also end without a commit (Withdraw).       *)
(***************************************************************************)
EXTENDS Integers

CONSTANTS Profiles, Sessions, NoProfile, NoSession

VARIABLES selected, epoch, wanted, owner

vars == <<selected, epoch, wanted, owner>>

Init ==
    /\ selected \in Profiles
    /\ epoch = 0
    /\ wanted = NoProfile
    /\ owner = NoSession

Ask(s, p) ==
    /\ wanted = NoProfile
    /\ p # selected
    /\ wanted' = p /\ owner' = s
    /\ UNCHANGED <<selected, epoch>>

Retarget(s, p) ==
    /\ wanted # NoProfile /\ owner = s
    /\ wanted' = p
    /\ UNCHANGED <<selected, epoch, owner>>

Commit ==
    /\ wanted # NoProfile
    /\ selected' = wanted /\ epoch' = epoch + 1
    /\ wanted' = NoProfile /\ owner' = NoSession

Withdraw ==
    /\ wanted # NoProfile
    /\ wanted' = NoProfile /\ owner' = NoSession
    /\ UNCHANGED <<selected, epoch>>

Next ==
    \/ \E s \in Sessions, p \in Profiles : Ask(s, p) \/ Retarget(s, p)
    \/ Commit
    \/ Withdraw

Spec == Init /\ [][Next]_vars
================================================================================
