----------------------------- MODULE MCAuthRuntime -----------------------------
(* AuthRuntime for TLC: profiles, windows and processes are interchangeable. *)
EXTENDS AuthRuntime, TLC

Symmetry ==
    Permutations(Profiles) \cup Permutations(Launchers) \cup Permutations(Pids)
================================================================================
