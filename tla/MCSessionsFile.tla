----------------------------- MODULE MCSessionsFile -----------------------------
(* SessionsFile for TLC: the two windows are alike. *)
EXTENDS SessionsFile, TLC

Symmetry == Permutations(Sessions)
================================================================================
