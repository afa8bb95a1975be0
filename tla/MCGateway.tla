------------------------------- MODULE MCGateway -------------------------------
(* Gateway for TLC: connections, threads and request ids are interchangeable. *)
EXTENDS Gateway, TLC

Symmetry ==
    Permutations(Conns) \cup Permutations(Threads) \cup Permutations(Requests)
================================================================================
