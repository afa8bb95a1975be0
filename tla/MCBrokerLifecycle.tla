--------------------------- MODULE MCBrokerLifecycle ---------------------------
(* BrokerLifecycle for TLC: broker processes and windows are interchangeable. *)
EXTENDS BrokerLifecycle, TLC

Symmetry == Permutations(Brokers) \cup Permutations(Windows)
================================================================================
