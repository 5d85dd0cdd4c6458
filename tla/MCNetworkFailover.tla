-------------------------- MODULE MCNetworkFailover --------------------------
(* Model-checking instance of NetworkFailover: two Wi-Fi networks.          *)
EXTENDS NetworkFailover, TLC

CONSTANTS n1, n2
Networks == {n1, n2}
NetSymmetry == Permutations(Networks)
==============================================================================
