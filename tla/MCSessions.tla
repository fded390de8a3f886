------------------------------ MODULE MCSessions -----------------------------
(***************************************************************************)
(* Sessions on a small instance: two streams and an HTTP request that may  *)
(* prove the same challenges, for two peers.                               *)
(***************************************************************************)
EXTENDS Sessions, TLC

Symmetry == Permutations(Streams) \cup Permutations(Nonces) \cup Permutations(Peers)

=============================================================================
