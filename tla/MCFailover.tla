----------------------------- MODULE MCFailover -----------------------------
(* Failover on two or three nodes, of which n1 is the first primary. *)
EXTENDS Failover, TLC

CONSTANTS n1, n2, n3

\* The standbys are interchangeable.
Others == Permutations({n2, n3})
=============================================================================
