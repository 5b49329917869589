---------------------------- MODULE MCReplication ----------------------------
(* Replication with n1 the first primary and x an external standby. *)
EXTENDS Replication

CONSTANTS n1, n2, n3, x
=============================================================================
