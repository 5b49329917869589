---------------------------- MODULE MCSwitchover ----------------------------
(* The switchover on three nodes, of which n1 is the first primary. *)
EXTENDS Switchover, TLC

CONSTANTS n1, n2, n3
=============================================================================
