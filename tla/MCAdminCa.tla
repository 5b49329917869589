----------------------------- MODULE MCAdminCa -----------------------------
(* Instances of AdminCa for TLC. *)
EXTENDS AdminCa
CONSTANTS a, b
=============================================================================
