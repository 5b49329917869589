------------------------------- MODULE MCProxy -------------------------------
(***************************************************************************)
(* Instances of Proxy: every client comes from one address.                *)
(***************************************************************************)
EXTENDS Proxy

MCAddressOf == [s \in Sessions |-> CHOOSE a \in Addresses : TRUE]
=============================================================================
