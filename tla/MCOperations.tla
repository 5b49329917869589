---------------------------- MODULE MCOperations ----------------------------
(* Operations on small sets of hosts and databases.                          *)
EXTENDS Operations, TLC

\* Every host is a failure domain of its own, so hosts can be exchanged.
MCDomain == [h \in Hosts |-> h]

Symmetric == Permutations(Hosts)

\* Each request of the API at least once, and the pairs that meet: a delete
\* overtaking a create, a change or a replica's create, a rotation queued
\* behind another, a drain that moves a node.
MCPlans == {
    <<"CreateHa", "Replace">>,
    <<"CreateHa", "RotateCa", "RotatePasswords">>,
    <<"CreateHa", "CreateReplica", "PromoteReplica">>,
    <<"CreateHa", "CreateReplica", "Delete">>,
    <<"CreateHa", "Drain", "Move">>,
    <<"CreateHa", "RollingUpdate">>,
    <<"CreateHa", "Resize">>,
    <<"CreateHa", "Upgrade">>,
    <<"CreateHa", "Restart">>,
    <<"CreateHa", "Switchover">>,
    <<"CreateHa", "ReplicationMode", "Delete">>,
    <<"CreateHa", "Certificate">>,
    <<"CreateHa", "Renew">>,
    <<"Create", "Delete">>,
    <<"Create", "Drain", "Undrain">>,
    <<"Create", "Backup", "Update">>,
    <<"Create", "RotateCa">>,
    <<"Create", "RotatePasswords">>,
    <<"Create", "Restore">>}
=============================================================================
