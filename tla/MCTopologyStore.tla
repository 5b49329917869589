--------------------------- MODULE MCTopologyStore ---------------------------
(* Instances of TopologyStore for TLC. *)
EXTENDS TopologyStore, TLC

Lsn == {0, 3}
Config == {[external |-> FALSE, priority |-> 1], [external |-> TRUE, priority |-> 1]}
Event == [old_primary : Node, new_primary : Node, ran_degraded : {TRUE}]
Manifest == [backup_id : {1, 2}, completed_at : {1, 2}]

\* Every command, with two nodes and two positions.
EveryCommand ==
         [type : {"SetPrimary"}, node_id : Node, at_lsn : Lsn]
    \cup [type : {"MarkOffline", "MarkMaintenance", "RemoveNode"}, node_id : Node]
    \cup [type : {"MarkReplica"}, node_id : Node, flush_lsn : {3}]
    \cup [type : {"UpdateFlushLsn"}, node_id : Node, flush_lsn : {1}, replay_lsn : {1}]
    \cup [type : {"AddNode"}, node_id : Node, config : Config]
    \cup [type : {"RecordFailover"}, event : {e \in Event : e.old_primary # e.new_primary}]
    \cup [type : {"SetReplicationMode"}, mode : {"Sync", "SyncStrict"}]
    \cup [type : {"SetSyncDegraded"}, degraded : BOOLEAN]
    \cup [type : {"SetNeedsReseed"}, node_id : Node, needs_reseed : BOOLEAN]
    \cup [type : {"AddBackupManifest"}, manifest : {m \in Manifest : m.backup_id = m.completed_at}]
    \cup [type : {"RemoveBackupManifest"}, backup_id : {1}]

\* The instances are interchangeable.
Instances == Permutations(Instance)
=============================================================================
