------------------------------ MODULE Topology ------------------------------
(***************************************************************************)
(* The replicated cluster topology and what each Raft command does to it.  *)
(*                                                                         *)
(* Source: pgcluster/src/raft/{topology,commands,state_machine}.rs.        *)
(*                                                                         *)
(* A `HashMap` keyed by node ID is a function on Node whose value is None  *)
(* where the map has no entry.  An empty `primary_node_id` is None.  Log   *)
(* positions are natural numbers: they are compared and subtracted, and    *)
(* the one subtraction saturates.  `last_changed_at` (a wall-clock stamp   *)
(* taken by each replica as it applies, so not even replicated) and the    *)
(* texts of labels and reasons are left out.  The manifests, a list sorted *)
(* by completion time, are a set: each manifest carries its time.  Nothing *)
(* in the program proposes UpdatePrimaryConninfo or SetReplicationSlot,    *)
(* and no other command touches the maps those two fill.                   *)
(***************************************************************************)
EXTENDS Naturals, Sequences, FiniteSets

CONSTANTS
    Node,           \* node IDs the operators of this cluster ever use
    None,           \* the absent value
    HistoryMax,     \* FAILOVER_HISTORY_MAX
    BackupsMax      \* the cap on backup manifests

ASSUME NoneAssumption == None \notin Node /\ None \notin Nat /\ None # "Primary"
ASSUME CapsAssumption == HistoryMax \in Nat \ {0} /\ BackupsMax \in Nat \ {0}

NodeRole == {"Primary", "Replica", "Offline", "Maintenance", "Unknown"}

ReplicationMode == {"Async", "Sync", "SyncStrict"}

\* NodeConfig, of which only the `role` tag and the priority matter here.
NodeConfig == [external : BOOLEAN, priority : Nat]

FailoverEvent == [old_primary : Node, new_primary : Node, ran_degraded : BOOLEAN]

FailoverHistory == {h \in Seq(FailoverEvent) : Len(h) =< HistoryMax}

BackupManifest == [backup_id : Nat, completed_at : Nat]

ClusterTopology ==
    [version           : Nat,
     primary_node_id   : Node \cup {None},
     node_roles        : [Node -> NodeRole \cup {None}],
     last_flush_lsns   : [Node -> Nat \cup {None}],
     last_replay_lsns  : [Node -> Nat \cup {None}],
     replica_lag_bytes : [Node -> Nat \cup {None}],
     node_configs      : [Node -> NodeConfig \cup {None}],
     needs_reseed      : SUBSET Node,
     replication_mode  : ReplicationMode,
     sync_degraded     : BOOLEAN,
     failover_history  : FailoverHistory,
     backups           : SUBSET BackupManifest]

\* ClusterTopology::default()
EmptyTopology ==
    [version           |-> 0,
     primary_node_id   |-> None,
     node_roles        |-> [n \in Node |-> None],
     last_flush_lsns   |-> [n \in Node |-> None],
     last_replay_lsns  |-> [n \in Node |-> None],
     replica_lag_bytes |-> [n \in Node |-> None],
     node_configs      |-> [n \in Node |-> None],
     needs_reseed      |-> {},
     replication_mode  |-> "Async",
     sync_degraded     |-> FALSE,
     failover_history  |-> << >>,
     backups           |-> {}]

(***************************************************************************)
(* Commands.                                                               *)
(***************************************************************************)
TopologyCommand ==
         [type : {"SetPrimary"}, node_id : Node, at_lsn : Nat]
    \cup [type : {"MarkOffline", "MarkMaintenance", "RemoveNode"}, node_id : Node]
    \cup [type : {"MarkReplica"}, node_id : Node, flush_lsn : Nat]
    \cup [type : {"UpdateFlushLsn"}, node_id : Node, flush_lsn : Nat, replay_lsn : Nat]
    \cup [type : {"AddNode"}, node_id : Node, config : NodeConfig]
    \cup [type : {"RecordFailover"}, event : FailoverEvent]
    \cup [type : {"SetReplicationMode"}, mode : ReplicationMode]
    \cup [type : {"SetSyncDegraded"}, degraded : BOOLEAN]
    \cup [type : {"SetNeedsReseed"}, node_id : Node, needs_reseed : BOOLEAN]
    \cup [type : {"AddBackupManifest"}, manifest : BackupManifest]
    \cup [type : {"RemoveBackupManifest"}, backup_id : Nat]

LsnOrZero(lsn) == IF lsn = None THEN 0 ELSE lsn

SubUnsaturated(a, b) == a - b     \* mutant

SaturatingSub(a, b) == IF a > b THEN a - b ELSE 0

RolesKeepingOldPrimary(t, id) ==      \* mutant: the old primary keeps its role
    [t.node_roles EXCEPT ![id] = "Primary"]

\* The role map after SetPrimary: the old primary, whatever its role was,
\* becomes a replica.
RolesWithPrimary(t, id) ==
    [n \in Node |-> IF n = id THEN "Primary"
                    ELSE IF n = t.primary_node_id THEN "Replica"
                    ELSE t.node_roles[n]]

SetPrimary(t, id, at_lsn) ==
    [t EXCEPT !.node_roles = RolesWithPrimary(t, id),
              !.primary_node_id = id,
              !.last_flush_lsns[id] = at_lsn]

SetRole(t, id, role) == [t EXCEPT !.node_roles[id] = role]

MarkReplica(t, id, flush_lsn) ==
    [t EXCEPT !.node_roles[id] = "Replica", !.last_flush_lsns[id] = flush_lsn]

\* The lag is measured against the primary's last position, as known here.
UpdateFlushLsn(t, id, flush_lsn, replay_lsn) ==
    LET isReplica == t.primary_node_id # None /\ t.primary_node_id # id
        lag == SaturatingSub(LsnOrZero(t.last_flush_lsns[t.primary_node_id]), flush_lsn)
    IN  [t EXCEPT !.last_flush_lsns[id] = flush_lsn,
                  !.last_replay_lsns[id] = replay_lsn,
                  !.replica_lag_bytes[id] = IF isReplica THEN lag ELSE @]

AddNode(t, id, config) ==
    [t EXCEPT !.node_roles[id] = IF @ = None THEN "Unknown" ELSE @,
              !.node_configs[id] = config]

\* `primary_node_id` and `needs_reseed` may go on naming the removed node.
RemoveNode(t, id) ==
    [t EXCEPT !.node_roles[id] = None,
              !.node_configs[id] = None,
              !.last_flush_lsns[id] = None,
              !.last_replay_lsns[id] = None,
              !.replica_lag_bytes[id] = None]

\* Append, and drop the oldest events beyond the cap.
RecordFailover(t, event) ==
    LET all == Append(t.failover_history, event)
    IN  [t EXCEPT !.failover_history =
            IF Len(all) > HistoryMax THEN Tail(all) ELSE all]

SetReplicationMode(t, mode) ==
    [t EXCEPT !.replication_mode = mode, !.sync_degraded = FALSE]

SetNeedsReseed(t, id, needs_reseed) ==
    [t EXCEPT !.needs_reseed = IF needs_reseed THEN @ \cup {id} ELSE @ \ {id}]

\* Push, sort by descending completion time, and truncate: the one that
\* completed first is dropped beyond the cap.
AddBackupManifest(t, manifest) ==
    LET all == t.backups \cup {manifest}
        oldest == CHOOSE m \in all : \A x \in all : m.completed_at =< x.completed_at
    IN  [t EXCEPT !.backups = IF Cardinality(all) > BackupsMax THEN all \ {oldest} ELSE all]

RemoveBackupManifest(t, backup_id) ==
    [t EXCEPT !.backups = {m \in @ : m.backup_id # backup_id}]

\* The match of apply_command.
Change(t, cmd) ==
    CASE cmd.type = "SetPrimary" -> SetPrimary(t, cmd.node_id, cmd.at_lsn)
      [] cmd.type = "MarkOffline" -> SetRole(t, cmd.node_id, "Offline")
      [] cmd.type = "MarkMaintenance" -> SetRole(t, cmd.node_id, "Maintenance")
      [] cmd.type = "RemoveNode" -> RemoveNode(t, cmd.node_id)
      [] cmd.type = "MarkReplica" -> MarkReplica(t, cmd.node_id, cmd.flush_lsn)
      [] cmd.type = "UpdateFlushLsn" ->
            UpdateFlushLsn(t, cmd.node_id, cmd.flush_lsn, cmd.replay_lsn)
      [] cmd.type = "AddNode" -> AddNode(t, cmd.node_id, cmd.config)
      [] cmd.type = "RecordFailover" -> RecordFailover(t, cmd.event)
      [] cmd.type = "SetReplicationMode" -> SetReplicationMode(t, cmd.mode)
      [] cmd.type = "SetSyncDegraded" -> [t EXCEPT !.sync_degraded = cmd.degraded]
      [] cmd.type = "SetNeedsReseed" -> SetNeedsReseed(t, cmd.node_id, cmd.needs_reseed)
      [] cmd.type = "AddBackupManifest" -> AddBackupManifest(t, cmd.manifest)
      [] cmd.type = "RemoveBackupManifest" -> RemoveBackupManifest(t, cmd.backup_id)

\* TopologyStateMachine::apply_command: every command counts a version.
ApplyCommand(t, cmd) == [Change(t, cmd) EXCEPT !.version = t.version + 1]

(***************************************************************************)
(* What the monitor and the failover engine read from a topology.          *)
(***************************************************************************)
Configured(t) == {n \in Node : t.node_configs[n] # None}

IsExternal(t, n) == t.node_configs[n] # None /\ t.node_configs[n].external

\* standby_names: the members of `ANY 1 (...)`; the empty set is "".
StandbyNames(t) ==
    {n \in Configured(t) : n # t.primary_node_id /\ ~IsExternal(t, n)}

\* synchronous_standby_names
SynchronousStandbyNames(t) ==
    IF \/ t.replication_mode = "SyncStrict"
       \/ t.replication_mode = "Sync" /\ ~t.sync_degraded
    THEN StandbyNames(t) ELSE {}
=============================================================================
