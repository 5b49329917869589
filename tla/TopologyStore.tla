---------------------------- MODULE TopologyStore ----------------------------
(***************************************************************************)
(* The Raft state machine replicated on every pgcluster instance: entries  *)
(* applied, snapshots taken and installed, the log purged, the instance    *)
(* restarted, and the topology published to the readers in the process.    *)
(*                                                                         *)
(* Source: pgcluster/src/raft/{state_machine,storage,mod}.rs.              *)
(*                                                                         *)
(* openraft itself is external.  What this module takes from it: committed *)
(* entries form one sequence that every instance agrees on; an instance    *)
(* applies it in order, one entry at a time; a snapshot is installed only  *)
(* over an older state; the log is purged up to a snapshot that was built. *)
(* How entries come to be committed (terms, elections) is not modelled.    *)
(***************************************************************************)
EXTENDS Topology

CONSTANTS
    Instance,       \* pgcluster processes
    Command,        \* the commands clients may propose
    MaxLog          \* bound: committed entries

ASSUME CommandAssumption == Command \subseteq TopologyCommand
ASSUME MaxLogAssumption == MaxLog \in Nat

VARIABLES
    log,            \* the committed commands
    replay,         \* history: replay[i + 1] is what the first i commands make
    state,          \* per instance, TopologyStateMachine::state
    last_log,       \* per instance, last applied index, 0 for None
    purged,         \* per instance, durable: entries up to here are gone
    published       \* per instance, what TopologyWatch readers see

vars == <<log, replay, state, last_log, purged, published>>

Init ==
    /\ log = << >>
    /\ replay = <<EmptyTopology>>
    /\ state = [i \in Instance |-> EmptyTopology]
    /\ last_log = [i \in Instance |-> 0]
    /\ purged = [i \in Instance |-> 0]
    /\ published = [i \in Instance |-> EmptyTopology]

\* External: openraft commits a proposed command.
Commit(cmd) ==
    /\ Len(log) < MaxLog
    /\ log' = Append(log, cmd)
    /\ replay' = Append(replay, ApplyCommand(replay[Len(replay)], cmd))
    /\ UNCHANGED <<state, last_log, purged, published>>

\* apply_entries, for one entry.  An entry purged before it was applied can
\* not be read back.  The published topology follows in Publish.
ApplyEntry(i) ==
    /\ last_log[i] < Len(log)
    /\ purged[i] =< last_log[i]
    /\ last_log' = [last_log EXCEPT ![i] = @ + 1]
    /\ state' = [state EXCEPT ![i] = ApplyCommand(@, log[last_log[i] + 1])]
    /\ UNCHANGED <<log, replay, purged, published>>

\* The forwarder task of RaftNode::start takes the state machine's latest
\* topology; a slow forwarder skips the ones in between.
Publish(i) ==
    /\ published[i] # state[i]
    /\ published' = [published EXCEPT ![i] = state[i]]
    /\ UNCHANGED <<log, replay, state, last_log, purged>>

\* build_snapshot_data, then purge_logs_upto: the snapshot goes no further
\* than memory, and the entries it covers are removed from disk.
BuildSnapshotAndPurge(i) ==
    /\ purged[i] < last_log[i]
    /\ \E upto \in purged[i] + 1 .. last_log[i] : purged' = [purged EXCEPT ![i] = upto]
    /\ UNCHANGED <<log, replay, state, last_log, published>>

\* Mutant: a snapshot is installed whatever the follower already applied.
InstallAnySnapshot(leader, i) ==
    /\ last_log[leader] > 0
    /\ state' = [state EXCEPT ![i] = state[leader]]
    /\ last_log' = [last_log EXCEPT ![i] = last_log[leader]]
    /\ purged' = [purged EXCEPT ![i] = last_log[leader]]
    /\ UNCHANGED <<log, replay, published>>

\* Mutant: the snapshot's topology is installed and its index is not.
InstallSnapshotUnlabelled(leader, i) ==
    /\ last_log[leader] > 0
    /\ last_log[i] < last_log[leader]
    /\ state' = [state EXCEPT ![i] = state[leader]]
    /\ UNCHANGED <<log, replay, last_log, purged, published>>

\* get_current_snapshot_data on the leader (its live state, none before the
\* first entry), install_snapshot_from on a follower that is behind, and the
\* follower's log purged up to the snapshot.
InstallSnapshot(leader, i) ==
    /\ last_log[leader] > 0
    /\ last_log[i] < last_log[leader]
    /\ state' = [state EXCEPT ![i] = state[leader]]
    /\ last_log' = [last_log EXCEPT ![i] = last_log[leader]]
    /\ purged' = [purged EXCEPT ![i] = last_log[leader]]
    /\ UNCHANGED <<log, replay, published>>

\* RaftNode::start with TopologyStateMachine::new: the log and its purge mark
\* are on disk, the state machine starts empty.
Restart(i) ==
    /\ state' = [state EXCEPT ![i] = EmptyTopology]
    /\ last_log' = [last_log EXCEPT ![i] = 0]
    /\ published' = [published EXCEPT ![i] = EmptyTopology]
    /\ UNCHANGED <<log, replay, purged>>

Next ==
    \/ \E cmd \in Command : Commit(cmd)
    \/ \E i \in Instance : ApplyEntry(i)
    \/ \E i \in Instance : Publish(i)
    \/ \E i \in Instance : BuildSnapshotAndPurge(i)
    \/ \E leader, i \in Instance : InstallSnapshot(leader, i)
    \/ \E i \in Instance : Restart(i)

Spec == Init /\ [][Next]_vars

(***************************************************************************)
(* Properties.                                                             *)
(***************************************************************************)

\* Every variable has the shape the Rust types give it.
TypeOK ==
    /\ log \in Seq(Command)
    /\ replay \in Seq(ClusterTopology)
    /\ Len(replay) = Len(log) + 1
    /\ state \in [Instance -> ClusterTopology]
    /\ last_log \in [Instance -> 0 .. Len(log)]
    /\ purged \in [Instance -> 0 .. Len(log)]
    /\ published \in [Instance -> ClusterTopology]

\* What two instances applied is what counts, not how they got there: replay,
\* a snapshot taken from another instance's live state, or a restart between.
\* Two instances at the same entry hold the same topology.
ReplicasAgree ==
    \A i, j \in Instance : last_log[i] = last_log[j] => state[i] = state[j]

\* No reader in any process ever sees a topology the log did not produce: the
\* watch only shows topologies some prefix of the committed commands makes.
PublishedIsCommitted ==
    \A i \in Instance : \E k \in 1 .. Len(replay) : published[i] = replay[k]

\* A role map read from any process never names two primaries, and names the
\* one `primary_node_id` does, through every order of SetPrimary, AddNode,
\* RemoveNode and the Mark commands.
AtMostOnePrimary(t) ==
    \A n \in Node : t.node_roles[n] = "Primary" => n = t.primary_node_id

OnePrimary == \A i \in Instance : AtMostOnePrimary(published[i])

\* While a process stays up, the topology its readers see never goes back to
\* an older version, whatever snapshots arrive.  Only a restart starts over.
VersionsOnlyGrow ==
    [][\A i \in Instance :
          \/ published'[i].version >= published[i].version
          \/ published'[i] = EmptyTopology]_vars

\* The store implements TopologyLog: whatever is applied, snapshotted, purged
\* or installed behind it, what the readers of every process see is one history
\* of topologies, in order.
Promise == INSTANCE TopologyLog WITH
    history <- replay, seen <- published, Empty <- EmptyTopology, Apply <- ApplyCommand

ImplementsLog == Promise!Spec

\* The inductive invariant behind them.  `replay` is what the log denotes: its
\* versions count the entries, and no element has two primaries.
ReplayOfLog ==
    /\ replay[1] = EmptyTopology
    /\ \A k \in 1 .. Len(log) : replay[k + 1] = ApplyCommand(replay[k], log[k])
    /\ \A k \in 1 .. Len(replay) : replay[k].version = k - 1
    /\ \A k \in 1 .. Len(replay) : AtMostOnePrimary(replay[k])

\* Every state is the replay of the entries it counts, and readers are not
\* ahead of it.
StateIsReplay ==
    /\ \A i \in Instance : state[i] = replay[last_log[i] + 1]
    /\ \A i \in Instance : published[i].version =< state[i].version

IndInv == TypeOK /\ ReplayOfLog /\ StateIsReplay /\ PublishedIsCommitted
=============================================================================
