--------------------------- MODULE TopologyProofs ---------------------------
(***************************************************************************)
(* Proofs about TopologyStore, for any number of nodes, instances and      *)
(* committed commands.                                                     *)
(*                                                                         *)
(* The argument: the history variable `replay` holds what each prefix of   *)
(* the log denotes.  Every instance's state is one of its elements, at the *)
(* index the instance counts (StateIsReplay); agreement and the order of   *)
(* versions follow.  That no topology has two primaries is a fact about    *)
(* apply_command alone, so it is proved per command and carried along      *)
(* `replay`.                                                               *)
(***************************************************************************)
EXTENDS TopologyStore, TLAPS

\* A command turns a well-formed topology into a well-formed one.
LEMMA ChangeType ==
    ASSUME NEW t \in ClusterTopology, NEW cmd \in TopologyCommand
    PROVE  Change(t, cmd) \in ClusterTopology
<1> USE NoneAssumption, CapsAssumption DEF ClusterTopology, NodeRole
<1>1. CASE cmd \in [type : {"SetPrimary"}, node_id : Node, at_lsn : Nat]
  BY <1>1, ZenonT(60) DEF Change, SetPrimary, RolesWithPrimary
<1>2. CASE cmd \in [type : {"MarkOffline", "MarkMaintenance", "RemoveNode"}, node_id : Node]
  BY <1>2, ZenonT(60) DEF Change, SetRole, RemoveNode
<1>3. CASE cmd \in [type : {"MarkReplica"}, node_id : Node, flush_lsn : Nat]
  BY <1>3, ZenonT(60) DEF Change, MarkReplica
<1>4. CASE cmd \in [type : {"UpdateFlushLsn"}, node_id : Node, flush_lsn : Nat, replay_lsn : Nat]
  <2> DEFINE lag == SaturatingSub(LsnOrZero(t.last_flush_lsns[t.primary_node_id]), cmd.flush_lsn)
             isReplica == t.primary_node_id # None /\ t.primary_node_id # cmd.node_id
             lags == [t.replica_lag_bytes EXCEPT ![cmd.node_id] = IF isReplica THEN lag ELSE @]
             flushes == [t.last_flush_lsns EXCEPT ![cmd.node_id] = cmd.flush_lsn]
             replays == [t.last_replay_lsns EXCEPT ![cmd.node_id] = cmd.replay_lsn]
  <2>1. isReplica => lag \in Nat
    BY <1>4 DEF SaturatingSub, LsnOrZero
  <2>2. lags \in [Node -> Nat \cup {None}]
    BY <1>4, <2>1
  <2>3. flushes \in [Node -> Nat \cup {None}] /\ replays \in [Node -> Nat \cup {None}]
    BY <1>4
  <2>4. Change(t, cmd) = [t EXCEPT !.last_flush_lsns = flushes,
                                   !.last_replay_lsns = replays,
                                   !.replica_lag_bytes = lags]
    BY <1>4 DEF Change, UpdateFlushLsn
  <2> HIDE DEF lags, flushes, replays
  <2> QED
    BY <2>2, <2>3, <2>4, ZenonT(60)
<1>5. CASE cmd \in [type : {"AddNode"}, node_id : Node, config : NodeConfig]
  BY <1>5, ZenonT(60) DEF Change, AddNode
<1>6. CASE cmd \in [type : {"RecordFailover"}, event : FailoverEvent]
  <2> DEFINE all == Append(t.failover_history, cmd.event)
             kept == IF Len(all) > HistoryMax THEN Tail(all) ELSE all
  <2>1. Change(t, cmd) = [t EXCEPT !.failover_history = kept]
    BY <1>6 DEF Change, RecordFailover
  <2>2. kept \in FailoverHistory
    <3>1. t.failover_history \in Seq(FailoverEvent) /\ Len(t.failover_history) =< HistoryMax
      BY DEF FailoverHistory
    <3>2. all \in Seq(FailoverEvent) /\ Len(all) =< HistoryMax + 1 /\ all # << >>
      BY <1>6, <3>1
    <3>3. Tail(all) \in Seq(FailoverEvent) /\ Len(Tail(all)) =< HistoryMax
      BY <3>2
    <3> QED
      BY <3>2, <3>3 DEF FailoverHistory
  <2> QED
    BY <2>1, <2>2, ZenonT(60)
<1>7. CASE cmd \in [type : {"SetReplicationMode"}, mode : ReplicationMode]
  BY <1>7, ZenonT(60) DEF Change, SetReplicationMode
<1>8. CASE cmd \in [type : {"SetSyncDegraded"}, degraded : BOOLEAN]
  BY <1>8 DEF Change
<1>9. CASE cmd \in [type : {"SetNeedsReseed"}, node_id : Node, needs_reseed : BOOLEAN]
  BY <1>9 DEF Change, SetNeedsReseed
<1>10. CASE cmd \in [type : {"AddBackupManifest"}, manifest : BackupManifest]
  BY <1>10 DEF Change, AddBackupManifest
<1>11. CASE cmd \in [type : {"RemoveBackupManifest"}, backup_id : Nat]
  BY <1>11 DEF Change, RemoveBackupManifest
<1> QED
  BY <1>1, <1>2, <1>3, <1>4, <1>5, <1>6, <1>7, <1>8, <1>9, <1>10, <1>11 DEF TopologyCommand

\* No command gives a node the role Primary but SetPrimary, which takes it
\* from the node it replaces.
LEMMA ChangeKeepsOnePrimary ==
    ASSUME NEW t \in ClusterTopology, NEW cmd \in TopologyCommand, AtMostOnePrimary(t)
    PROVE  AtMostOnePrimary(Change(t, cmd))
<1> USE NoneAssumption DEF ClusterTopology, NodeRole, AtMostOnePrimary
<1>1. CASE cmd \in [type : {"SetPrimary"}, node_id : Node, at_lsn : Nat]
  BY <1>1 DEF Change, SetPrimary, RolesWithPrimary
<1>2. CASE cmd \in [type : {"MarkOffline", "MarkMaintenance", "RemoveNode"}, node_id : Node]
  BY <1>2 DEF Change, SetRole, RemoveNode
<1>3. CASE cmd \in [type : {"MarkReplica"}, node_id : Node, flush_lsn : Nat]
  BY <1>3 DEF Change, MarkReplica
<1>4. CASE cmd \in [type : {"UpdateFlushLsn"}, node_id : Node, flush_lsn : Nat, replay_lsn : Nat]
  BY <1>4 DEF Change, UpdateFlushLsn
<1>5. CASE cmd \in [type : {"AddNode"}, node_id : Node, config : NodeConfig]
  BY <1>5 DEF Change, AddNode
<1>6. CASE cmd \in [type : {"RecordFailover"}, event : FailoverEvent]
  BY <1>6 DEF Change, RecordFailover
<1>7. CASE cmd \in [type : {"SetReplicationMode"}, mode : ReplicationMode]
  BY <1>7 DEF Change, SetReplicationMode
<1>8. CASE cmd \in [type : {"SetSyncDegraded"}, degraded : BOOLEAN]
  BY <1>8 DEF Change
<1>9. CASE cmd \in [type : {"SetNeedsReseed"}, node_id : Node, needs_reseed : BOOLEAN]
  BY <1>9 DEF Change, SetNeedsReseed
<1>10. CASE cmd \in [type : {"AddBackupManifest"}, manifest : BackupManifest]
  BY <1>10 DEF Change, AddBackupManifest
<1>11. CASE cmd \in [type : {"RemoveBackupManifest"}, backup_id : Nat]
  BY <1>11 DEF Change, RemoveBackupManifest
<1> QED
  BY <1>1, <1>2, <1>3, <1>4, <1>5, <1>6, <1>7, <1>8, <1>9, <1>10, <1>11 DEF TopologyCommand

\* apply_command: the change, and one more version.
LEMMA ApplyCommandProperties ==
    ASSUME NEW t \in ClusterTopology, NEW cmd \in Command
    PROVE  /\ ApplyCommand(t, cmd) \in ClusterTopology
           /\ ApplyCommand(t, cmd).version = t.version + 1
           /\ AtMostOnePrimary(t) => AtMostOnePrimary(ApplyCommand(t, cmd))
<1>1. cmd \in TopologyCommand
  BY CommandAssumption
<1>2. Change(t, cmd) \in ClusterTopology
  BY <1>1, ChangeType
<1>3. AtMostOnePrimary(t) => AtMostOnePrimary(Change(t, cmd))
  BY <1>1, ChangeKeepsOnePrimary
<1> QED
  BY <1>2, <1>3 DEF ApplyCommand, AtMostOnePrimary, ClusterTopology

LEMMA EmptyTopologyProperties ==
    /\ EmptyTopology \in ClusterTopology
    /\ EmptyTopology.version = 0
    /\ AtMostOnePrimary(EmptyTopology)
<1>1. << >> \in FailoverHistory
  BY CapsAssumption DEF FailoverHistory
<1> QED
  BY <1>1, NoneAssumption DEF EmptyTopology, ClusterTopology, AtMostOnePrimary, NodeRole, ReplicationMode

LEMMA InitIndInv == Init => IndInv
<1> SUFFICES ASSUME Init PROVE IndInv
  OBVIOUS
<1> USE EmptyTopologyProperties DEF Init
<1>1. replay \in Seq(ClusterTopology) /\ Len(replay) = 1 /\ replay[1] = EmptyTopology
  OBVIOUS
<1>2. TypeOK
  BY <1>1 DEF TypeOK
<1>3. ReplayOfLog
  BY <1>1 DEF ReplayOfLog
<1>4. StateIsReplay
  BY <1>1 DEF StateIsReplay
<1>5. PublishedIsCommitted
  BY <1>1 DEF PublishedIsCommitted
<1> QED
  BY ONLY <1>2, <1>3, <1>4, <1>5 DEF IndInv

\* What the log denotes depends on the log alone.
LEMMA ReplayUnchanged ==
    ASSUME ReplayOfLog, UNCHANGED <<log, replay>>
    PROVE  ReplayOfLog'
  BY Zenon DEF ReplayOfLog, AtMostOnePrimary

\* The only action that extends the log and its replay.
LEMMA CommitKeepsIndInv ==
    ASSUME IndInv, NEW cmd \in Command, Commit(cmd)
    PROVE  IndInv'
<1> DEFINE new == ApplyCommand(replay[Len(replay)], cmd)
<1>1. /\ log \in Seq(Command) /\ replay \in Seq(ClusterTopology)
      /\ Len(log) \in Nat /\ Len(replay) = Len(log) + 1
      /\ Len(replay) \in 1 .. Len(replay)
      /\ replay[Len(replay)] \in ClusterTopology
  BY DEF IndInv, TypeOK
<1>2. /\ AtMostOnePrimary(replay[Len(replay)])
      /\ replay[Len(replay)].version = Len(replay) - 1
  BY <1>1 DEF IndInv, ReplayOfLog
<1>3. /\ new \in ClusterTopology
      /\ new.version = Len(replay)
      /\ AtMostOnePrimary(new)
  BY <1>1, <1>2, ApplyCommandProperties
<1> HIDE DEF new
<1>4. /\ log' \in Seq(Command)
      /\ Len(log') = Len(log) + 1
      /\ replay' \in Seq(ClusterTopology)
      /\ Len(replay') = Len(replay) + 1
      /\ \A k \in 1 .. Len(replay) : replay'[k] = replay[k]
      /\ replay'[Len(replay) + 1] = new
      /\ \A k \in 1 .. Len(log) : log'[k] = log[k]
      /\ log'[Len(log) + 1] = cmd
  BY <1>1, <1>3 DEF Commit, new
<1>5. TypeOK'
  BY <1>1, <1>4 DEF IndInv, TypeOK, Commit
<1>6. ReplayOfLog'
  <2>1. replay'[1] = EmptyTopology
    BY <1>1, <1>4 DEF IndInv, ReplayOfLog
  <2>2. ASSUME NEW k \in 1 .. Len(log')
        PROVE  replay'[k + 1] = ApplyCommand(replay'[k], log'[k])
    <3>1. CASE k \in 1 .. Len(log)
      <4>1. k \in 1 .. Len(replay) /\ k + 1 \in 1 .. Len(replay)
        BY ONLY <1>1, <3>1
      <4>2. replay'[k] = replay[k] /\ replay'[k + 1] = replay[k + 1] /\ log'[k] = log[k]
        BY ONLY <1>4, <3>1, <4>1
      <4>3. replay[k + 1] = ApplyCommand(replay[k], log[k])
        BY <3>1, Zenon DEF IndInv, ReplayOfLog
      <4> QED
        BY ONLY <4>2, <4>3, Zenon
    <3>2. CASE k = Len(log) + 1
      BY <1>1, <1>4, <3>2 DEF new
    <3> QED
      BY <1>1, <1>4, <3>1, <3>2
  <2>3. ASSUME NEW k \in 1 .. Len(replay')
        PROVE  replay'[k].version = k - 1 /\ AtMostOnePrimary(replay'[k])
    <3>1. CASE k \in 1 .. Len(replay)
      <4>1. replay[k].version = k - 1 /\ AtMostOnePrimary(replay[k])
        BY <3>1, Zenon DEF IndInv, ReplayOfLog
      <4>2. replay'[k] = replay[k]
        BY ONLY <1>4, <3>1
      <4> QED
        BY ONLY <4>1, <4>2, Zenon
    <3>2. CASE k = Len(replay) + 1
      BY <1>1, <1>3, <1>4, <3>2
    <3> QED
      BY <1>1, <1>4, <3>1, <3>2
  <2> QED
    BY ONLY <2>1, <2>2, <2>3, Zenon DEF ReplayOfLog, AtMostOnePrimary
<1>7. StateIsReplay'
  <2>1. \A j \in Instance : last_log[j] + 1 \in 1 .. Len(replay)
    BY <1>1 DEF IndInv, TypeOK
  <2> QED
    BY <1>4, <2>1 DEF IndInv, StateIsReplay, Commit
<1>8. PublishedIsCommitted'
  <2> SUFFICES ASSUME NEW j \in Instance
               PROVE  \E k \in 1 .. Len(replay') : published'[j] = replay'[k]
    BY DEF PublishedIsCommitted
  <2>1. PICK k \in 1 .. Len(replay) : published[j] = replay[k]
    BY DEF IndInv, PublishedIsCommitted
  <2>2. published'[j] = replay'[k]
    BY <1>4, <2>1 DEF Commit
  <2>3. k \in 1 .. Len(replay')
    BY <1>1, <1>4
  <2> QED
    BY ONLY <2>2, <2>3
<1> QED
  BY ONLY <1>5, <1>6, <1>7, <1>8 DEF IndInv

LEMMA ApplyEntryKeepsIndInv ==
    ASSUME IndInv, NEW i \in Instance, ApplyEntry(i)
    PROVE  IndInv'
<1>1. /\ last_log[i] + 1 \in 1 .. Len(log) /\ last_log'[i] = last_log[i] + 1
      /\ last_log[i] + 2 \in 1 .. Len(replay) /\ last_log[i] + 1 \in 1 .. Len(replay)
  BY DEF IndInv, TypeOK, ApplyEntry
<1>2. state'[i] = replay[last_log[i] + 2]
  BY <1>1 DEF IndInv, TypeOK, ReplayOfLog, StateIsReplay, ApplyEntry
<1>3. TypeOK'
  BY <1>1, <1>2 DEF IndInv, TypeOK, ApplyEntry
<1>4. ReplayOfLog'
  BY ReplayUnchanged DEF IndInv, ApplyEntry
<1>5. StateIsReplay'
  <2>1. replay[last_log[i] + 1].version = last_log[i] /\ replay[last_log[i] + 2].version = last_log[i] + 1
    BY <1>1 DEF IndInv, TypeOK, ReplayOfLog
  <2>2. \A j \in Instance : state'[j] = replay[last_log'[j] + 1]
    BY <1>1, <1>2 DEF IndInv, TypeOK, StateIsReplay, ApplyEntry
  <2>3. published[i].version =< last_log[i] /\ published[i].version \in Nat
    BY <2>1 DEF IndInv, TypeOK, StateIsReplay, ClusterTopology
  <2>4. \A j \in Instance : published[j].version =< state'[j].version
    BY <1>2, <2>1, <2>3 DEF IndInv, TypeOK, StateIsReplay, ApplyEntry
  <2> QED
    BY <2>2, <2>4 DEF StateIsReplay, ApplyEntry
<1>6. PublishedIsCommitted'
  BY DEF IndInv, PublishedIsCommitted, ApplyEntry
<1> QED
  BY ONLY <1>3, <1>4, <1>5, <1>6 DEF IndInv

\* The snapshot carries the leader's state together with the leader's index.
LEMMA InstallSnapshotKeepsIndInv ==
    ASSUME IndInv, NEW leader \in Instance, NEW i \in Instance, InstallSnapshot(leader, i)
    PROVE  IndInv'
<1>1. TypeOK'
  BY DEF IndInv, TypeOK, InstallSnapshot
<1>2. ReplayOfLog'
  BY ReplayUnchanged DEF IndInv, InstallSnapshot
<1>3. StateIsReplay'
  <2>1. \A j \in Instance : state'[j] = replay[last_log'[j] + 1]
    BY DEF IndInv, TypeOK, StateIsReplay, InstallSnapshot
  <2>2. \A j \in Instance : state[j].version = last_log[j] /\ last_log[j] \in Nat
    <3>1. \A j \in Instance : last_log[j] \in Nat /\ last_log[j] + 1 \in 1 .. Len(replay)
      BY DEF IndInv, TypeOK
    <3> QED
      BY <3>1 DEF IndInv, ReplayOfLog, StateIsReplay
  <2>3. published[i].version \in Nat
    BY DEF IndInv, TypeOK, ClusterTopology
  <2>4. \A j \in Instance : published[j].version =< state'[j].version
    BY <2>2, <2>3 DEF IndInv, TypeOK, StateIsReplay, InstallSnapshot
  <2> QED
    BY <2>1, <2>4 DEF StateIsReplay, InstallSnapshot
<1>4. PublishedIsCommitted'
  BY DEF IndInv, PublishedIsCommitted, InstallSnapshot
<1> QED
  BY ONLY <1>1, <1>2, <1>3, <1>4 DEF IndInv

LEMMA RestartKeepsIndInv ==
    ASSUME IndInv, NEW i \in Instance, Restart(i)
    PROVE  IndInv'
<1>1. TypeOK'
  BY EmptyTopologyProperties DEF IndInv, TypeOK, Restart
<1>2. ReplayOfLog'
  BY ReplayUnchanged DEF IndInv, Restart
<1>3. 1 \in 1 .. Len(replay) /\ replay[1] = EmptyTopology
  BY DEF IndInv, TypeOK, ReplayOfLog
<1>4. StateIsReplay'
  <2>1. \A j \in Instance : state'[j] = replay[last_log'[j] + 1]
    BY <1>3 DEF IndInv, TypeOK, StateIsReplay, Restart
  <2>2. \A j \in Instance : published'[j].version =< state'[j].version
    BY EmptyTopologyProperties DEF IndInv, TypeOK, StateIsReplay, Restart
  <2> QED
    BY <2>1, <2>2 DEF StateIsReplay, Restart
<1>5. PublishedIsCommitted'
  BY <1>3 DEF IndInv, TypeOK, PublishedIsCommitted, Restart
<1> QED
  BY ONLY <1>1, <1>2, <1>4, <1>5 DEF IndInv

LEMMA PublishKeepsIndInv ==
    ASSUME IndInv, NEW i \in Instance, Publish(i)
    PROVE  IndInv'
<1>1. TypeOK'
  BY DEF IndInv, TypeOK, Publish
<1>2. ReplayOfLog'
  BY ReplayUnchanged DEF IndInv, Publish
<1>3. StateIsReplay'
  <2>1. \A j \in Instance : state[j].version \in Nat
    BY DEF IndInv, TypeOK, ClusterTopology
  <2>2. \A j \in Instance : published'[j].version =< state[j].version
    BY <2>1 DEF IndInv, TypeOK, StateIsReplay, Publish
  <2> QED
    BY <2>2 DEF IndInv, StateIsReplay, Publish
<1>4. PublishedIsCommitted'
  <2>1. last_log[i] + 1 \in 1 .. Len(replay) /\ published'[i] = replay[last_log[i] + 1]
    BY DEF IndInv, TypeOK, StateIsReplay, Publish
  <2> QED
    BY <2>1 DEF IndInv, TypeOK, PublishedIsCommitted, Publish
<1> QED
  BY ONLY <1>1, <1>2, <1>3, <1>4 DEF IndInv

LEMMA PurgeKeepsIndInv ==
    ASSUME IndInv, NEW i \in Instance, BuildSnapshotAndPurge(i)
    PROVE  IndInv'
<1>1. TypeOK'
  BY DEF IndInv, TypeOK, BuildSnapshotAndPurge
<1>2. ReplayOfLog'
  BY ReplayUnchanged DEF IndInv, BuildSnapshotAndPurge
<1>3. StateIsReplay' /\ PublishedIsCommitted'
  BY DEF IndInv, StateIsReplay, PublishedIsCommitted, BuildSnapshotAndPurge
<1> QED
  BY ONLY <1>1, <1>2, <1>3 DEF IndInv

\* The invariant is inductive.
LEMMA NextKeepsIndInv == IndInv /\ [Next]_vars => IndInv'
<1> SUFFICES ASSUME IndInv, [Next]_vars PROVE IndInv'
  OBVIOUS
<1>1. CASE \E cmd \in Command : Commit(cmd)
  BY <1>1, CommitKeepsIndInv
<1>2. CASE \E i \in Instance : ApplyEntry(i)
  BY <1>2, ApplyEntryKeepsIndInv
<1>3. CASE \E i \in Instance : Publish(i)
  BY <1>3, PublishKeepsIndInv
<1>4. CASE \E i \in Instance : BuildSnapshotAndPurge(i)
  BY <1>4, PurgeKeepsIndInv
<1>5. CASE \E leader, i \in Instance : InstallSnapshot(leader, i)
  BY <1>5, InstallSnapshotKeepsIndInv
<1>6. CASE \E i \in Instance : Restart(i)
  BY <1>6, RestartKeepsIndInv
<1>7. CASE UNCHANGED vars
  <2>1. TypeOK' /\ StateIsReplay' /\ PublishedIsCommitted'
    BY <1>7 DEF IndInv, TypeOK, StateIsReplay, PublishedIsCommitted, vars
  <2>2. ReplayOfLog'
    BY <1>7, ReplayUnchanged DEF IndInv, vars
  <2> QED
    BY ONLY <2>1, <2>2 DEF IndInv
<1> QED
  BY <1>1, <1>2, <1>3, <1>4, <1>5, <1>6, <1>7 DEF Next

LEMMA SpecIndInv == Spec => []IndInv
  BY InitIndInv, NextKeepsIndInv, PTL DEF Spec

\* Every variable of every instance keeps its type: log positions never go
\* negative, the failover history never outgrows its cap.
THEOREM TypeCorrect == Spec => []TypeOK
<1>1. IndInv => TypeOK
  BY DEF IndInv
<1> QED
  BY <1>1, SpecIndInv, PTL

\* Instances that applied the same entries hold the same topology, for any
\* interleaving of applying, snapshots, purges and restarts.
THEOREM Agreement == Spec => []ReplicasAgree
<1>1. IndInv => ReplicasAgree
  BY DEF IndInv, StateIsReplay, ReplicasAgree
<1> QED
  BY <1>1, SpecIndInv, PTL

\* Readers only ever see topologies the committed commands make.
THEOREM PublishedCommitted == Spec => []PublishedIsCommitted
<1>1. IndInv => PublishedIsCommitted
  BY DEF IndInv
<1> QED
  BY <1>1, SpecIndInv, PTL

\* No reader ever sees two nodes with the role Primary.
THEOREM SinglePrimary == Spec => []OnePrimary
<1>1. IndInv => OnePrimary
  BY Zenon DEF IndInv, ReplayOfLog, PublishedIsCommitted, OnePrimary
<1> QED
  BY <1>1, SpecIndInv, PTL

\* What a reader sees only moves to later versions, until the process restarts.
THEOREM VersionsGrow == Spec => VersionsOnlyGrow
<1> DEFINE Step == \A i \in Instance :
                      \/ published'[i].version >= published[i].version
                      \/ published'[i] = EmptyTopology
<1>1. IndInv /\ [Next]_vars => [Step]_vars
  <2> SUFFICES ASSUME IndInv, Next PROVE Step
    OBVIOUS
  <2>1. published \in [Instance -> ClusterTopology]
    BY DEF IndInv, TypeOK
  <2>2. \A i \in Instance : published[i].version \in Nat
    BY <2>1 DEF ClusterTopology
  <2>3. CASE UNCHANGED published
    BY <2>2, <2>3
  <2>4. ASSUME NEW i \in Instance, Publish(i) PROVE Step
    <3>1. state[i].version \in Nat /\ published[i].version =< state[i].version
      BY DEF IndInv, TypeOK, StateIsReplay, ClusterTopology
    <3> QED
      BY <2>1, <2>2, <2>4, <3>1 DEF Publish
  <2>5. ASSUME NEW i \in Instance, Restart(i) PROVE Step
    BY <2>1, <2>2, <2>5 DEF Restart
  <2> QED
    BY <2>3, <2>4, <2>5 DEF Next, Commit, ApplyEntry, BuildSnapshotAndPurge, InstallSnapshot
<1>2. Spec => [][Step]_vars
  BY <1>1, SpecIndInv, PTL DEF Spec
<1> QED
  BY <1>2 DEF VersionsOnlyGrow

\* A step of the store is a step of the log it promises, or none.
LEMMA StepImplementsLog ==
    ASSUME IndInv, [Next]_vars
    PROVE  [Promise!Next]_(Promise!vars)
<1>1. CASE \E cmd \in Command : Commit(cmd)
  <2>1. PICK cmd \in Command : Commit(cmd)
    BY <1>1
  <2>2. Promise!Commit(cmd)
    BY <2>1 DEF Commit, Promise!Commit
  <2> QED
    BY <2>2 DEF Promise!Next
<1>2. CASE \E i \in Instance : Publish(i)
  <2>1. PICK i \in Instance : Publish(i)
    BY <1>2
  <2>2. last_log[i] + 1 \in 1 .. Len(replay) /\ state[i] = replay[last_log[i] + 1]
    BY DEF IndInv, TypeOK, StateIsReplay
  <2>3. state[i].version \in Nat /\ published[i].version \in Nat
    BY DEF IndInv, TypeOK, ClusterTopology
  <2>4. replay[last_log[i] + 1].version >= published[i].version
    BY <2>2, <2>3 DEF IndInv, StateIsReplay
  <2>5. published' = [published EXCEPT ![i] = replay[last_log[i] + 1]] /\ UNCHANGED replay
    BY <2>1, <2>2 DEF Publish
  <2>6. Promise!Observe(i)
    BY <2>2, <2>4, <2>5 DEF Promise!Observe
  <2> QED
    BY <2>6 DEF Promise!Next
<1>3. CASE \E i \in Instance : Restart(i)
  <2>1. PICK i \in Instance : Restart(i)
    BY <1>3
  <2>2. Promise!Forget(i)
    BY <2>1 DEF Restart, Promise!Forget
  <2> QED
    BY <2>2 DEF Promise!Next
<1>4. CASE UNCHANGED <<replay, published>>
  BY <1>4 DEF Promise!vars
<1> QED
  BY <1>1, <1>2, <1>3, <1>4
  DEF Next, vars, ApplyEntry, BuildSnapshotAndPurge, InstallSnapshot

\* The store implements TopologyLog, for any instances and commands: readers
\* of every process see one history of topologies, in order.
THEOREM Refinement == Spec => ImplementsLog
<1>1. Init => Promise!Init
  BY DEF Init, Promise!Init
<1>2. IndInv /\ [Next]_vars => [Promise!Next]_(Promise!vars)
  BY StepImplementsLog
<1>3. Spec => Promise!Spec
  BY <1>1, <1>2, SpecIndInv, PTL DEF Spec, Promise!Spec
<1> QED
  BY <1>3 DEF ImplementsLog
=============================================================================
