----------------------------- MODULE Switchover -----------------------------
(***************************************************************************)
(* The planned switchover, the rolling restart and the operator's other    *)
(* requests, beside the node monitor and the automatic failover.           *)
(*                                                                         *)
(* Source: pgcluster/src/switchover/*.rs, and api/{switchover,restart,     *)
(* maintenance,nodes}.rs of pgcluster.  Failover supplies the monitor, the *)
(* failover, the rejoin tasks and the nodes; this module adds the commits  *)
(* each node holds, since a switchover is about losing none.               *)
(*                                                                         *)
(* The drain is the flag of the proxy on this instance.  The topology of   *)
(* Failover leaves positions out: a position on record is any the node had *)
(* when some earlier tick polled it.                                       *)
(***************************************************************************)
EXTENDS Failover

CONSTANTS
    MaxLag,         \* max_lag_bytes, in commits
    SteadyReads, MaxReads,      \* STEADY_READS, MAX_READS
    Requests,       \* which of the operator's requests are made
    MaxOperations, MaxCommits   \* bounds

ASSUME SwitchoverAssumption ==
    /\ MaxLag \in Nat /\ SteadyReads \in Nat \ {0} /\ MaxReads \in Nat \ {0}
    /\ MaxOperations \in Nat /\ MaxCommits \in Nat

VARIABLES
    draining,       \* Router::draining of the local proxy
    handoff,        \* planned_switchover in progress
    restart,        \* rolling_restart in progress
    detaching,      \* detach_node in progress: its node, or None
    wal,            \* per node, the commits it holds: external
    broken,         \* standbys cut off from their upstream
    clean,          \* history: the old primary stopped as one, with the target streaming
    commits, operations

own == <<draining, handoff, restart, detaching>>
data == <<wal, broken, clean, commits, operations>>
allvars == <<vars, own, data>>

IdleHandoff == [at |-> "idle", old |-> None, nodes |-> {}, target |-> None,
                last |-> None, steady |-> 0, reads |-> 0, todo |-> {}]
IdleRestart == [at |-> "idle", seen |-> EmptyTopology, todo |-> {}, node |-> None]

SwInit ==
    /\ Init
    /\ draining = FALSE
    /\ handoff = IdleHandoff
    /\ restart = IdleRestart
    /\ detaching = None
    /\ wal = [n \in Node |-> {}]
    /\ broken = {}
    /\ clean = FALSE
    /\ commits = 0 /\ operations = 0

Operation(kind) == kind \in Requests /\ operations < MaxOperations /\ operations' = operations + 1

(***************************************************************************)
(* Postgres: commits and streaming.  External.                             *)
(***************************************************************************)
Streams(s, p) ==
    /\ pg[s].up /\ pg[s].in_recovery /\ pg[s].upstream = p /\ s \notin broken
    /\ pg[p].up /\ wal[s] \subseteq wal[p]

Commit(n) ==
    /\ Writer(n) /\ n = topology.primary_node_id /\ commits < MaxCommits
    /\ commits' = commits + 1
    /\ wal' = [wal EXCEPT ![n] = @ \cup {commits + 1}]
    /\ UNCHANGED <<vars, own, broken, clean, operations>>

Receive(s) ==
    /\ \E p \in Node : Streams(s, p) /\ wal[s] # wal[p] /\ wal' = [wal EXCEPT ![s] = wal[p]]
    /\ UNCHANGED <<vars, own, broken, clean, commits, operations>>

StreamBreaks(s) ==
    /\ s \notin broken /\ pg[s].in_recovery
    /\ Fault
    /\ broken' = broken \cup {s}
    /\ UNCHANGED <<topology, leading, pg, reachable, op_in_progress, monitor, tick, run, task, requests,
                   own, wal, clean, commits, operations>>

StreamReturns(s) ==
    /\ s \in broken
    /\ broken' = broken \ {s}
    /\ UNCHANGED <<vars, own, wal, clean, commits, operations>>

\* A rewind or a seed replaces the data of a node by its primary's.
FailoverStep ==
    /\ Next
    /\ wal' = [n \in Node |->
                 IF ~pg'[n].has_data THEN {}
                 ELSE IF task[n].from # None /\ pg'[n] = AsStandby(task[n].from) /\ pg[n] # pg'[n]
                 THEN wal[task[n].from] ELSE wal[n]]
    /\ UNCHANGED <<own, broken, clean, commits, operations>>

(***************************************************************************)
(* planned_switchover and execute_switchover.                              *)
(***************************************************************************)
\* What the steps of an operation leave alone.
frame == <<leading, reachable, monitor, tick, run, task, requests, detaching, broken, commits>>

\* The operation ends: a switchover's guard releases the flag, a restart goes
\* on to wait for the old primary or stops at the failure.
EndHandoff(ok) ==
    /\ handoff' = IdleHandoff
    /\ IF restart.at = "switchover" /\ ok
       THEN restart' = [restart EXCEPT !.at = "wait_old"] /\ UNCHANGED op_in_progress
       ELSE restart' = IdleRestart /\ op_in_progress' = FALSE

HandoffGoto(at) == handoff' = [handoff EXCEPT !.at = at] /\ UNCHANGED <<op_in_progress, restart>>


TriggerSwitchover(target) ==
    /\ Operation("switchover")
    /\ target \in Configured(topology) \ {topology.primary_node_id}
    /\ ~IsExternal(topology, target)
    /\ topology.node_roles[target] = "Replica"
    /\ ~op_in_progress /\ op_in_progress' = TRUE
    /\ handoff' = [IdleHandoff EXCEPT !.at = "lag", !.target = target]
    /\ UNCHANGED <<topology, pg, faults, frame, draining, restart, wal, clean>>

\* wait_for_replica_sync, by positions the monitor has recorded; it ends when
\* the lag seen is small enough, or at its timeout.
LagSeen(p, target) ==
    {SaturatingSub(a, b) : a \in IF p = None THEN {0} ELSE 0..Cardinality(wal[p]),
                           b \in 0..Cardinality(wal[target])}

\* Then the topology is read again, both nodes looked up, and the drain begins.
HandoffLagWait ==
    LET lags == LagSeen(topology.primary_node_id, handoff.target)
        known == {topology.primary_node_id, handoff.target} \subseteq Configured(topology)
    IN  /\ handoff.at = "lag"
        /\ \/ /\ known /\ \E lag \in lags : lag =< MaxLag
              /\ handoff' = [handoff EXCEPT !.at = "demote", !.old = topology.primary_node_id,
                                            !.nodes = Configured(topology)]
              /\ draining' = TRUE
              /\ UNCHANGED <<op_in_progress, restart>>
           \/ /\ ~known \/ \E lag \in lags : lag > MaxLag
              /\ EndHandoff(FALSE)
              /\ UNCHANGED draining
        /\ clean' = FALSE
        /\ UNCHANGED <<topology, pg, faults, frame, wal, operations>>

Old == handoff.old

\* The drain was waited for; then the demote RPC.  Its failure, or the loss of
\* its answer, returns at once.
HandoffDemote ==
    /\ handoff.at = "demote"
    /\ \/ reachable[Old] /\ pg' = Demoted(Old, handoff.target) /\ HandoffGoto("stop") /\ UNCHANGED faults
       \/ reachable[Old] /\ pg' = Demoted(Old, handoff.target) /\ EndHandoff(FALSE) /\ Fault
       \/ ~reachable[Old] /\ EndHandoff(FALSE) /\ UNCHANGED <<pg, faults>>
    /\ UNCHANGED <<topology, frame, draining, wal, clean, operations>>

\* stop_postgres: a fast shutdown ends once the standbys connected to a
\* primary hold all it wrote.  The agent, or the owner of the process later,
\* starts it again in the role its data directory says.
Stopped(n) == {[pg EXCEPT ![n].up = FALSE], [pg EXCEPT ![n].in_recovery = pg[n].standby_signal]}

Flushed(n) == [s \in Node |-> IF Writer(n) /\ Streams(s, n) THEN wal[n] ELSE wal[s]]

HandoffStopSkipped ==       \* mutant: the old primary is not stopped
    /\ handoff.at = "stop"
    /\ reachable[Old] /\ pg[Old].up
    /\ clean' = (Writer(Old) /\ Streams(handoff.target, Old)) /\ HandoffGoto("settle")
    /\ UNCHANGED <<topology, pg, wal, frame, draining, operations, faults>>

\* A failure is only logged, and may be that of a Postgres that stopped.
HandoffStop ==
    /\ handoff.at = "stop"
    /\ \/ /\ reachable[Old] /\ pg[Old].up
          /\ pg' \in Stopped(Old) /\ wal' = Flushed(Old)
          /\ \/ clean' = (Writer(Old) /\ Streams(handoff.target, Old)) /\ HandoffGoto("settle") /\ UNCHANGED faults
             \/ Fault /\ HandoffGoto("settle") /\ UNCHANGED clean
       \/ /\ reachable[Old]
          /\ pg[Old].up => Fault
          /\ ~pg[Old].up => UNCHANGED faults
          /\ HandoffGoto("settle") /\ UNCHANGED <<pg, wal, clean>>
       \/ ~reachable[Old] /\ EndHandoff(FALSE) /\ UNCHANGED <<pg, wal, clean, faults>>
    /\ UNCHANGED <<topology, frame, draining, operations>>

HandoffSettleWaits ==       \* mutant: waits for a target that does not answer
    LET position == IF pg[handoff.target].up THEN Cardinality(wal[handoff.target]) ELSE 0
        steady == IF handoff.last = position THEN handoff.steady + 1 ELSE 0
    IN  /\ handoff.at = "settle" /\ reachable[handoff.target]
        /\ handoff' = IF steady = SteadyReads
                      THEN [handoff EXCEPT !.at = "promote", !.last = None, !.steady = 0, !.reads = 0]
                      ELSE [handoff EXCEPT !.last = position, !.steady = steady]
        /\ UNCHANGED <<op_in_progress, restart, topology, pg, faults, draining, frame, wal, clean, operations>>

\* wait_for_position_to_settle: a Postgres that is down reports zero.  An error
\* returns at once.
HandoffSettle ==
    LET position == IF pg[handoff.target].up THEN Cardinality(wal[handoff.target]) ELSE 0
        steady == IF handoff.last = position THEN handoff.steady + 1 ELSE 0
    IN  /\ handoff.at = "settle"
        /\ IF ~reachable[handoff.target] \/ handoff.reads = MaxReads THEN EndHandoff(FALSE)
           ELSE /\ handoff' = IF steady = SteadyReads
                              THEN [handoff EXCEPT !.at = "promote", !.last = None, !.steady = 0, !.reads = 0]
                              ELSE [handoff EXCEPT !.last = position, !.steady = steady, !.reads = @ + 1]
                /\ UNCHANGED <<op_in_progress, restart>>
        /\ UNCHANGED <<topology, pg, faults, draining, frame, wal, clean, operations>>

Promotable(n) == reachable[n] /\ pg[n].up /\ pg[n].in_recovery

HandoffPromote ==
    /\ handoff.at = "promote"
    /\ \/ Promotable(handoff.target) /\ pg' = Promoted(handoff.target) /\ HandoffGoto("verify") /\ UNCHANGED faults
       \/ ~Promotable(handoff.target) /\ HandoffGoto("restore") /\ UNCHANGED <<pg, faults>>
       \/ /\ Promotable(handoff.target) /\ Fault        \* refused, or the answer is lost
          /\ pg' \in {pg, Promoted(handoff.target)} /\ HandoffGoto("restore")
    /\ UNCHANGED <<topology, draining, frame, wal, clean, operations>>

HandoffVerify ==
    /\ handoff.at = "verify"
    /\ HandoffGoto(IF reachable[handoff.target] /\ Writer(handoff.target) THEN "set_primary" ELSE "restore")
    /\ UNCHANGED <<topology, pg, faults, draining, frame, wal, clean, operations>>

\* The old primary is promoted back, if it can be.
HandoffRestore ==
    /\ handoff.at = "restore"
    /\ pg' = IF Promotable(Old) THEN Promoted(Old) ELSE pg
    /\ draining' = FALSE
    /\ EndHandoff(FALSE)
    /\ UNCHANGED <<topology, faults, frame, wal, clean, operations>>

\* SetPrimary, and the end of the drain; a write that fails returns at once.
\* The position on record of the target is set to the one of the snapshot.
HandoffSetPrimary ==
    /\ handoff.at = "set_primary"
    /\ Write([type |-> "SetPrimary", node_id |-> handoff.target, at_lsn |-> 0])
    /\ IF leading
       THEN /\ draining' = FALSE
            /\ handoff' = [handoff EXCEPT !.at = "repoint", !.todo = handoff.nodes \ {handoff.target}]
            /\ UNCHANGED <<op_in_progress, restart>>
       ELSE EndHandoff(FALSE) /\ UNCHANGED draining
    /\ UNCHANGED <<pg, faults, frame, wal, clean, operations>>

\* Slots, repoint_replicas on every other node, then RecordFailover.
HandoffRepoint ==
    /\ handoff.at = "repoint"
    /\ \/ /\ handoff.todo # {}
          /\ \E n \in handoff.todo :
                /\ pg' = IF reachable[n] THEN Demoted(n, handoff.target) ELSE pg
                /\ handoff' = [handoff EXCEPT !.todo = @ \ {n}]
          /\ UNCHANGED <<topology, op_in_progress, restart>>
       \/ /\ handoff.todo = {}
          /\ Write([type |-> "RecordFailover",
                    event |-> [old_primary |-> Old, new_primary |-> handoff.target, ran_degraded |-> FALSE]])
          /\ EndHandoff(TRUE)
          /\ UNCHANGED pg
    /\ UNCHANGED <<faults, draining, frame, wal, clean, operations>>

HandoffStep ==
    \/ HandoffLagWait \/ HandoffDemote \/ HandoffStop \/ HandoffSettle \/ HandoffPromote
    \/ HandoffVerify \/ HandoffRestore \/ HandoffSetPrimary \/ HandoffRepoint

(***************************************************************************)
(* rolling_restart.                                                        *)
(***************************************************************************)
StartRestart ==
    /\ Operation("restart")
    /\ leading
    /\ ~op_in_progress /\ op_in_progress' = TRUE
    /\ restart' = [IdleRestart EXCEPT !.at = "plan"]
    /\ UNCHANGED <<topology, pg, faults, frame, draining, handoff, wal, clean>>

EndRestart == restart' = IdleRestart /\ op_in_progress' = FALSE

\* standbys_in_order refuses a cluster that already misses one.
RestartPlan ==
    LET standbys == {n \in Configured(topology) \ {topology.primary_node_id} : ~IsExternal(topology, n)}
        refused == \/ topology.primary_node_id = None
                   \/ \E n \in standbys : topology.node_roles[n] # "Replica"
    IN  /\ restart.at = "plan"
        /\ IF refused THEN EndRestart
           ELSE /\ restart' = [restart EXCEPT !.at = "stop", !.seen = Snapshot, !.todo = standbys]
                /\ UNCHANGED op_in_progress
        /\ UNCHANGED <<topology, pg, faults, frame, draining, handoff, wal, clean, operations>>

\* restart_node: the RPC's failure stops the restart.
RestartNode(n, next) ==
    \/ /\ reachable[n] /\ pg[n].up
       /\ pg' \in Stopped(n) /\ wal' = Flushed(n)
       /\ restart' = next
       /\ op_in_progress' = (next.at # "idle")
       /\ UNCHANGED faults
    \/ /\ ~reachable[n] \/ ~pg[n].up
       /\ EndRestart
       /\ UNCHANGED <<pg, wal, faults>>

RestartStandbyAll ==        \* mutant: does not wait for one before the next
    /\ restart.at = "stop" /\ restart.todo # {}
    /\ \E n \in restart.todo :
          RestartNode(n, [restart EXCEPT !.at = IF restart.todo = {n} THEN "wait" ELSE "stop",
                                         !.node = n, !.todo = @ \ {n}])
    /\ UNCHANGED <<topology, frame, draining, handoff, clean, operations>>

RestartStandby ==
    /\ restart.at = "stop" /\ restart.todo # {}
    /\ \E n \in restart.todo :
          RestartNode(n, [restart EXCEPT !.at = "wait", !.node = n, !.todo = @ \ {n}])
    /\ UNCHANGED <<topology, frame, draining, handoff, clean, operations>>

RestartOnlyNode ==
    /\ restart.at = "stop" /\ restart.todo = {} /\ restart.node = None
    /\ RestartNode(restart.seen.primary_node_id, IdleRestart)
    /\ UNCHANGED <<topology, frame, draining, handoff, clean, operations>>

\* wait_until_streaming, by what the current primary reports; or
\* CATCH_UP_TIMEOUT passes.
StreamsAgain(n) ==
    LET p == topology.primary_node_id
    IN  p \in Configured(topology) /\ reachable[p] /\ Streams(n, p)

RestartWait ==
    LET n == IF restart.at = "wait" THEN restart.node ELSE restart.seen.primary_node_id
    IN  /\ restart.at \in {"wait", "wait_old"}
        /\ IF StreamsAgain(n) /\ restart.at = "wait"
           THEN restart' = [restart EXCEPT !.at = "stop"] /\ UNCHANGED op_in_progress
           ELSE EndRestart
        /\ UNCHANGED <<topology, pg, faults, frame, draining, handoff, wal, clean, operations>>

\* Every standby is back: the most current one takes over.
RestartSwitchover ==
    LET old == restart.seen.primary_node_id
        eligible == Eligible(restart.seen, old)
    IN  /\ restart.at = "stop" /\ restart.todo = {} /\ restart.node # None
        /\ \/ \E c \in eligible :
                 /\ \A s \in eligible : Cardinality(wal[c]) >= Cardinality(wal[s])
                 /\ handoff' = [IdleHandoff EXCEPT !.at = "lag", !.target = c]
                 /\ restart' = [restart EXCEPT !.at = "switchover"]
                 /\ UNCHANGED op_in_progress
           \/ eligible = {} /\ EndRestart /\ UNCHANGED handoff
        /\ UNCHANGED <<topology, pg, faults, frame, draining, wal, clean, operations>>

RestartStep ==
    RestartPlan \/ RestartStandby \/ RestartOnlyNode \/ RestartWait \/ RestartSwitchover

(***************************************************************************)
(* The operator's other requests.                                          *)
(***************************************************************************)
\* What a request that only writes the topology leaves alone.
request == <<leading, pg, reachable, monitor, tick, run, requests, faults, draining, handoff, restart,
             wal, broken, clean, commits>>

EnterMaintenance(n) ==
    /\ Operation("maintenance")
    /\ n \in Configured(topology) \ {topology.primary_node_id}
    /\ Write([type |-> "MarkMaintenance", node_id |-> n])
    /\ UNCHANGED <<request, op_in_progress, task, detaching>>

ExitMaintenance(n) ==
    /\ Operation("maintenance")
    /\ n \in Configured(topology) /\ topology.node_roles[n] = "Maintenance"
    /\ Write([type |-> "MarkReplica", node_id |-> n, flush_lsn |-> 0])
    /\ UNCHANGED <<request, op_in_progress, task, detaching>>

AddNodeRequest(n, external) ==
    /\ Operation("nodes")
    /\ Write([type |-> "AddNode", node_id |-> n, config |-> [external |-> external, priority |-> 1]])
    /\ UNCHANGED <<request, op_in_progress, task, detaching>>

RemoveNodeRequest(n) ==
    /\ Operation("nodes")
    /\ Write([type |-> "RemoveNode", node_id |-> n])
    /\ UNCHANGED <<request, op_in_progress, task, detaching>>

\* seed_node: a SeedPlan for any node but the primary, run apart.
SeedNode(n, force) ==
    /\ Operation("seed")
    /\ n \in Configured(topology) /\ topology.primary_node_id \notin {None, n}
    /\ task[n].at = "none"
    /\ task' = [task EXCEPT ![n] = [at |-> IF force THEN "force_slot" ELSE "seed_slot",
                                    from |-> topology.primary_node_id]]
    /\ UNCHANGED <<request, topology, op_in_progress, detaching>>

\* detach_node: under the flag, the agent promotes the node for good ...
DetachNode(n) ==
    /\ Operation("detach")
    /\ IsExternal(topology, n) /\ leading /\ ~op_in_progress
    /\ detaching' = n /\ op_in_progress' = TRUE
    /\ UNCHANGED <<request, topology, task>>

EndDetach == detaching' = None /\ op_in_progress' = FALSE

DetachPromote ==
    /\ detaching # None /\ pg[detaching].in_recovery
    /\ \/ Promotable(detaching) /\ pg' = Promoted(detaching) /\ UNCHANGED <<detaching, op_in_progress>>
       \/ ~Promotable(detaching) /\ EndDetach /\ UNCHANGED pg
    /\ UNCHANGED <<topology, leading, reachable, monitor, tick, run, task, bounds, draining, handoff, restart, data>>

\* ... and the cluster forgets it.
DetachRemove ==
    /\ detaching # None /\ ~pg[detaching].in_recovery
    /\ Write([type |-> "RemoveNode", node_id |-> detaching])
    /\ EndDetach
    /\ UNCHANGED <<leading, pg, reachable, monitor, tick, run, task, bounds, draining, handoff, restart, data>>

SwNext ==
    \/ FailoverStep \/ HandoffStep \/ RestartStep \/ StartRestart \/ DetachPromote \/ DetachRemove
    \/ \E n \in Node :
          \/ Commit(n) \/ Receive(n) \/ StreamBreaks(n) \/ StreamReturns(n)
          \/ TriggerSwitchover(n) \/ EnterMaintenance(n) \/ ExitMaintenance(n)
          \/ RemoveNodeRequest(n) \/ DetachNode(n)
          \/ \E flag \in BOOLEAN : AddNodeRequest(n, flag) \/ SeedNode(n, flag)

\* The tasks of the runtime keep running.  Nothing makes an outage end.
SwFairness ==
    /\ WF_allvars(HandoffStep) /\ WF_allvars(RestartStep)
    /\ WF_allvars(DetachPromote) /\ WF_allvars(DetachRemove)
    /\ \A r \in Runner : WF_vars(RunStep(r))

SwSpec == SwInit /\ [][SwNext]_allvars /\ SwFairness

(***************************************************************************)
(* Properties.                                                             *)
(***************************************************************************)
HandoffAt == {"idle", "lag", "demote", "stop", "settle", "promote", "verify", "restore", "set_primary", "repoint"}


\* A switchover whose old primary stopped while the target was streaming loses
\* no commit, however many were made during the drain, whatever the monitor,
\* a crash or a rejoin does meanwhile.
NothingLost ==
    [][HandoffSetPrimary /\ clean => wal[Old] \subseteq wal[handoff.target]]_allvars

\* While nothing fails, a rolling restart keeps every node but one in service,
\* the switchover in it included.  (seed_node does not take the flag: an
\* operator may empty a node meanwhile.)
RestartsOneAtATime ==
    restart.at # "idle" /\ faults = 0 /\ (\A n \in Node : pg[n].has_data)
        => Cardinality({n \in Node : ~pg[n].up}) =< 1


\* Every operation ends, and releases the flag, in whatever state it leaves
\* the cluster.
OperationsEnd == []<>~op_in_progress
=============================================================================
