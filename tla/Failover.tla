------------------------------ MODULE Failover ------------------------------
(***************************************************************************)
(* The node monitor, automatic failover, the operator's failover request,  *)
(* and the rejoin of stale primaries, over nodes that crash, restart and   *)
(* become unreachable.                                                     *)
(*                                                                         *)
(* Source: pgcluster/src/node_monitor/{mod,failure_state,replication}.rs,  *)
(* pgcluster/src/failover/*.rs, pgcluster/src/api/failover.rs, and the     *)
(* agent RPCs they call (vk-agent/src/{server,seed,standby}.rs).           *)
(*                                                                         *)
(* One pgcluster instance is followed: it leads the Raft group with its    *)
(* lease held, or it does not, and then its writes fail.  The topology is  *)
(* the committed one (TopologyStore relates it to each instance's copy),   *)
(* without its version.  Log positions are left to Replication: here       *)
(* any answering standby may be the most current.                          *)
(***************************************************************************)
EXTENDS Topology

CONSTANTS
    Threshold,      \* health_check_failures_before_failover
    Mode,           \* the cluster's replication mode
    FirstPrimary,   \* the primary at the start
    External,       \* external standbys
    Unpolled,       \* replicas the monitor has not polled yet: Unknown
    MayCrash,       \* nodes whose Postgres may crash
    MayLoseContact, \* nodes whose agent may become unreachable
    MayFall,        \* whether leadership may be lost, and with it writes
    MaxFaults,      \* bound: crashes, lost contact, lost answers, lost leadership
    MaxRequests     \* bound: operator failovers

ASSUME ThresholdAssumption == Threshold \in Nat \ {0}
ASSUME ModeAssumption == Mode \in ReplicationMode
ASSUME StartAssumption ==
    FirstPrimary \in Node /\ Unpolled \subseteq Node \ {FirstPrimary} /\ External \subseteq Node \ {FirstPrimary}
ASSUME FaultsAssumption == MayCrash \subseteq Node /\ MayLoseContact \subseteq Node /\ MayFall \in BOOLEAN
ASSUME BoundsAssumption == MaxFaults \in Nat /\ MaxRequests \in Nat

\* A failover is run by the monitor's loop or by a request's task.
Runner == {"monitor", "request"}

\* The monitor's two StalePrimaries: stale_primaries and unseeded.
Tracker == {"stale", "unseeded"}

VARIABLES
    topology,       \* the committed topology
    leading,        \* this instance leads, with its lease held
    pg,             \* per node, its Postgres: external
    reachable,      \* per node, whether its agent can be reached
    op_in_progress,
    failures,       \* FailureTracker, counts capped at Threshold
    sightings,      \* per tracker, counts capped at Threshold
    cooling,        \* per tracker, nodes whose last attempt is too recent
    tick,           \* the monitor's tick
    run,            \* per runner, its failover
    task,           \* per node, its background rejoin or seed
    faults, requests

vars == <<topology, leading, pg, reachable, op_in_progress, failures, sightings,
          cooling, tick, run, task, faults, requests>>

monitor == <<failures, sightings, cooling>>
bounds == <<faults, requests>>

Postgres == [up : BOOLEAN, has_data : BOOLEAN, in_recovery : BOOLEAN,
             standby_signal : BOOLEAN, upstream : Node \cup {None}]

\* A node that accepts writes.
Writer(n) == pg[n].up /\ ~pg[n].in_recovery

IdleRun == [at |-> "idle", seen |-> EmptyTopology, failed |-> None, candidate |-> None, todo |-> {}]
IdleTick == [at |-> "idle", seen |-> EmptyTopology, results |-> << >>]
NoTask == [at |-> "none", from |-> None]

\* A cluster in service: one primary, every other node streaming from it.
Init ==
    /\ topology = [EmptyTopology EXCEPT
           !.primary_node_id = FirstPrimary,
           !.node_roles = [n \in Node |-> IF n = FirstPrimary THEN "Primary"
                                          ELSE IF n \in Unpolled THEN "Unknown" ELSE "Replica"],
           !.node_configs = [n \in Node |-> [external |-> n \in External, priority |-> 1]],
           !.last_flush_lsns = [n \in Node |-> 0],
           !.replication_mode = Mode]
    /\ pg = [n \in Node |-> [up |-> TRUE, has_data |-> TRUE, in_recovery |-> n # FirstPrimary,
                             standby_signal |-> n # FirstPrimary,
                             upstream |-> IF n = FirstPrimary THEN None ELSE FirstPrimary]]
    /\ leading = TRUE
    /\ reachable = [n \in Node |-> TRUE]
    /\ op_in_progress = FALSE
    /\ failures = [n \in Node |-> 0]
    /\ sightings = [t \in Tracker |-> [n \in Node |-> 0]]
    /\ cooling = [t \in Tracker |-> {}]
    /\ tick = IdleTick
    /\ run = [r \in Runner |-> IdleRun]
    /\ task = [n \in Node |-> NoTask]
    /\ faults = 0
    /\ requests = 0

\* The topology as a tick or a request reads it.  Neither looks at the history.
Snapshot == [topology EXCEPT !.failover_history = << >>]

\* client_write: only the leader's succeed.
Write(cmd) == topology' = IF leading THEN Change(topology, cmd) ELSE topology

Fault == faults < MaxFaults /\ faults' = faults + 1

(***************************************************************************)
(* The world: Postgres and the network.  External.                         *)
(***************************************************************************)
PgCrash(n) ==
    /\ n \in MayCrash /\ pg[n].up
    /\ Fault
    /\ pg' = [pg EXCEPT ![n].up = FALSE]
    /\ UNCHANGED <<topology, leading, reachable, op_in_progress, monitor, tick, run, task, requests>>

\* It comes back in the role its data directory says.
PgStart(n) ==
    /\ ~pg[n].up /\ pg[n].has_data
    /\ pg' = [pg EXCEPT ![n].up = TRUE, ![n].in_recovery = pg[n].standby_signal]
    /\ UNCHANGED <<topology, leading, reachable, op_in_progress, monitor, tick, run, task, bounds>>

LoseContact(n) ==
    /\ n \in MayLoseContact /\ reachable[n]
    /\ Fault
    /\ reachable' = [reachable EXCEPT ![n] = FALSE]
    /\ UNCHANGED <<topology, leading, pg, op_in_progress, monitor, tick, run, task, requests>>

RegainContact(n) ==
    /\ ~reachable[n]
    /\ reachable' = [reachable EXCEPT ![n] = TRUE]
    /\ UNCHANGED <<topology, leading, pg, op_in_progress, monitor, tick, run, task, bounds>>

LoseLeadership ==
    /\ MayFall /\ leading
    /\ Fault
    /\ leading' = FALSE
    /\ UNCHANGED <<topology, pg, reachable, op_in_progress, monitor, tick, run, task, requests>>

RegainLeadership ==
    /\ ~leading
    /\ leading' = TRUE
    /\ UNCHANGED <<topology, pg, reachable, op_in_progress, monitor, tick, run, task, bounds>>

\* An agent cut off from the leader hears no heartbeat, and fences itself.
SelfFence(n) ==
    /\ ~reachable[n] /\ pg[n].up
    /\ pg' = [pg EXCEPT ![n].up = FALSE]
    /\ UNCHANGED <<topology, leading, reachable, op_in_progress, monitor, tick, run, task, bounds>>

\* The demote RPC: a standby follows the new primary at once, a primary only
\* after it restarts.
Demoted(node, primary) ==
    [pg EXCEPT ![node].standby_signal = TRUE, ![node].upstream = primary]

(***************************************************************************)
(* trigger_failover, one awaited call at a time.                           *)
(***************************************************************************)
EndRunHoldingFlag(r) ==     \* mutant: the flag is never released
    /\ run' = [run EXCEPT ![r] = IdleRun]
    /\ failures' = IF r = "monitor" THEN [failures EXCEPT ![run[r].failed] = 0] ELSE failures
    /\ UNCHANGED <<op_in_progress, sightings, cooling>>

\* The failover ends.  The monitor then releases its flag and forgets the
\* failures; the request's guard releases the flag.
EndRun(r) ==
    /\ run' = [run EXCEPT ![r] = IdleRun]
    /\ op_in_progress' = FALSE
    /\ failures' = IF r = "monitor" THEN [failures EXCEPT ![run[r].failed] = 0] ELSE failures
    /\ UNCHANGED <<sightings, cooling>>

Goto(r, at) == run' = [run EXCEPT ![r].at = at]

\* MarkOffline comes first, and a write that fails stops everything.
RunMarkOffline(r) ==
    /\ run[r].at = "mark"
    /\ Write([type |-> "MarkOffline", node_id |-> run[r].failed])
    /\ IF leading THEN Goto(r, "pick") /\ UNCHANGED <<op_in_progress, monitor>>
       ELSE /\ run' = [run EXCEPT ![r] = IdleRun]
            /\ op_in_progress' = FALSE
            /\ UNCHANGED monitor
    /\ UNCHANGED <<leading, pg, reachable, tick, task, bounds>>

\* live_positions: the standbys, by the topology seen, that answer.
LivePositions(seen, failed) ==
    {n \in Configured(seen) \ {failed} :
        /\ seen.node_roles[n] = "Replica" /\ ~IsExternal(seen, n)
        /\ reachable[n] /\ pg[n].up /\ pg[n].in_recovery}

\* pick_live_candidate: with SyncStrict, only if every standby answered.
Eligible(seen, failed) ==
    LET answered == LivePositions(seen, failed)
        standbys == {n \in Configured(seen) \ {failed} : ~IsExternal(seen, n)}
    IN  IF seen.replication_mode = "SyncStrict" /\ Cardinality(answered) < Cardinality(standbys)
        THEN {} ELSE answered

RunPickUnchecked(r) ==      \* mutant: no answer is not an abort
    /\ run[r].at = "pick"
    /\ LET eligible == Eligible(run[r].seen, run[r].failed)
       IN  \/ \E c \in eligible : run' = [run EXCEPT ![r].candidate = c, ![r].at = "promote"]
           \/ eligible = {} /\ Goto(r, "set_primary")
    /\ UNCHANGED <<topology, leading, pg, reachable, op_in_progress, monitor, tick, task, bounds>>

RunPick(r) ==
    /\ run[r].at = "pick"
    /\ LET eligible == Eligible(run[r].seen, run[r].failed)
       IN  \/ /\ \E c \in eligible : run' = [run EXCEPT ![r].candidate = c, ![r].at = "promote"]
              /\ UNCHANGED <<op_in_progress, monitor>>
           \/ eligible = {} /\ EndRun(r)
    /\ UNCHANGED <<topology, leading, pg, reachable, tick, task, bounds>>

Promoted(n) == [pg EXCEPT ![n].in_recovery = FALSE, ![n].standby_signal = FALSE, ![n].upstream = None]

\* promote_node: the standby is promoted and says so.
RunPromote(r) ==
    /\ run[r].at = "promote"
    /\ reachable[run[r].candidate] /\ pg[run[r].candidate].up /\ pg[run[r].candidate].in_recovery
    /\ pg' = Promoted(run[r].candidate)
    /\ Goto(r, "verify")
    /\ UNCHANGED <<topology, leading, reachable, op_in_progress, monitor, tick, task, bounds>>

\* The RPC fails: the node cannot be reached or refuses, or, a fault, it is
\* promoted and the answer is lost.
RunPromoteFails(r) ==
    /\ run[r].at = "promote"
    /\ LET c == run[r].candidate
           able == reachable[c] /\ pg[c].up /\ pg[c].in_recovery
       IN  \/ ~able /\ UNCHANGED <<pg, faults>>
           \/ able /\ pg' = Promoted(c) /\ Fault
    /\ EndRun(r)
    /\ UNCHANGED <<topology, leading, reachable, tick, task, requests>>

RunVerify(r) ==
    /\ run[r].at = "verify"
    /\ IF reachable[run[r].candidate] /\ Writer(run[r].candidate)
       THEN Goto(r, "set_primary") /\ UNCHANGED <<op_in_progress, monitor>>
       ELSE EndRun(r)
    /\ UNCHANGED <<topology, leading, pg, reachable, tick, task, bounds>>

\* SetPrimary: "Continue anyway" if the write fails.
RunSetPrimary(r) ==
    /\ run[r].at = "set_primary"
    /\ Write([type |-> "SetPrimary", node_id |-> run[r].candidate, at_lsn |-> 0])
    /\ Goto(r, "record")
    /\ UNCHANGED <<leading, pg, reachable, op_in_progress, monitor, tick, task, bounds>>

\* RecordFailover, and the replicas to repoint: by the topology seen.
RunRecord(r) ==
    /\ run[r].at = "record"
    /\ LET seen == run[r].seen
           others == Configured(seen) \ {run[r].failed, run[r].candidate}
       IN  /\ Write([type |-> "RecordFailover",
                     event |-> [old_primary |-> run[r].failed, new_primary |-> run[r].candidate,
                                ran_degraded |-> seen.sync_degraded]])
           /\ run' = [run EXCEPT ![r].at = "repoint",
                 ![r].todo = {n \in others : seen.node_roles[n] \in {"Replica", "Unknown", None}}]
    /\ UNCHANGED <<leading, pg, reachable, op_in_progress, monitor, tick, task, bounds>>

\* repoint_replicas, one Demote RPC at a time; errors are only logged.
RunRepoint(r) ==
    /\ run[r].at = "repoint"
    /\ \/ /\ run[r].todo = {}
          /\ EndRun(r)
          /\ UNCHANGED pg
       \/ \E n \in run[r].todo :
             /\ run' = [run EXCEPT ![r].todo = @ \ {n}]
             /\ pg' = IF reachable[n] THEN Demoted(n, run[r].candidate) ELSE pg
             /\ UNCHANGED <<op_in_progress, monitor>>
    /\ UNCHANGED <<topology, leading, reachable, tick, task, bounds>>
(***************************************************************************)
(* POST /failover: take the flag, read the topology, and run in a task.    *)
(***************************************************************************)
RequestFailoverUnguarded(failed) ==     \* mutant: the flag is set, not compared
    /\ requests < MaxRequests
    /\ run["request"].at = "idle"
    /\ failed \in Configured(topology)
    /\ op_in_progress' = TRUE
    /\ run' = [run EXCEPT !["request"] = [IdleRun EXCEPT !.at = "mark", !.seen = Snapshot, !.failed = failed]]
    /\ requests' = requests + 1
    /\ UNCHANGED <<topology, leading, pg, reachable, monitor, tick, task, faults>>

RequestFailover(failed) ==
    /\ requests < MaxRequests
    /\ ~op_in_progress
    /\ failed \in Configured(topology)
    /\ op_in_progress' = TRUE
    /\ run' = [run EXCEPT !["request"] = [IdleRun EXCEPT !.at = "mark", !.seen = Snapshot, !.failed = failed]]
    /\ requests' = requests + 1
    /\ UNCHANGED <<topology, leading, pg, reachable, monitor, tick, task, faults>>

(***************************************************************************)
(* NodeMonitor::run and poll_all_nodes.                                    *)
(***************************************************************************)
\* A tick reads the topology, once, and only on the leader.
TickStart ==
    /\ tick.at = "idle" /\ leading
    /\ tick' = [IdleTick EXCEPT !.at = "check", !.seen = Snapshot]
    /\ UNCHANGED <<topology, leading, pg, reachable, op_in_progress, monitor, run, task, bounds>>

\* check_node on every node, in parallel.  A WAL receiver names its primary
\* only while connected to it.
CheckNode(n) ==
    [reachable |-> reachable[n], pg_running |-> pg[n].up, in_recovery |-> pg[n].in_recovery,
     has_data |-> pg[n].has_data,
     target |-> IF pg[n].upstream # None /\ pg[pg[n].upstream].up THEN pg[n].upstream ELSE None]

TickCheck ==
    /\ tick.at = "check"
    /\ tick' = [tick EXCEPT !.at = "process",
                            !.results = [n \in Configured(tick.seen) |-> CheckNode(n)]]
    /\ UNCHANGED <<topology, leading, pg, reachable, op_in_progress, monitor, run, task, bounds>>

TickEnd ==
    /\ tick.at = "process" /\ DOMAIN tick.results = {} /\ run["monitor"].at = "idle"
    /\ tick' = IdleTick
    /\ UNCHANGED <<topology, leading, pg, reachable, op_in_progress, monitor, run, task, bounds>>

\* The results are handled one at a time.
Handles(n) ==
    /\ tick.at = "process" /\ n \in DOMAIN tick.results /\ run["monitor"].at = "idle"
    /\ tick' = [tick EXCEPT !.results = [m \in DOMAIN @ \ {n} |-> @[m]]]

Healthy(n) == tick.results[n].reachable /\ tick.results[n].pg_running
Empty(n) == tick.results[n].reachable /\ ~tick.results[n].has_data /\ n # tick.seen.primary_node_id

IsStalePrimaryUnheld(n) ==      \* mutant: does not hold back during a failover
    /\ ~tick.results[n].in_recovery
    /\ topology.primary_node_id \notin {None, n}

\* is_stale_primary, by the latest topology.
IsStalePrimary(n) ==
    /\ ~tick.results[n].in_recovery
    /\ topology.primary_node_id \notin {None, n}
    /\ ~op_in_progress

CappedIncrement(count) == IF count < Threshold THEN count + 1 ELSE count

\* sighted, then SeedPlan::new from the latest topology and a task that runs
\* apart.  One attempt per cooldown.
Sighted(tracker, n, firstStep) ==
    LET seen == CappedIncrement(sightings[tracker][n])
        acts == seen >= Threshold /\ n \notin cooling[tracker]
    IN  /\ sightings' = [sightings EXCEPT ![tracker][n] = seen]
        /\ cooling' = IF acts THEN [cooling EXCEPT ![tracker] = @ \cup {n}] ELSE cooling
        /\ task' = IF acts /\ topology.primary_node_id \notin {None, n}
                   THEN [task EXCEPT ![n] = [at |-> firstStep, from |-> topology.primary_node_id]]
                   ELSE task

HandleEmpty(n) ==
    /\ Handles(n) /\ Empty(n)
    /\ Sighted("unseeded", n, "seed_slot")
    /\ UNCHANGED <<topology, leading, pg, reachable, op_in_progress, failures, run, bounds>>

HandleStalePrimary(n) ==
    /\ Handles(n) /\ ~Empty(n) /\ Healthy(n) /\ IsStalePrimary(n)
    /\ failures' = [failures EXCEPT ![n] = 0]
    /\ Sighted("stale", n, "rejoin_slot")
    /\ UNCHANGED <<topology, leading, pg, reachable, op_in_progress, run, bounds>>

\* A healthy node: its sightings as a stale primary are forgotten, those as an
\* empty node are not; the recovered primary is recorded again; a node without a
\* role becomes a replica, and is repointed if it follows another node.  Both
\* go by the topology the tick read.
HandleHealthy(n) ==
    LET seen == tick.seen
        recovered == /\ n = seen.primary_node_id /\ seen.node_roles[n] = "Offline"
                     /\ ~tick.results[n].in_recovery
        roleless == /\ n # seen.primary_node_id
                    /\ seen.node_roles[n] \in {"Offline", "Unknown", "Maintenance"}
        astray == /\ roleless /\ tick.results[n].in_recovery
                  /\ seen.primary_node_id \notin {None, tick.results[n].target}
    IN  /\ Handles(n) /\ ~Empty(n) /\ Healthy(n) /\ ~IsStalePrimary(n)
        /\ failures' = [failures EXCEPT ![n] = 0]
        /\ sightings' = [sightings EXCEPT !["stale"][n] = 0]
        /\ \/ recovered /\ Write([type |-> "SetPrimary", node_id |-> n, at_lsn |-> 0])
           \/ roleless /\ Write([type |-> "MarkReplica", node_id |-> n, flush_lsn |-> 0])
           \/ ~recovered /\ ~roleless /\ UNCHANGED topology
        /\ pg' = IF astray /\ reachable[n] THEN Demoted(n, seen.primary_node_id) ELSE pg
        /\ UNCHANGED <<leading, reachable, op_in_progress, cooling, run, task, bounds>>

FailsOverByRole(n, count) ==    \* mutant: an aborted attempt is not repeated
    count >= Threshold /\ tick.seen.node_roles[n] = "Primary" /\ ~op_in_progress

\* A node that failed its check.  By ID, not role: the primary is failed over
\* again after an attempt that aborted.
FailsOver(n, count) == count >= Threshold /\ n = tick.seen.primary_node_id /\ ~op_in_progress

HandleFailure(n) ==
    LET count == IF tick.seen.node_roles[n] = "Maintenance" THEN failures[n]
                 ELSE CappedIncrement(failures[n])
        starts == tick.seen.node_roles[n] # "Maintenance" /\ FailsOver(n, count)
    IN  /\ Handles(n) /\ ~Empty(n) /\ ~Healthy(n)
        /\ failures' = [failures EXCEPT ![n] = count]
        /\ op_in_progress' = (op_in_progress \/ starts)
        /\ run' = IF starts
                  THEN [run EXCEPT !["monitor"] =
                           [IdleRun EXCEPT !.at = "mark", !.seen = tick.seen, !.failed = n]]
                  ELSE run
        /\ UNCHANGED <<topology, leading, pg, reachable, sightings, cooling, task, bounds>>

\* REJOIN_COOLDOWN passes: a minute, longer than a tick's results stay in
\* hand.  While a seed or rewind still runs, the agent would refuse a second
\* one, so the end of its cooldown changes nothing.
CooldownPasses(tracker, n) ==
    /\ n \in cooling[tracker] /\ task[n].at = "none" /\ tick.at = "idle"
    /\ cooling' = [cooling EXCEPT ![tracker] = @ \ {n}]
    /\ UNCHANGED <<topology, leading, pg, reachable, op_in_progress, failures, sightings, tick, run, task, bounds>>

(***************************************************************************)
(* SeedPlan::rejoin and SeedPlan::run: the slot on the planned primary,    *)
(* then the node's agent rewinds or seeds.                                 *)
(***************************************************************************)
TaskSlot(n) ==
    /\ task[n].at \in {"rejoin_slot", "force_slot", "seed_slot"}
    /\ task' = [task EXCEPT ![n] =
           IF ~pg[task[n].from].up THEN NoTask
           ELSE [@ EXCEPT !.at = CASE @ = "rejoin_slot" -> "rewind"
                                   [] @ = "force_slot" -> "force_seed"
                                   [] @ = "seed_slot" -> "seed"]]
    /\ UNCHANGED <<topology, leading, pg, reachable, op_in_progress, monitor, tick, run, bounds>>

AsStandby(from) == [up |-> TRUE, has_data |-> TRUE, in_recovery |-> TRUE,
                    standby_signal |-> TRUE, upstream |-> from]

\* rewind stops Postgres, and leaves it stopped when pg_rewind fails.
TaskRewind(n) ==
    /\ task[n].at = "rewind"
    /\ \/ /\ ~reachable[n]
          /\ task' = [task EXCEPT ![n] = NoTask]
          /\ UNCHANGED pg
       \/ /\ reachable[n] /\ pg[n].has_data /\ task[n].from # n /\ pg[task[n].from].up
          /\ pg' = [pg EXCEPT ![n] = AsStandby(task[n].from)]
          /\ task' = [task EXCEPT ![n] = NoTask]
       \/ /\ reachable[n]
          /\ pg' = [pg EXCEPT ![n].up = FALSE]
          /\ task' = [task EXCEPT ![n].at = "force_slot"]
    /\ UNCHANGED <<topology, leading, reachable, op_in_progress, monitor, tick, run, bounds>>

\* The directory is emptied of what it held.
clear_contents(p) == [p EXCEPT !.up = FALSE, !.has_data = FALSE]

\* pg_basebackup into the empty directory, from a server that runs.
base_backup(p, from) == IF pg[from].up THEN AsStandby(from) ELSE p

\* seed, which refuses a directory with data unless forced.
TaskSeed(n) ==
    LET refused == task[n].at = "seed" /\ (pg[n].up \/ pg[n].has_data)
    IN  /\ task[n].at \in {"seed", "force_seed"}
        /\ task' = [task EXCEPT ![n] = NoTask]
        /\ pg' = IF ~reachable[n] \/ refused THEN pg
                 ELSE [pg EXCEPT ![n] = base_backup(clear_contents(@), task[n].from)]
        /\ UNCHANGED <<topology, leading, reachable, op_in_progress, monitor, tick, run, bounds>>

RunStep(r) ==
    RunMarkOffline(r) \/ RunPick(r) \/ RunPromote(r) \/ RunPromoteFails(r) \/ RunVerify(r)
    \/ RunSetPrimary(r) \/ RunRecord(r) \/ RunRepoint(r)

TickStep ==
    \/ TickStart \/ TickCheck \/ TickEnd
    \/ \E n \in Node : HandleEmpty(n) \/ HandleStalePrimary(n) \/ HandleHealthy(n) \/ HandleFailure(n)

TaskStep(n) == TaskSlot(n) \/ TaskRewind(n) \/ TaskSeed(n)

World ==
    \/ LoseLeadership \/ RegainLeadership
    \/ \E n \in Node : PgCrash(n) \/ PgStart(n) \/ LoseContact(n) \/ RegainContact(n) \/ SelfFence(n)

Next ==
    \/ World \/ TickStep
    \/ \E r \in Runner : RunStep(r)
    \/ \E n \in Node : RequestFailover(n) \/ TaskStep(n) \/ \E t \in Tracker : CooldownPasses(t, n)

\* The tasks of the runtime keep running, and time passes.  Nothing makes a
\* node come back or a request arrive.
Fairness ==
    /\ WF_vars(TickStep)
    /\ \A r \in Runner : WF_vars(RunStep(r))
    /\ \A n \in Node : WF_vars(TaskStep(n)) /\ \A t \in Tracker : SF_vars(CooldownPasses(t, n))

Spec == Init /\ [][Next]_vars /\ Fairness

(***************************************************************************)
(* Properties.                                                             *)
(***************************************************************************)
RunAt == {"idle", "mark", "pick", "promote", "verify", "set_primary", "record", "repoint"}

\* The types of the state.  A failover past the choice of a candidate has one:
\* the code cannot promote, record or repoint to a node that no standby's
\* answer named.
TypeOK ==
    /\ topology \in ClusterTopology
    /\ leading \in BOOLEAN
    /\ pg \in [Node -> Postgres]
    /\ reachable \in [Node -> BOOLEAN]
    /\ op_in_progress \in BOOLEAN
    /\ failures \in [Node -> 0..Threshold]
    /\ sightings \in [Tracker -> [Node -> 0..Threshold]]
    /\ cooling \in [Tracker -> SUBSET Node]
    /\ \A r \in Runner :
           /\ run[r].at \in RunAt
           /\ run[r].at # "idle" => run[r].failed \in Node
           /\ run[r].at \in RunAt \ {"idle", "mark", "pick"} => run[r].candidate \in Node

\* The monitor's failover and the operator's never run at once, and
\* op_in_progress is set exactly while one runs: on every path out of
\* trigger_failover, aborted or not, it is released.
OneOperation ==
    /\ op_in_progress = (\E r \in Runner : run[r].at # "idle")
    /\ \E r \in Runner : run[r].at = "idle"

\* The primary's Postgres is down and a standby could take over.
Stuck(p, c) ==
    /\ leading /\ topology.primary_node_id = p /\ ~pg[p].up
    /\ c # p /\ reachable[c] /\ pg[c].up /\ pg[c].in_recovery

\* A leader does not leave a dead primary in place for ever beside a standby
\* that answers: whatever aborted the last attempt, the monitor tries again.
FailoverRetries == \A p, c \in Node : []<>~Stuck(p, c)

\* A node accepts writes beside the primary, and the leader reaches it.
Beside(p, n) ==
    /\ leading /\ topology.primary_node_id = p /\ n # p
    /\ Writer(p) /\ Writer(n) /\ reachable[n]

\* An old primary that came back does not go on accepting writes for ever:
\* the monitor sights it and its rejoin stops it.
StalePrimaryStops == \A p, n \in Node : []<>~Beside(p, n)

\* A node is rewound only outside any failover (docs/components/
\* failover_engine.md): never while one has promoted it.
RewindsOutsideFailover ==
    [][\A n \in Node, r \in Runner :
           TaskRewind(n) /\ pg' # pg =>
               ~(run[r].candidate = n /\ run[r].at \in {"verify", "set_primary", "record", "repoint"})]_vars


\* The node a failover or a recovery records as primary has data and no
\* standby.signal: no rewind, seed or Demote came between its promotion and
\* the record.
RecordsOnlyPrimaries ==
    [][topology'.primary_node_id # topology.primary_node_id =>
           LET p == topology'.primary_node_id IN pg[p].has_data /\ ~pg[p].standby_signal]_vars

(***************************************************************************)
(* What the documents and comments say, and the code does not.             *)
(***************************************************************************)
\* Two nodes never accept writes at once: a primary cut off from the leader
\* fences itself (docs/architecture.md).  Failover does not wait for that.
OneWriter == \A m, n \in Node : Writer(m) /\ Writer(n) => m = n
=============================================================================
