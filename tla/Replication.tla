---------------------------- MODULE Replication ----------------------------
(***************************************************************************)
(* The replication mode: what a commit waits for, the sync fallback, the   *)
(* online change of mode, which standby a failover promotes, and the slots *)
(* that hold WAL for the standbys.                                         *)
(*                                                                         *)
(* Source: pgcluster/src/node_monitor/replication.rs,                      *)
(* pgcluster/src/failover/candidate.rs and the order of                    *)
(* pgcluster/src/failover/mod.rs, pgcluster/src/failover/slots.rs,         *)
(* pgcluster/src/api/replication_mode.rs, and what vk-agent/src/server.rs  *)
(* reports of a node.                                                      *)
(*                                                                         *)
(* Here Postgres has its log: a node's log is the sequence of commits it   *)
(* holds, its position the length of that.  A failover is followed only    *)
(* as far as it matters to commits; Failover has its error paths.          *)
(***************************************************************************)
EXTENDS Topology, SequencesExt

CONSTANTS
    FirstPrimary,
    FirstModes,     \* the modes the cluster may start in
    External,       \* external standbys
    DegradeAfter,   \* sync_degrade_timeout_seconds, in ticks
    Modes,          \* modes the operator may ask for
    MayCrash,       \* nodes whose Postgres may crash, for good
    MayCut,         \* nodes the leader may lose contact with
    MaxCommits, MaxLinkLosses, MaxModeChanges       \* bounds

ASSUME ReplicationAssumption ==
    /\ FirstPrimary \in Node /\ FirstModes \subseteq ReplicationMode /\ Modes \subseteq ReplicationMode
    /\ External \subseteq Node \ {FirstPrimary}
    /\ MayCrash \subseteq Node /\ MayCut \subseteq Node
    /\ {DegradeAfter, MaxCommits, MaxLinkLosses, MaxModeChanges} \subseteq Nat

VARIABLES
    topology,
    pg,             \* per node: "primary", "standby" or "down"
    wal,            \* per node, the commits it holds, in order
    link,           \* per node, its streaming from upstream
    upstream,
    slots,          \* per node, the state of each standby's slot on it
    acked,          \* commits acknowledged to a client
    names,          \* per node, its synchronous_standby_names: ANY 1 of a set, or {}
    cut,            \* nodes the leader cannot reach
    no_standby_since,   \* DegradeTimer: ticks since, or None
    reconcile,      \* reconcile_replication in progress
    failover,       \* trigger_failover in progress
    ranked_live,    \* history: standbys were ranked while the old primary ran
    commits, link_losses, mode_changes

vars == <<topology, pg, wal, link, upstream, slots, acked, names, cut, no_standby_since,
          reconcile, failover, ranked_live, commits, link_losses, mode_changes>>

postgres == <<pg, wal, link, upstream, slots, acked, commits>>
bounds == <<link_losses, mode_changes>>

IdleReconcile == [at |-> "idle", primary |-> None, wanted |-> {}, reported |-> {}, restoring |-> FALSE,
                  lost |-> {}, returned |-> {}]
IdleFailover == [at |-> "idle", seen |-> EmptyTopology, candidate |-> None]

\* A cluster in service, in its mode.
Init ==
    /\ \E mode \in FirstModes : topology = [EmptyTopology EXCEPT
           !.primary_node_id = FirstPrimary,
           !.node_roles = [n \in Node |-> IF n = FirstPrimary THEN "Primary" ELSE "Replica"],
           !.node_configs = [n \in Node |-> [external |-> n \in External, priority |-> 1]],
           !.last_flush_lsns = [n \in Node |-> 0],
           !.replication_mode = mode]
    /\ pg = [n \in Node |-> IF n = FirstPrimary THEN "primary" ELSE "standby"]
    /\ wal = [n \in Node |-> << >>]
    /\ link = [n \in Node |-> IF n = FirstPrimary THEN "none" ELSE "streaming"]
    /\ upstream = [n \in Node |-> IF n = FirstPrimary THEN None ELSE FirstPrimary]
    /\ slots = [n \in Node |-> [s \in Node |-> IF n = FirstPrimary /\ s # n THEN "held" ELSE "none"]]
    /\ acked = {}
    /\ names = [n \in Node |-> IF n = FirstPrimary THEN SynchronousStandbyNames(topology) ELSE {}]
    /\ cut = {}
    /\ no_standby_since = None
    /\ reconcile = IdleReconcile
    /\ failover = IdleFailover
    /\ ranked_live = FALSE
    /\ commits = 0 /\ link_losses = 0 /\ mode_changes = 0

Holds(n, c) == c \in ToSet(wal[n])

(***************************************************************************)
(* Postgres.  External.                                                    *)
(***************************************************************************)
\* Clients write through the proxies, to the primary on record.
Commit(n) ==
    /\ pg[n] = "primary" /\ n = topology.primary_node_id /\ commits < MaxCommits
    /\ commits' = commits + 1
    /\ wal' = [wal EXCEPT ![n] = Append(@, commits + 1)]
    /\ UNCHANGED <<topology, pg, link, upstream, slots, acked, names, cut, no_standby_since, reconcile, failover, bounds, ranked_live>>

\* A standby flushes the next commit of its upstream.
Receive(s) ==
    /\ link[s] # "none"
    /\ LET log == wal[upstream[s]]
       IN  Len(wal[s]) < Len(log) /\ wal' = [wal EXCEPT ![s] = Append(@, log[Len(@) + 1])]
    /\ UNCHANGED <<topology, pg, link, upstream, slots, acked, names, cut, no_standby_since, reconcile, failover, commits, bounds, ranked_live>>

\* A client hears of its commit once one of the named standbys has it.
Acknowledge(n, c) ==
    /\ pg[n] = "primary" /\ Holds(n, c) /\ c \notin acked
    /\ \/ names[n] = {}
       \/ \E s \in names[n] : link[s] = "streaming" /\ upstream[s] = n /\ Holds(s, c)
    /\ acked' = acked \cup {c}
    /\ UNCHANGED <<topology, pg, wal, link, upstream, slots, names, cut, no_standby_since, reconcile, failover, commits, bounds, ranked_live>>

LinkDown(s) ==
    /\ link[s] # "none" /\ link_losses < MaxLinkLosses
    /\ link' = [link EXCEPT ![s] = "none"]
    /\ link_losses' = link_losses + 1
    /\ UNCHANGED <<topology, pg, wal, upstream, slots, acked, names, cut, no_standby_since, reconcile, failover, commits, mode_changes, ranked_live>>

\* At a checkpoint a primary removes WAL beyond max_slot_wal_keep_size, which
\* a standby that is not connected may still need.
RemoveWal(n, s) ==
    /\ pg[n] = "primary" /\ slots[n][s] = "held"
    /\ upstream[s] = n /\ link[s] = "none" /\ Len(wal[s]) < Len(wal[n])
    /\ slots' = [slots EXCEPT ![n][s] = "lost"]
    /\ UNCHANGED <<topology, pg, wal, link, upstream, acked, names, cut, no_standby_since, reconcile, failover, commits, bounds, ranked_live>>

\* A standby connects through its slot to a primary whose log continues its
\* own.  What a lost slot held is gone; a standby that needs none of it gets
\* the slot back or not, as the version of Postgres has it ...
LinkUp(s) ==
    LET p == upstream[s]
    IN  /\ pg[s] = "standby" /\ link[s] = "none"
        /\ p # None /\ pg[p] = "primary" /\ IsPrefix(wal[s], wal[p])
        /\ slots[p][s] = "held" \/ (slots[p][s] = "lost" /\ wal[s] = wal[p])
        /\ link' = [link EXCEPT ![s] = "catchup"]
        /\ \E after \in {slots[p][s], "held"} : slots' = [slots EXCEPT ![p][s] = after]
        /\ UNCHANGED <<topology, pg, wal, upstream, acked, names, cut, no_standby_since, reconcile, failover, commits, bounds, ranked_live>>

\* ... and is streaming once it has caught up.
CatchUp(s) ==
    /\ link[s] = "catchup" /\ wal[s] = wal[upstream[s]]
    /\ link' = [link EXCEPT ![s] = "streaming"]
    /\ UNCHANGED <<topology, pg, wal, upstream, slots, acked, names, cut, no_standby_since, reconcile, failover, commits, bounds, ranked_live>>

\* A primary is gone for good, and its slots with it.
Crash(n) ==
    /\ n \in MayCrash /\ pg[n] = "primary"
    /\ pg' = [pg EXCEPT ![n] = "down"]
    /\ slots' = [slots EXCEPT ![n] = [s \in Node |-> "none"]]
    /\ link' = [s \in Node |-> IF upstream[s] = n THEN "none" ELSE link[s]]
    /\ UNCHANGED <<topology, wal, upstream, acked, names, cut, no_standby_since, reconcile, failover, commits, bounds, ranked_live>>

LoseContact(n) ==
    /\ n \in MayCut \ cut
    /\ cut' = cut \cup {n}
    /\ UNCHANGED <<topology, postgres, names, no_standby_since, reconcile, failover, bounds, ranked_live>>

RegainContact(n) ==
    /\ n \in cut
    /\ cut' = cut \ {n}
    /\ UNCHANGED <<topology, postgres, names, no_standby_since, reconcile, failover, bounds, ranked_live>>

(***************************************************************************)
(* set_mode.                                                               *)
(***************************************************************************)
SetMode(mode) ==
    /\ mode_changes < MaxModeChanges
    /\ mode # "Async" => Cardinality(Configured(topology)) >= 2
    /\ topology' = Change(topology, [type |-> "SetReplicationMode", mode |-> mode])
    /\ mode_changes' = mode_changes + 1
    /\ UNCHANGED <<postgres, names, cut, no_standby_since, reconcile, failover, link_losses, ranked_live>>

(***************************************************************************)
(* reconcile_replication, once per tick of the monitor.                    *)
(***************************************************************************)
\* get_stat_replication: the standbys that stream from p.
StreamingFrom(p) == {s \in Node : upstream[s] = p /\ link[s] = "streaming"}

\* get_lost_slots, by the node the slot is named after.
LostSlots(p) == {s \in Node : slots[p][s] = "lost"}

\* get_status: what the agent of n answers.
GetStatus(n) ==
    [running     |-> pg[n] # "down",
     in_recovery |-> pg[n] = "standby",
     position    |-> IF pg[n] = "down" THEN 0 ELSE Len(wal[n]),
     streaming   |-> IF pg[n] = "primary" THEN StreamingFrom(n) ELSE {},
     parameters  |-> IF pg[n] = "down" THEN {} ELSE names[n],
     lost        |-> IF pg[n] = "primary" THEN LostSlots(n) ELSE {}]

\* What track_reseeds will write: standbys to flag, and flags to clear.
Reseeds(t, status) ==
    [lost     |-> (status.lost \cap Configured(t)) \ t.needs_reseed,
     returned |-> (t.needs_reseed \ status.lost) \cap status.streaming]


TimerStepUnending(t, standby_streaming) ==      \* mutant: the timer is never compared
    IF t.replication_mode # "Sync" \/ standby_streaming
    THEN [since |-> None, fallback |-> "Stay"]
    ELSE [since |-> IF no_standby_since = None THEN 0 ELSE no_standby_since + 1, fallback |-> "Stay"]

\* DegradeTimer::step: the fallback, and the timer after it.
TimerStep(t, standby_streaming) ==
    IF t.replication_mode # "Sync" \/ standby_streaming
    THEN [since |-> None,
          fallback |-> IF t.replication_mode = "Sync" /\ t.sync_degraded THEN "Restore" ELSE "Stay"]
    ELSE IF t.sync_degraded THEN [since |-> no_standby_since, fallback |-> "Stay"]
    ELSE LET elapsed == IF no_standby_since = None THEN 0 ELSE no_standby_since + 1
         IN  IF elapsed >= DegradeAfter THEN [since |-> None, fallback |-> "Degrade"]
             ELSE [since |-> elapsed, fallback |-> "Stay"]


\* A tick reads the topology and the primary's status, and decides.
ReconcileStart ==
    LET p == topology.primary_node_id
        status == GetStatus(p)
        step == TimerStep(topology, status.streaming \cap Configured(topology) # {})
        reseeds == Reseeds(topology, status)
    IN  /\ reconcile.at = "idle" /\ failover.at = "idle"
        /\ p \notin cut /\ status.running /\ ~status.in_recovery
        /\ no_standby_since' = step.since
        /\ reconcile' =
              [at |-> IF step.fallback = "Degrade" THEN "degrade" ELSE "apply",
               primary |-> p,
               reported |-> status.parameters,
               wanted |-> CASE step.fallback = "Stay" -> SynchronousStandbyNames(topology)
                            [] step.fallback = "Degrade" -> {}
                            [] step.fallback = "Restore" -> StandbyNames(topology),
               restoring |-> step.fallback = "Restore",
               lost |-> reseeds.lost, returned |-> reseeds.returned]
        /\ UNCHANGED <<topology, postgres, names, cut, failover, bounds, ranked_live>>

\* The fallback is recorded before the setting is cleared.
RecordDegraded ==
    /\ reconcile.at = "degrade"
    /\ topology' = Change(topology, [type |-> "SetSyncDegraded", degraded |-> TRUE])
    /\ reconcile' = [reconcile EXCEPT !.at = "apply"]
    /\ UNCHANGED <<postgres, names, cut, no_standby_since, failover, bounds, ranked_live>>

\* What is left of the tick before the next one: track_reseeds, if it has
\* anything to write.
Remaining(r) == IF r.lost \cup r.returned = {} THEN IdleReconcile ELSE [r EXCEPT !.at = "track"]

\* set_parameters at the agent of p: ALTER SYSTEM and a reload, which do not
\* wait for a standby.
SetParameters(p, value) == names' = [names EXCEPT ![p] = value]

\* apply_parameters: whether the primary's agent answers and takes a value.
Applies(p) == p \notin cut /\ pg[p] # "down"

ApplyParametersOnce ==      \* mutant: a value once set is never replaced
    /\ reconcile.at = "apply"
    /\ IF reconcile.reported = {} THEN SetParameters(reconcile.primary, reconcile.wanted)
       ELSE UNCHANGED names
    /\ reconcile' = Remaining(reconcile)
    /\ UNCHANGED <<topology, postgres, cut, no_standby_since, failover, bounds, ranked_live>>

\* The setting is sent if the primary reported another value.  The tick ends
\* there if the primary does not take it.
ApplyParameters ==
    LET p == reconcile.primary
        differs == reconcile.wanted # reconcile.reported
        fails == differs /\ ~Applies(p)
    IN  /\ reconcile.at = "apply"
        /\ IF differs /\ ~fails THEN SetParameters(p, reconcile.wanted) ELSE UNCHANGED names
        /\ reconcile' = IF fails THEN IdleReconcile
                        ELSE IF reconcile.restoring THEN [reconcile EXCEPT !.at = "restore"]
                        ELSE Remaining(reconcile)
        /\ UNCHANGED <<topology, postgres, cut, no_standby_since, failover, bounds, ranked_live>>

\* The record is cleared once commits wait again.
RecordRestored ==
    /\ reconcile.at = "restore"
    /\ topology' = Change(topology, [type |-> "SetSyncDegraded", degraded |-> FALSE])
    /\ reconcile' = Remaining(reconcile)
    /\ UNCHANGED <<postgres, names, cut, no_standby_since, failover, bounds, ranked_live>>

\* track_reseeds writes one flag after the other.
TrackReseeds(s) ==
    /\ reconcile.at = "track" /\ s \in reconcile.lost \cup reconcile.returned
    /\ topology' = Change(topology, [type |-> "SetNeedsReseed", node_id |-> s,
                                     needs_reseed |-> s \in reconcile.lost])
    /\ reconcile' = Remaining([reconcile EXCEPT !.lost = @ \ {s}, !.returned = @ \ {s}])
    /\ UNCHANGED <<postgres, names, cut, no_standby_since, failover, bounds, ranked_live>>

ReconcileStep == ReconcileStart \/ RecordDegraded \/ ApplyParameters \/ RecordRestored
                 \/ \E s \in Node : TrackReseeds(s)

(***************************************************************************)
(* trigger_failover, as far as it decides which commits survive.  It runs  *)
(* in the monitor's tick, after the reconcile.                             *)
(***************************************************************************)
FailoverStart ==
    LET p == topology.primary_node_id
    IN  /\ failover.at = "idle" /\ reconcile.at = "idle"
        /\ p \in cut \/ pg[p] = "down"
        /\ topology' = Change(topology, [type |-> "MarkOffline", node_id |-> p])
        /\ failover' = [IdleFailover EXCEPT !.at = "pick", !.seen = topology]
        /\ UNCHANGED <<postgres, names, cut, no_standby_since, reconcile, bounds, ranked_live>>

Standbys(seen) == {n \in Configured(seen) \ {seen.primary_node_id} : ~IsExternal(seen, n)}

\* live_positions: the position of each standby that answers.
LivePositions(seen) ==
    [n \in {s \in Standbys(seen) : seen.node_roles[s] = "Replica" /\ s \notin cut
                                   /\ GetStatus(s).running /\ GetStatus(s).in_recovery}
        |-> GetStatus(n).position]


\* rank_positions: the highest position, then priority.
RankPositions(seen, positions) ==
    {n \in DOMAIN positions : \A m \in DOMAIN positions :
        \/ positions[n] > positions[m]
        \/ positions[n] = positions[m] /\ seen.node_configs[n].priority >= seen.node_configs[m].priority}

\* pick_live_candidate.
Candidates(seen) ==
    LET positions == LivePositions(seen)
    IN  IF seen.replication_mode = "SyncStrict"
           /\ Cardinality(DOMAIN positions) < Cardinality(Standbys(seen))
        THEN {} ELSE RankPositions(seen, positions)

FailoverPick ==
    /\ failover.at = "pick"
    /\ LET candidates == Candidates(failover.seen)
       IN  \/ /\ \E c \in candidates : failover' = [failover EXCEPT !.at = "promote", !.candidate = c]
              /\ ranked_live' = (ranked_live \/ pg[failover.seen.primary_node_id] = "primary")
           \/ candidates = {} /\ failover' = IdleFailover /\ UNCHANGED ranked_live
    /\ UNCHANGED <<topology, postgres, names, cut, no_standby_since, reconcile, bounds>>

\* promote_node and verify_promotion.
FailoverPromote ==
    LET c == failover.candidate
    IN  /\ failover.at = "promote"
        /\ \/ /\ c \notin cut
              /\ pg' = [pg EXCEPT ![c] = "primary"]
              /\ link' = [link EXCEPT ![c] = "none"]
              /\ failover' = [failover EXCEPT !.at = "record"]
           \/ c \in cut /\ failover' = IdleFailover /\ UNCHANGED <<pg, link>>
        /\ UNCHANGED <<topology, wal, upstream, slots, acked, commits, names, cut, no_standby_since, reconcile, bounds, ranked_live>>

\* ensure_slot: a slot that exists is left as it is, lost or not.
EnsureSlot(state) == IF state = "none" THEN "held" ELSE state

\* ensure_slots_for_replicas on the new primary, if it can be reached.
EnsureSlots(p, replicas) ==
    slots' = IF p \in cut THEN slots
             ELSE [slots EXCEPT ![p] = [s \in Node |-> IF s \in replicas THEN EnsureSlot(@[s]) ELSE @[s]]]

\* SetPrimary, RecordFailover, the slots and repoint_replicas.  The standbys
\* that answer follow the new primary.
FailoverRecord ==
    LET c == failover.candidate
        seen == failover.seen
        recorded == Change(topology, [type |-> "SetPrimary", node_id |-> c, at_lsn |-> 0])
        event == [old_primary |-> seen.primary_node_id, new_primary |-> c, ran_degraded |-> seen.sync_degraded]
        replicas == {s \in Configured(seen) \ {seen.primary_node_id, c} :
                         seen.node_roles[s] \in {"Replica", "Unknown"}}
        follows == {s \in replicas : s \notin cut /\ pg[s] = "standby"}
    IN  /\ failover.at = "record"
        /\ topology' = Change(recorded, [type |-> "RecordFailover", event |-> event])
        /\ EnsureSlots(c, replicas)
        /\ upstream' = [n \in Node |-> IF n \in follows THEN c ELSE upstream[n]]
        /\ link' = [n \in Node |-> IF n \in follows THEN "none" ELSE link[n]]
        /\ failover' = IdleFailover
        /\ UNCHANGED <<pg, wal, acked, commits, names, cut, no_standby_since, reconcile, bounds, ranked_live>>

\* SeedPlan::run, for a flagged standby that does not stream: its slot on the
\* primary, then a base backup.  Failover and Switchover have its error paths.
Seed(s) ==
    LET p == topology.primary_node_id
    IN  /\ s \in topology.needs_reseed \ {p} /\ s \in Configured(topology)
        /\ p \notin cut /\ pg[p] = "primary" /\ s \notin cut /\ pg[s] = "standby" /\ link[s] = "none"
        /\ slots' = [slots EXCEPT ![p][s] = EnsureSlot(@)]
        /\ wal' = [wal EXCEPT ![s] = wal[p]]
        /\ upstream' = [upstream EXCEPT ![s] = p]
        /\ UNCHANGED <<topology, pg, link, acked, names, cut, no_standby_since, reconcile, failover, commits, bounds, ranked_live>>

FailoverStep == FailoverStart \/ FailoverPick \/ FailoverPromote \/ FailoverRecord

Next ==
    \/ \E n \in Node :
           \/ Commit(n) \/ Receive(n) \/ LinkDown(n) \/ LinkUp(n) \/ CatchUp(n)
           \/ Seed(n) \/ \E s \in Node : RemoveWal(n, s)
           \/ Crash(n) \/ LoseContact(n) \/ RegainContact(n)
           \/ \E c \in 1..MaxCommits : Acknowledge(n, c)
    \/ \E mode \in Modes : SetMode(mode)
    \/ ReconcileStep \/ FailoverStep

\* The monitor ticks, a connected standby receives, and Postgres answers a
\* client once it may.  A standby need not come back.
Fairness ==
    /\ WF_vars(ReconcileStep) /\ WF_vars(FailoverStep)
    /\ \A n \in Node :
           /\ WF_vars(Receive(n)) /\ WF_vars(CatchUp(n))
           /\ \A c \in 1..MaxCommits : WF_vars(Acknowledge(n, c))

Spec == Init /\ [][Next]_vars /\ Fairness

(***************************************************************************)
(* Properties.                                                             *)
(***************************************************************************)
\* The types of the state.  The timer stays below its timeout.
TypeOK ==
    /\ topology \in ClusterTopology
    /\ pg \in [Node -> {"primary", "standby", "down"}]
    /\ \A n \in Node : ToSet(wal[n]) \subseteq 1..commits
    /\ link \in [Node -> {"none", "catchup", "streaming"}]
    /\ upstream \in [Node -> Node \cup {None}]
    /\ slots \in [Node -> [Node -> {"none", "held", "lost"}]]
    /\ acked \subseteq 1..commits
    /\ names \in [Node -> SUBSET Node]
    /\ no_standby_since \in 0..DegradeAfter \cup {None}
    /\ ranked_live \in BOOLEAN



InService(n) == pg[n] = "primary" /\ topology.primary_node_id = n /\ n \notin cut

\* A commit on a primary in service that its client waits for.
Stalled(c) ==
    /\ InService(topology.primary_node_id)
    /\ Holds(topology.primary_node_id, c) /\ c \notin acked


\* The ticks settle: time and again a primary in service and the topology
\* agree, after any change of mode and on a new primary too.  The setting is
\* what the mode and the record call for, a standby whose slot lost WAL is
\* flagged for a re-seed, and one that streams through a good slot is not.
ReconcileSettles ==
    []<>(LET p == topology.primary_node_id
         IN  InService(p) =>
                 /\ names[p] = SynchronousStandbyNames(topology)
                 /\ LostSlots(p) \subseteq topology.needs_reseed
                 /\ topology.needs_reseed \cap StreamingFrom(p) \subseteq LostSlots(p))
=============================================================================
