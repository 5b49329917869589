------------------------------ MODULE Operations ------------------------------
(***************************************************************************)
(* The management plane: what pgcluster-admin stores about databases,      *)
(* nodes and hosts, the requests its API accepts, the reconciler that runs *)
(* each request as an operation of stored steps, and the hosts that fetch  *)
(* their desired state, apply it, report, and run the tasks it carries.    *)
(*                                                                         *)
(* One action is one database transaction of the service, or one exchange  *)
(* of a host with it.  A host applies what it fetched in the step that     *)
(* fetches it (HostAgent has the steps inside); the cluster a database     *)
(* runs as is reduced to its members, its voters, the password its roles   *)
(* have and whether a backup exists, as the tasks use them.                *)
(***************************************************************************)
EXTENDS Integers, Sequences, FiniteSets

CONSTANTS
    Databases,    \* the identifiers databases get
    Hosts,        \* the enrolled hosts
    domain,       \* failure domain of each host
    HA_NODES,     \* nodes of a highly available database
    PortBlocks,   \* instances a host has ports for
    Plans,        \* bound on the requests: the sequences in which they are made
    MaxFaults,    \* bound on outages of hosts, failed tasks and passed deadlines
    None          \* no database, no node

VARIABLES
    database,     \* the databases table
    nodes,        \* the nodes table: for each database, its rows by node number
    ops,          \* active operations of each database, oldest first
    tasks,        \* tasks of active operations
    hosts,        \* the hosts table: has a new generation, was seen, drains
    away,         \* hosts that cannot reach the service
    have,         \* what each host last fetched and runs, by instance
    todo,         \* tasks in what each host last fetched
    cluster,      \* what each database's own cluster knows
    asked,        \* the requests made so far
    faults,       \* outages, failed tasks and passed deadlines so far
    left_out      \* an operation failed, or went on without a node

vars == <<database, nodes, ops, tasks, hosts, away, have, todo, cluster, asked, faults, left_out>>

\* The stored steps of each kind of operation.
steps == [
    Create |-> <<"place", "wait_applied", "first_backup", "open_access", "wait_applied", "activate">>,
    Update |-> <<"wait_applied", "settle">>,
    RollingUpdate |-> <<"wait_applied", "rolling_restart", "new_generation", "wait_applied", "settle">>,
    ReplicationMode |-> <<"wait_applied", "replication_mode", "settle">>,
    Delete |-> <<"remove_replica", "retract", "wait_removed", "finalize">>,
    Restart |-> <<"rolling_restart", "settle">>,
    Switchover |-> <<"switchover", "settle">>,
    Backup |-> <<"backup", "settle">>,
    Replace |-> <<"wait_peers", "replace_member", "retract_old", "wait_old_removed", "drop_old",
                  "wait_applied", "settle">>,
    RotateCa |-> <<"ca_trust_both", "wait_applied", "ca_issue", "wait_applied", "ca_trust_new",
                   "wait_applied", "settle">>,
    RotatePasswords |-> <<"passwords_offer", "wait_applied", "alter_passwords", "passwords_commit",
                          "wait_applied", "settle">>,
    Resize |-> <<"wait_applied", "resize_restart", "settle">>,
    CreateReplica |-> <<"place_replica", "add_replica", "wait_applied", "activate">>,
    PromoteReplica |-> <<"detach_replica", "promote", "wait_applied", "first_backup", "open_access",
                         "wait_applied", "activate">>,
    Upgrade |-> <<"upgrade_check", "rolling_restart", "wait_version", "settle">>]

-----------------------------------------------------------------------------
(* The tables *)

\* A database that does not exist yet.  CAs and passwords are numbered in the
\* order they are generated; 0 is none.
NoDatabase ==
    [status |-> "none", ha |-> FALSE, replica_of |-> None, generation |-> 0,
     access_open |-> FALSE, ca |-> 0, previous_ca |-> 0, passwords |-> 0, next |-> 0]

\* What a database's own cluster is before its first node starts.
NoCluster == [members |-> {}, voters |-> {}, seeded |-> {}, external |-> {},
              role |-> 0, backed_up |-> FALSE]

\* The row of a new node: a certificate from the CA, and nothing reported.
NodeRow(h, ca) == [host |-> h, retracted |-> FALSE, present |-> FALSE, observed |-> 0,
                   running |-> FALSE, cert |-> ca]

\* The nodes of a database that are not on their way out.
Live(d) == {n \in DOMAIN nodes[d] : ~nodes[d][n].retracted}

\* A database with an operation pending or running.
Busy(d) == ops[d] # <<>>

\* The operation whose step the reconciler may claim: the oldest one.
Claimed(d) == ops[d][1]

\* The step it is at.
StepOf(d) == steps[Claimed(d).kind][Claimed(d).at]

\* Statuses that accept work ("active" and "degraded" are one here).
require_serving(d) == database[d].status = "serving"

\* A replica changes only by promotion or deletion.
not_a_replica(d) == database[d].replica_of = None

\* Some database that is not deleted follows this one.
has_replicas(d) ==
    \E r \in Databases : database[r].replica_of = d /\ database[r].status # "deleted"

\* Hosts with a live node of the database.
HostsOf(d) == {nodes[d][n].host : n \in Live(d)}

\* Raises the generation of these hosts: their next poll returns at once.
Bump(S) == hosts' = [h \in Hosts |-> [hosts[h] EXCEPT !.changed = @ \/ h \in S]]

bump_hosts(d) == Bump(HostsOf(d))

\* Every node row counts against its host, one on its way out included.
HostLoad(h) == Cardinality(
    UNION {{<<d, n>> : n \in {m \in DOMAIN nodes[d] : nodes[d][m].host = h}} : d \in Databases})

\* A node could land here now.
has_room(h) == HostLoad(h) < PortBlocks

\* Hosts the scheduler considers, outside the failure domains already taken.
Candidates(taken) ==
    {h \in Hosts : hosts[h].seen /\ ~hosts[h].draining /\ domain[h] \notin taken}

\* Ways to choose count hosts with room, in separate failure domains.
placements(count, taken) ==
    {f \in [1..count -> {h \in Candidates(taken) : has_room(h)}] :
        \A i, j \in 1..count : i # j => domain[f[i]] # domain[f[j]]}

\* Failure domains of a database's live nodes.
DomainsOf(d) == {domain[nodes[d][n].host] : n \in Live(d)}

-----------------------------------------------------------------------------
(* Operations and their steps *)

\* Records an operation; it runs once older ones of the database are done.
NewOperation(kind, target, old, new) ==
    [id |-> Len(asked) + 1, kind |-> kind, at |-> 1, target |-> target, old |-> old, new |-> new]

create_with(d, op) == ops' = [ops EXCEPT ![d] = Append(@, op)]

\* The step is done: the operation goes to its next one, or has succeeded.
After(d, target) ==
    IF Claimed(d).at = Len(steps[Claimed(d).kind])
    THEN Tail(ops[d])
    ELSE [ops[d] EXCEPT ![1].at = @ + 1, ![1].target = target]

finish_step(d) == ops' = [ops EXCEPT ![d] = After(d, Claimed(d).target)]

\* Mutant: the generation moves but no host is told.
new_generation_untold(d) ==
    /\ ops' = [ops EXCEPT ![d] = After(d, database[d].generation + 1)]
    /\ UNCHANGED hosts

\* Publishes the database's state again and makes the operation wait for it.
new_generation(d) ==
    /\ ops' = [ops EXCEPT ![d] = After(d, database[d].generation + 1)]
    /\ bump_hosts(d)

\* Tasks an operation leaves behind when it ends are answered by nobody.
WithoutTasks(d) == {t \in tasks : t.id # Claimed(d).id}

\* The operation failed.  Its pending tasks end with it, but the hosts that
\* fetched them are not told.
fail(d) ==
    /\ ops' = [ops EXCEPT ![d] = Tail(@)]
    /\ tasks' = WithoutTasks(d)
    /\ database' = [database EXCEPT ![d].status =
          IF Claimed(d).kind \in {"Create", "Delete", "CreateReplica", "PromoteReplica"}
          THEN "error" ELSE "serving"]
    /\ left_out' = TRUE
    /\ UNCHANGED <<nodes, hosts, away, have, todo, cluster, asked>>

\* Where the database's nodes may go: a replica stays clear of its source.
Choices(d) ==
    IF StepOf(d) = "place"
    THEN placements(IF database[d].ha THEN HA_NODES ELSE 1, {})
    ELSE placements(1, DomainsOf(database[d].replica_of))

\* A host that has gone away holds up nothing on a highly available database.
Skipped(d, n) == database[d].ha /\ ~hosts[nodes[d][n].host].seen

\* Mutant: a node counts as soon as it runs, whatever generation it has.
wait_applied_running(d, except) ==
    \A n \in Live(d) \ {except} : ~Skipped(d, n) => nodes[d][n].running

\* Every node, except one named, runs the generation the operation waits for.
wait_applied(d, except) ==
    \A n \in Live(d) \ {except} : ~Skipped(d, n) =>
        nodes[d][n].observed >= Claimed(d).target /\ nodes[d][n].running

\* No host still reports an instance of the database.
wait_removed(d) == \A n \in DOMAIN nodes[d] : ~nodes[d][n].present

\* The old node's host reports it gone, or is gone itself.
wait_old_removed(d) ==
    LET row == nodes[d][Claimed(d).old] IN row.present => ~hosts[row.host].seen

\* What a step that only waits is waiting for.
WaitIsOver(d) ==
    CASE StepOf(d) = "wait_applied" -> wait_applied(d, None)
      [] StepOf(d) = "wait_peers" -> wait_applied(d, Claimed(d).new)
      [] StepOf(d) = "wait_removed" -> wait_removed(d)
      [] StepOf(d) = "wait_old_removed" -> wait_old_removed(d)
      [] StepOf(d) = "wait_version" -> TRUE

WaitSteps == {"wait_applied", "wait_peers", "wait_removed", "wait_old_removed", "wait_version"}

\* Steps that are a task on the leader or the primary of a cluster.
ReplicaTasks == {"add_replica", "detach_replica", "remove_replica"}
TaskSteps == ReplicaTasks \cup {"first_backup", "backup", "rolling_restart", "resize_restart",
    "switchover", "replication_mode", "replace_member", "alter_passwords"}

\* A replica's tasks run on its source's leader, under the source's nodes.
RunsOn(d) == IF StepOf(d) \in ReplicaTasks THEN database[d].replica_of ELSE d

\* The task of the step, as the hosts see it.
TaskOf(d) ==
    [id |-> Claimed(d).id, db |-> RunsOn(d), old |-> Claimed(d).old, new |-> Claimed(d).new, of |-> d,
     kind |-> CASE StepOf(d) = "first_backup" -> "backup"
                [] StepOf(d) = "resize_restart" -> "rolling_restart"
                [] OTHER -> StepOf(d),
     status |-> "pending"]

\* How the step's task went, if it was handed out.
Answer(d) == {t.status : t \in {u \in tasks : u.id = Claimed(d).id /\ u.kind = TaskOf(d).kind}}

\* Naming the replica in its task reads its node row, and without one the step
\* is an error: the transaction rolls back and the step is claimed again.
replica_task(d) == StepOf(d) \in ReplicaTasks => DOMAIN nodes[d] # {}

\* Removing a database that follows nobody has no task to wait for.
NoTask(d) == StepOf(d) = "remove_replica" /\ not_a_replica(d)

\* The step's first attempt records the task and tells the hosts.
run_task(d) ==
    /\ Busy(d) /\ StepOf(d) \in TaskSteps /\ ~NoTask(d)
    /\ replica_task(d)
    /\ Answer(d) = {}
    /\ tasks' = tasks \cup {TaskOf(d)}
    /\ bump_hosts(RunsOn(d))
    /\ UNCHANGED <<database, nodes, ops, away, have, todo, cluster, asked, faults, left_out>>

\* Steps that end with nothing to store: a wait that is over, a task that
\* succeeded, a resize that needs no restart, a check that passes.
step_once(d) ==
    /\ Busy(d)
    /\ \/ StepOf(d) \in WaitSteps /\ WaitIsOver(d)
       \/ StepOf(d) \in TaskSteps /\ ~NoTask(d) /\ replica_task(d) /\ Answer(d) = {"succeeded"}
       \/ NoTask(d)
       \/ StepOf(d) = "resize_restart" /\ Answer(d) = {}
       \/ StepOf(d) \in {"settle", "upgrade_check"}
    /\ finish_step(d)
    /\ tasks' = IF Claimed(d).at = Len(steps[Claimed(d).kind]) THEN WithoutTasks(d) ELSE tasks
    /\ left_out' = \/ left_out
                   \/ StepOf(d) \in {"wait_applied", "wait_peers"} /\ \E n \in Live(d) : Skipped(d, n)
    /\ UNCHANGED <<database, nodes, hosts, away, have, todo, cluster, asked, faults>>

\* The status of a database that is ready.
activate(d) ==
    /\ Busy(d) /\ StepOf(d) = "activate"
    /\ database' = [database EXCEPT ![d].status = "serving"]
    /\ finish_step(d)
    /\ tasks' = WithoutTasks(d)
    /\ UNCHANGED <<nodes, hosts, away, have, todo, cluster, asked, faults, left_out>>

\* The task failed on its host.
TaskFailed(d) ==
    /\ Busy(d) /\ StepOf(d) \in TaskSteps /\ ~NoTask(d) /\ replica_task(d)
    /\ Answer(d) = {"failed"}
    /\ fail(d)
    /\ UNCHANGED faults

\* The step would wait and the operation's deadline has passed, or a host no
\* longer has the release an upgrade moves to.
TimedOut(d) ==
    /\ Busy(d) /\ faults < MaxFaults
    /\ \/ StepOf(d) \in WaitSteps /\ ~WaitIsOver(d)
       \/ StepOf(d) \in TaskSteps /\ ~NoTask(d) /\ replica_task(d) /\ Answer(d) = {"pending"}
       \/ StepOf(d) \in {"place", "place_replica"} /\ Choices(d) = {}
       \/ StepOf(d) = "upgrade_check"
    /\ fail(d)
    /\ faults' = faults + 1

-----------------------------------------------------------------------------
(* The steps that store something *)

\* Chooses hosts and generates the CA, the passwords and the certificates.
place(d) ==
    /\ Busy(d) /\ StepOf(d) = "place"
    /\ \E f \in Choices(d) :
        /\ nodes' = [nodes EXCEPT ![d] = [n \in DOMAIN f |-> NodeRow(f[n], 1)]]
        /\ cluster' = [cluster EXCEPT ![d] = [NoCluster EXCEPT
               !.members = DOMAIN f, !.voters = DOMAIN f, !.seeded = {1}, !.role = 1]]
        /\ Bump({f[n] : n \in DOMAIN f})
    /\ database' = [database EXCEPT ![d].ca = 1, ![d].passwords = 1]
    /\ finish_step(d)
    /\ UNCHANGED <<tasks, away, have, todo, asked, faults, left_out>>

\* Puts a replica away from its source, whose CA and passwords it copies.
place_replica(d) ==
    /\ Busy(d) /\ StepOf(d) = "place_replica"
    /\ LET source == database[d].replica_of IN
        /\ \E f \in Choices(d) :
            /\ nodes' = [nodes EXCEPT ![d] = [n \in {1} |-> NodeRow(f[1], database[source].ca)]]
            /\ Bump({f[1]} \cup HostsOf(source))
        /\ database' = [database EXCEPT ![d].ca = database[source].ca,
                                        ![d].passwords = database[source].passwords]
        /\ cluster' = [cluster EXCEPT ![d] = [NoCluster EXCEPT !.role = cluster[source].role]]
    /\ finish_step(d)
    /\ UNCHANGED <<tasks, away, have, todo, asked, faults, left_out>>

\* A step that changes the database's row and publishes it.
Publish(d, name, row) ==
    /\ Busy(d) /\ StepOf(d) = name
    /\ database' = [database EXCEPT ![d] = [row EXCEPT !.generation = @ + 1]]
    /\ new_generation(d)
    /\ UNCHANGED <<tasks, away, have, todo, asked, faults, left_out>>

\* Clients are let in.
open_access(d) ==
    /\ Publish(d, "open_access", [database[d] EXCEPT !.access_open = TRUE])
    /\ UNCHANGED <<nodes, cluster>>

\* A restarted database installs what waited for the restart.
publish_again(d) == Publish(d, "new_generation", database[d]) /\ UNCHANGED <<nodes, cluster>>

\* Brings in a new CA alongside the one in use.
ca_trust_both(d) ==
    /\ Publish(d, "ca_trust_both",
               [database[d] EXCEPT !.previous_ca = database[d].ca, !.ca = @ + 1])
    /\ UNCHANGED <<nodes, cluster>>

\* Certificates of every live node, from the current CA.
reissue(d) == [n \in DOMAIN nodes[d] |->
    [nodes[d][n] EXCEPT !.cert = IF n \in Live(d) THEN database[d].ca ELSE @]]

ca_issue(d) ==
    /\ Publish(d, "ca_issue", database[d])
    /\ nodes' = [nodes EXCEPT ![d] = reissue(d)]
    /\ UNCHANGED cluster

\* With every node on the new CA, stops trusting the old one.
ca_trust_new(d) ==
    /\ Publish(d, "ca_trust_new", [database[d] EXCEPT !.previous_ca = 0])
    /\ UNCHANGED <<nodes, cluster>>

\* Tells every node the passwords to come: fresh ones, whatever was offered.
passwords_offer(d) ==
    /\ Publish(d, "passwords_offer", [database[d] EXCEPT
           !.next = (IF @ > database[d].passwords THEN @ ELSE database[d].passwords) + 1])
    /\ UNCHANGED <<nodes, cluster>>

\* The roles have moved, so the new passwords become the current ones.
passwords_commit(d) ==
    /\ Publish(d, "passwords_commit",
               [database[d] EXCEPT !.passwords = database[d].next, !.next = 0])
    /\ UNCHANGED <<nodes, cluster>>

\* The cluster has let go of the old node, so its host and its peers do too.
retract_old(d) ==
    LET old == Claimed(d).old IN
    /\ Busy(d) /\ StepOf(d) = "retract_old"
    /\ nodes' = [nodes EXCEPT ![d][old].retracted = TRUE]
    /\ Bump(HostsOf(d))
    /\ database' = [database EXCEPT ![d].generation = @ + 1]
    /\ ops' = [ops EXCEPT ![d] = After(d, database[d].generation + 1)]
    /\ UNCHANGED <<tasks, away, have, todo, cluster, asked, faults, left_out>>

\* Forgets these node rows.
Forget(d, gone) == nodes' = [nodes EXCEPT ![d] = [n \in DOMAIN @ \ gone |-> @[n]]]

drop_old(d) ==
    /\ Busy(d) /\ StepOf(d) = "drop_old"
    /\ Forget(d, {Claimed(d).old})
    /\ finish_step(d)
    /\ UNCHANGED <<database, tasks, hosts, away, have, todo, cluster, asked, faults, left_out>>

\* Every host of a deleted database, and of a replica's source, is told.
retract(d) ==
    LET source == database[d].replica_of IN
    /\ Busy(d) /\ StepOf(d) = "retract"
    /\ nodes' = [nodes EXCEPT ![d] = [n \in DOMAIN @ |-> [@[n] EXCEPT !.retracted = TRUE]]]
    /\ Bump({nodes[d][n].host : n \in DOMAIN nodes[d]}
            \cup IF source = None THEN {} ELSE HostsOf(source))
    /\ finish_step(d)
    /\ UNCHANGED <<database, tasks, away, have, todo, cluster, asked, faults, left_out>>

finalize(d) ==
    /\ Busy(d) /\ StepOf(d) = "finalize"
    /\ Forget(d, DOMAIN nodes[d])
    /\ database' = [database EXCEPT ![d].status = "deleted"]
    /\ finish_step(d)
    /\ tasks' = WithoutTasks(d)
    /\ UNCHANGED <<hosts, away, have, todo, cluster, asked, faults, left_out>>

\* The source has let go: the replica becomes a one-node database of its own.
promote(d) ==
    LET source == database[d].replica_of IN
    /\ Busy(d) /\ StepOf(d) = "promote"
    /\ database' = [database EXCEPT ![d].replica_of = None, ![d].generation = @ + 1]
    /\ ops' = [ops EXCEPT ![d] = After(d, database[d].generation + 1)]
    /\ Bump(HostsOf(d) \cup HostsOf(source))
    /\ cluster' = [cluster EXCEPT ![d].members = {1}, ![d].voters = {1}]
    /\ UNCHANGED <<nodes, tasks, away, have, todo, asked, faults, left_out>>

-----------------------------------------------------------------------------
(* Requests *)

\* The requests some plan has next.
NextKinds ==
    {p[Len(asked) + 1] : p \in {q \in Plans : Len(q) > Len(asked) /\ SubSeq(q, 1, Len(asked)) = asked}}

Asked(kind) == kind \in NextKinds /\ asked' = Append(asked, kind)

\* What every request leaves alone.
RestUnchanged == UNCHANGED <<away, have, todo, faults, left_out>>

\* A new database gets an identifier nobody used.
Fresh(d) ==
    /\ database[d].status = "none"
    /\ d = CHOOSE e \in Databases : database[e].status = "none"

\* Refused when the hosts there are, seen or not, are too full.  Too few of
\* them is not refused, because more may enrol.
check_capacity(ha) ==
    LET count == IF ha THEN HA_NODES ELSE 1
        kept == {h \in Hosts : ~hosts[h].draining}
        Domains(S) == {domain[h] : h \in S}
    IN  Cardinality(Domains(kept)) >= count
            => Cardinality(Domains({h \in kept : has_room(h)})) >= count

create(d, ha) ==
    /\ Asked(IF ha THEN "CreateHa" ELSE "Create") /\ Fresh(d) /\ check_capacity(ha)
    /\ database' = [database EXCEPT ![d] = [NoDatabase EXCEPT
           !.status = "provisioning", !.ha = ha, !.generation = 1]]
    /\ create_with(d, NewOperation("Create", 1, None, None))
    /\ UNCHANGED <<nodes, tasks, hosts, cluster>> /\ RestUnchanged

\* Some backup of the database is recorded, which its leader reports.
window(d) == database[d].status \notin {"none", "deleted"} /\ cluster[d].backed_up

\* A new database, which starts from the backups of another.
restore(d, source) ==
    /\ Asked("Restore") /\ Fresh(d) /\ window(source)
    /\ database' = [database EXCEPT ![d] = [NoDatabase EXCEPT
           !.status = "provisioning", !.ha = database[source].ha, !.generation = 1]]
    /\ create_with(d, NewOperation("Create", 1, None, None))
    /\ UNCHANGED <<nodes, tasks, hosts, cluster>> /\ RestUnchanged

create_replica(d, source) ==
    /\ Asked("CreateReplica") /\ Fresh(d)
    /\ require_serving(source) /\ not_a_replica(source) /\ database[source].ha
    /\ database' = [database EXCEPT ![d] = [NoDatabase EXCEPT
           !.status = "provisioning", !.replica_of = source, !.generation = 1]]
    /\ create_with(d, NewOperation("CreateReplica", 1, None, None))
    /\ UNCHANGED <<nodes, tasks, hosts, cluster>> /\ RestUnchanged

promote_replica(d) ==
    /\ Asked("PromoteReplica") /\ require_serving(d) /\ ~not_a_replica(d) /\ ~Busy(d)
    /\ database' = [database EXCEPT ![d].status = "provisioning"]
    /\ create_with(d, NewOperation("PromoteReplica", database[d].generation, None, None))
    /\ UNCHANGED <<nodes, tasks, hosts, cluster>> /\ RestUnchanged

\* A new generation of the spec, published to the database's hosts.
NewSpec(d, kind, old, new) ==
    /\ database' = [database EXCEPT ![d].generation = @ + 1]
    /\ create_with(d, NewOperation(kind, database[d].generation + 1, old, new))

\* What a change of the spec becomes: retention or a replication mode,
\* extensions, which on several nodes may need a library loaded at start, the
\* owner's password and the allowlist.
update == {"Update", "ReplicationMode"}
put_extensions == {"Update", "RollingUpdate"}
set_owner_password == {"Update"}
put_allowlist == {"Update"}

\* They are stored, published to the database's hosts and waited for.
change_spec_as(d, kind) ==
    /\ kind \in update \cup put_extensions \cup set_owner_password \cup put_allowlist
    /\ Asked(kind)
    /\ database[d].status \in {"provisioning", "serving"} /\ not_a_replica(d)
    /\ NewSpec(d, kind, None, None)
    /\ bump_hosts(d)
    /\ UNCHANGED <<nodes, tasks, cluster>> /\ RestUnchanged

\* A certificate for the proxies: stored with the secrets, which only a
\* database that has been placed has.
put_certificate(d) ==
    /\ Asked("Certificate") /\ require_serving(d) /\ not_a_replica(d)
    /\ NewSpec(d, "Update", None, None)
    /\ bump_hosts(d)
    /\ UNCHANGED <<nodes, tasks, cluster>> /\ RestUnchanged

resize(d) ==
    /\ Asked("Resize") /\ require_serving(d) /\ not_a_replica(d) /\ ~Busy(d)
    /\ NewSpec(d, "Resize", None, None)
    /\ bump_hosts(d)
    /\ UNCHANGED <<nodes, tasks, cluster>> /\ RestUnchanged

\* An operation that changes no spec.  It queues behind the ones running.  A
\* replica cannot follow its source through a rotation.
start(d, kind) ==
    /\ Asked(kind)
    /\ require_serving(d) /\ not_a_replica(d)
    /\ kind \in {"RotateCa", "RotatePasswords"} => ~has_replicas(d)
    /\ create_with(d, NewOperation(kind, database[d].generation, None, None))
    /\ UNCHANGED <<database, nodes, tasks, hosts, cluster>> /\ RestUnchanged

restart(d) == start(d, "Restart")
switchover(d) == database[d].ha /\ start(d, "Switchover")
rotate_ca(d) == start(d, "RotateCa")
rotate_passwords(d) == start(d, "RotatePasswords")
backup_now(d) == start(d, "Backup")

\* Every host of the database reports a release no node is ahead of.
upgrade(d) == Live(d) # {} /\ start(d, "Upgrade")

MaxOf(S) == CHOOSE m \in S : \A n \in S : n <= m

\* A new node on h takes over from node: it gets the next number, a
\* certificate, and its peers are told.
start_replacement(d, node, h) ==
    /\ require_serving(d) /\ not_a_replica(d) /\ database[d].ha /\ ~Busy(d)
    /\ node \in Live(d)
    /\ hosts[h].seen /\ ~hosts[h].draining
    /\ \A n \in Live(d) \ {node} : domain[nodes[d][n].host] # domain[h]
    /\ h \notin HostsOf(d)
    /\ has_room(h)
    /\ LET new == MaxOf(Live(d)) + 1 IN
        /\ nodes' = [nodes EXCEPT ![d] = [n \in DOMAIN @ \cup {new} |->
               IF n = new THEN NodeRow(h, database[d].ca) ELSE @[n]]]
        /\ NewSpec(d, "Replace", node, new)
    /\ Bump(HostsOf(d) \cup {h})
    /\ UNCHANGED <<tasks, cluster>> /\ RestUnchanged

replace_node(d, node, h) == Asked("Replace") /\ start_replacement(d, node, h)

\* The drain moves one node of each idle database at a time.
move_node(d, node, h) ==
    /\ Asked("Move") /\ node \in Live(d)
    /\ hosts[nodes[d][node].host].draining
    /\ \A n \in Live(d) : hosts[nodes[d][n].host].draining => node <= n
    /\ start_replacement(d, node, h)

\* Refused while the host has a one-node database, which cannot move.
drain(h) ==
    /\ Asked("Drain") /\ ~hosts[h].draining
    /\ \A d \in Databases : h \in HostsOf(d) => database[d].ha
    /\ hosts' = [hosts EXCEPT ![h].draining = TRUE]
    /\ UNCHANGED <<database, nodes, ops, tasks, cluster>> /\ RestUnchanged

undrain(h) ==
    /\ Asked("Undrain") /\ hosts[h].draining
    /\ hosts' = [hosts EXCEPT ![h].draining = FALSE]
    /\ UNCHANGED <<database, nodes, ops, tasks, cluster>> /\ RestUnchanged

\* Deleting ends whatever else the database was doing, except for the tasks
\* of a replica, which are stored under its source.
delete(d) ==
    /\ Asked("Delete")
    /\ database[d].status \in {"provisioning", "serving", "error"} /\ ~has_replicas(d)
    /\ ops' = [ops EXCEPT ![d] = <<NewOperation("Delete", database[d].generation, None, None)>>]
    /\ tasks' = {t \in tasks : t.db # d}
    /\ database' = [database EXCEPT ![d].status = "deleting"]
    /\ UNCHANGED <<nodes, hosts, cluster>> /\ RestUnchanged

\* The reconciler reissues a certificate near its end, as a new generation of
\* the database, and tells the host of that node.
renew_certificate(d, n) ==
    /\ Asked("Renew") /\ require_serving(d) /\ ~Busy(d)
    /\ n \in Live(d) /\ hosts[nodes[d][n].host].seen
    /\ nodes' = [nodes EXCEPT ![d][n].cert = database[d].ca]
    /\ NewSpec(d, "Update", None, None)
    /\ Bump({nodes[d][n].host})
    /\ UNCHANGED <<tasks, cluster>> /\ RestUnchanged

-----------------------------------------------------------------------------
(* Hosts *)

\* Certificate authorities a database's nodes trust.
ca_bundle(d) == {database[d].ca, database[d].previous_ca} \ {0}

\* Mutant: an instance is told to let clients in from the start.
Instance_open(d, n) ==
    [generation |-> database[d].generation, access_open |-> TRUE, cert |-> nodes[d][n].cert,
     trust |-> ca_bundle(d), passwords |-> database[d].passwords, next |-> database[d].next,
     replica |-> database[d].replica_of # None, peers |-> {}, replicas |-> {}]

\* What a host is told about an instance.  A replica's peers are its source's
\* nodes; a member's are the other nodes, and the replicas it lets in.
Instance(d, n) ==
    LET row == database[d]
        group == IF row.replica_of = None THEN d ELSE row.replica_of
    IN  [generation |-> row.generation, access_open |-> row.access_open, cert |-> nodes[d][n].cert,
         trust |-> ca_bundle(d), passwords |-> row.passwords, next |-> row.next,
         replica |-> row.replica_of # None,
         peers |-> {<<m, nodes[group][m].host>> : m \in Live(group) \ (IF group = d THEN {n} ELSE {})},
         replicas |-> {r \in Databases : /\ database[r].replica_of = d
                                         /\ database[r].status # "deleted" /\ Live(r) # {}}]

\* The live nodes on a host.
InstancesOn(h) ==
    UNION {{<<d, n>> : n \in {m \in Live(d) : nodes[d][m].host = h}} : d \in Databases}

build_desired_state(h) == [i \in InstancesOn(h) |-> Instance(i[1], i[2])]

\* The long poll returns when the host's generation moved; the host makes its
\* instances match and removes those that are gone.
desired_state(h) ==
    /\ h \notin away /\ hosts[h].changed
    /\ have' = [have EXCEPT ![h] = build_desired_state(h)]
    /\ todo' = [todo EXCEPT ![h] =
           {t \in tasks : t.status = "pending" /\ \E i \in InstancesOn(h) : i[1] = t.db}]
    /\ hosts' = [hosts EXCEPT ![h].changed = FALSE]
    /\ UNCHANGED <<database, nodes, ops, tasks, away, cluster, asked, faults, left_out>>

\* A node's row after its host reported: what runs, and which generation.
Reported(d, n, row) ==
    LET i == <<d, n>> up == n \in cluster[d].seeded IN
    IF i \notin DOMAIN have[row.host] THEN [row EXCEPT !.present = FALSE]
    ELSE [row EXCEPT !.present = TRUE, !.running = up,
                     !.observed = IF up THEN have[row.host][i].generation ELSE @]

report(h) ==
    /\ h \notin away
    /\ nodes' = [d \in Databases |-> [n \in DOMAIN nodes[d] |->
           IF nodes[d][n].host = h THEN Reported(d, n, nodes[d][n]) ELSE nodes[d][n]]]
    /\ hosts' = [hosts EXCEPT ![h].seen = TRUE]
    /\ <<nodes', hosts'>> # <<nodes, hosts>>
    /\ UNCHANGED <<database, ops, tasks, away, have, todo, cluster, asked, faults, left_out>>

\* A host loses the service, is counted as offline, and comes back.
Leave(h) ==
    /\ h \notin away /\ faults < MaxFaults
    /\ away' = away \cup {h}
    /\ faults' = faults + 1
    /\ UNCHANGED <<database, nodes, ops, tasks, hosts, have, todo, cluster, asked, left_out>>

track_nodes(h) ==
    /\ h \in away /\ hosts[h].seen
    /\ hosts' = [hosts EXCEPT ![h].seen = FALSE]
    /\ UNCHANGED <<database, nodes, ops, tasks, away, have, todo, cluster, asked, faults, left_out>>

Return(h) ==
    /\ h \in away
    /\ away' = away \ {h}
    /\ UNCHANGED <<database, nodes, ops, tasks, hosts, have, todo, cluster, asked, faults, left_out>>

-----------------------------------------------------------------------------
(* Tasks, on the host whose node leads the cluster *)

\* Somewhere an instance of this node is there.
Deployed(d, n) == n \in DOMAIN nodes[d] /\ <<d, n>> \in DOMAIN have[nodes[d][n].host]

\* The monitor seeds a member that has no data, and an external standby.
Seed(d, n) ==
    /\ n \notin cluster[d].seeded /\ Deployed(d, n)
    /\ \/ n \in cluster[d].members /\ \E m \in cluster[d].seeded : Deployed(d, m)
       \/ \E s \in Databases : d \in cluster[s].external /\ \E m \in cluster[s].seeded : Deployed(s, m)
    /\ cluster' = [cluster EXCEPT ![d].seeded = @ \cup {n}]
    /\ UNCHANGED <<database, nodes, ops, tasks, hosts, away, have, todo, asked, faults, left_out>>

\* Nodes of the task's cluster on this host that could lead it.
Leads(h, t) == {n \in cluster[t.db].voters \cap cluster[t.db].seeded : <<t.db, n>> \in DOMAIN have[h]}

\* Mutant: the old node leaves as soon as the new one is a learner.
replace_member_early(c, t) ==
    CASE t.new \notin c.members -> [c EXCEPT !.members = @ \cup {t.new}]
      [] t.new \in c.members /\ t.old \in c.members ->
            [c EXCEPT !.members = @ \ {t.old}, !.voters = @ \ {t.old}]
      [] t.new \in c.seeded -> [c EXCEPT !.voters = @ \cup {t.new}]
      [] OTHER -> c

\* One step of the new node joining and the old one leaving.
replace_member(c, t) ==
    CASE t.new \notin c.members -> [c EXCEPT !.members = @ \cup {t.new}]
      [] t.new \in c.members \cap c.seeded /\ t.new \notin c.voters ->
            [c EXCEPT !.voters = @ \cup {t.new}]
      [] t.new \in c.voters /\ t.old \in c.members -> [c EXCEPT !.members = @ \ {t.old}]
      [] t.new \in c.voters /\ t.old \notin c.members -> [c EXCEPT !.voters = @ \ {t.old}]
      [] OTHER -> c

\* The roles move to the passwords this host was told come next.
alter_passwords(c, h, t) ==
    LET told == {have[h][<<t.db, n>>].next : n \in Leads(h, t)} \ {0}
    IN  IF told = {} THEN c ELSE [c EXCEPT !.role = CHOOSE p \in told : TRUE]

\* The first backup under the label, or the one already there.
backup(c) == [c EXCEPT !.backed_up = TRUE]

\* An external standby joins the source's topology, and leaves it.
add_replica(c, t) == [c EXCEPT !.external = @ \cup {t.of}]
detach_replica(c, t) == [c EXCEPT !.external = @ \ {t.of}]
remove_replica(c, t) == [c EXCEPT !.external = @ \ {t.of}]

\* What the task's next step makes of the cluster.
Worked(c, h, t) ==
    CASE t.kind = "backup" -> backup(c)
      [] t.kind = "replace_member" -> replace_member(c, t)
      [] t.kind = "alter_passwords" -> alter_passwords(c, h, t)
      [] t.kind = "add_replica" -> add_replica(c, t)
      [] t.kind = "detach_replica" -> detach_replica(c, t)
      [] t.kind = "remove_replica" -> remove_replica(c, t)
      [] OTHER -> c

\* The task as a whole has been done.
Completed(h, t) ==
    LET c == cluster[t.db] IN
    /\ Worked(c, h, t) = c
    /\ t.kind = "replace_member" => t.new \in c.voters
    /\ t.kind = "alter_passwords" => \E n \in Leads(h, t) : have[h][<<t.db, n>>].next = c.role
    /\ t.kind = "add_replica" => cluster[t.of].seeded # {}

run(h, t) ==
    /\ Leads(h, t) # {}
    /\ cluster' = [cluster EXCEPT ![t.db] = Worked(@, h, t)]
    /\ cluster' # cluster
    /\ UNCHANGED <<database, nodes, ops, tasks, hosts, away, have, todo, asked, faults, left_out>>

\* The first answer stands, and every host of the database is told.  A task
\* stays in what its host fetched until the host fetches again.
task_result(h, t, status) ==
    /\ h \notin away /\ Leads(h, t) # {}
    /\ \/ status = "succeeded" /\ Completed(h, t) /\ UNCHANGED faults
       \/ /\ status = "failed" /\ faults < MaxFaults
          /\ faults' = faults + 1
    /\ \E n \in DOMAIN nodes[t.db] : nodes[t.db][n].host = h
    /\ tasks' = {IF u = t THEN [u EXCEPT !.status = status] ELSE u : u \in tasks}
    /\ bump_hosts(t.db)
    /\ UNCHANGED <<database, nodes, ops, away, have, todo, cluster, asked, left_out>>

-----------------------------------------------------------------------------
Init ==
    /\ database = [d \in Databases |-> NoDatabase]
    /\ nodes = [d \in Databases |-> <<>>]
    /\ ops = [d \in Databases |-> <<>>]
    /\ tasks = {}
    /\ hosts = [h \in Hosts |-> [changed |-> FALSE, seen |-> TRUE, draining |-> FALSE]]
    /\ away = {}
    /\ have = [h \in Hosts |-> <<>>]
    /\ todo = [h \in Hosts |-> {}]
    /\ cluster = [d \in Databases |-> NoCluster]
    /\ asked = <<>>
    /\ faults = 0
    /\ left_out = FALSE

\* The reconciler claims the step a database's oldest operation is at.
run_step(d) ==
    \/ place(d) \/ place_replica(d) \/ open_access(d) \/ publish_again(d)
    \/ ca_trust_both(d) \/ ca_issue(d) \/ ca_trust_new(d)
    \/ passwords_offer(d) \/ passwords_commit(d)
    \/ retract_old(d) \/ drop_old(d) \/ retract(d) \/ finalize(d) \/ promote(d)
    \/ activate(d) \/ run_task(d) \/ step_once(d)

\* Requests an operator or the reconciler's own sweep makes.
Request(d) ==
    \/ \E ha \in BOOLEAN : create(d, ha)
    \/ \E s \in Databases : create_replica(d, s) \/ restore(d, s)
    \/ promote_replica(d)
    \/ \E k \in NextKinds : change_spec_as(d, k)
    \/ restart(d) \/ switchover(d) \/ rotate_ca(d) \/ rotate_passwords(d) \/ backup_now(d)
    \/ upgrade(d) \/ resize(d) \/ delete(d) \/ put_certificate(d)
    \/ \E n \in DOMAIN nodes[d] : renew_certificate(d, n)
    \/ \E n \in DOMAIN nodes[d], h \in Hosts : replace_node(d, n, h) \/ move_node(d, n, h)

HostStep(h) ==
    \/ desired_state(h) \/ report(h)
    \/ \E t \in todo[h] : run(h, t) \/ task_result(h, t, "succeeded")

Fault ==
    \/ \E h \in Hosts : Leave(h) \/ track_nodes(h) \/ Return(h)
    \/ \E h \in Hosts : \E t \in todo[h] : task_result(h, t, "failed")

Next ==
    \/ \E d \in Databases : run_step(d) \/ TaskFailed(d) \/ TimedOut(d)
    \/ NextKinds # {} /\ \E d \in Databases : Request(d)
    \/ \E h \in Hosts : drain(h) \/ undrain(h) \/ HostStep(h)
    \/ \E d \in Databases : \E n \in DOMAIN nodes[d] : Seed(d, n)
    \/ Fault

Spec == Init /\ [][Next]_vars

-----------------------------------------------------------------------------
(* Properties *)

\* Clients get no access until a restorable backup exists (agent.rs:443): a
\* host that lets clients into an instance does so for a database whose own
\* cluster has made a backup, also after a promotion, a failed operation, a
\* repeated task or a delete that overtook the create.
ClientsAfterBackup ==
    \A h \in Hosts : \A i \in DOMAIN have[h] :
        have[h][i].access_open => cluster[i[1]].backed_up

\* Replacing a node never leaves a highly available database short of voters,
\* and no voter is a node whose host was told to remove it (tasks.rs:246).
VotersKept ==
    \A d \in Databases : database[d].status = "serving" /\ database[d].ha =>
        /\ Cardinality(cluster[d].voters) >= HA_NODES
        /\ cluster[d].voters \subseteq Live(d)

\* An instance without its generation number, and for a replica its peers.
Substance(r) == [r EXCEPT !.generation = 0, !.peers = IF r.replica THEN {} ELSE @]

\* A host with nothing new to fetch runs what the tables say: every step that
\* changes an instance, its certificate, its secrets, its access, its peers or
\* the replicas it lets in, raises the generation of the host it runs on.
ToldWhatToRun ==
    \A h \in Hosts : ~hosts[h].changed =>
        /\ DOMAIN have[h] = InstancesOn(h)
        /\ \A i \in DOMAIN have[h] : Substance(have[h][i]) = Substance(Instance(i[1], i[2]))

\* While every operation succeeds with every node present, a rotation is never
\* ahead of a node: each node of a database trusts the certificate every other
\* one presents (operations.rs:114), and knows the password the roles have
\* (operations.rs:125).
RotationsAnnounced ==
    ~left_out => \A g, h \in Hosts : \A i \in DOMAIN have[g], j \in DOMAIN have[h] :
        i[1] = j[1] /\ {i[2], j[2]} \subseteq Live(i[1]) =>
            /\ have[g][i].cert \in have[h][j].trust
            /\ cluster[i[1]].role \in {have[g][i].passwords, have[g][i].next}

===============================================================================
