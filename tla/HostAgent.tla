------------------------------ MODULE HostAgent ------------------------------
(***************************************************************************)
(* `vk-agent host` on one machine: it polls the service for desired state, *)
(* saves it, and makes its instances match, one after the other, in steps  *)
(* that may fail or be cut short by a crash of the agent.  Instances       *)
(* outlive the agent, and it reports on a timer of its own.                *)
(*                                                                         *)
(* Source: vk-agent/src/host/{mod,instance,runner,render,restore}.rs.      *)
(*                                                                         *)
(* A desired instance is the fields its files and its SQL depend on.  What *)
(* a file holds is those fields; what a process runs with is what it read  *)
(* of the files.  External: systemd, Postgres, the leader that seeds a     *)
(* node, and the other nodes of a database with several.                   *)
(***************************************************************************)
EXTENDS Naturals, Sequences, FiniteSets

CONSTANTS
    Instances,      \* instance identifiers
    None,
    Plans,          \* sequences of desired states, one per host generation
    Preloaded,      \* NEEDS_PRELOAD: extensions Postgres has to start with
    MaxFaults       \* bound: failed steps, crashes and changes of role

VARIABLES
    plan,           \* the desired states the service goes through
    asked,          \* the service: the host's generation
    saved,          \* durable: generation of desired.json, 0 for none
    desired,        \* generation held in memory, 0 for none
    needs_retry,
    disk,           \* per instance, its directory, and what systemd and
                    \* nftables hold for it
    proc,           \* per instance and process, what it has read
    db,             \* per instance, what its Postgres holds
    standby,        \* instances whose Postgres is in recovery
    status,         \* SharedStatus
    told,           \* the last report the service received
    pass,           \* the call of reconcile under way
    faults,
    newest,         \* history: the newest generation ever fetched
    unread,         \* history: changes of an instance nobody was told of
    forgot,         \* history: a fetched state could not be saved
    gave_up         \* history: the first pass after a start failed

service == <<plan, asked>>
loop == <<saved, desired, needs_retry>>
history == <<newest, unread, forgot, gave_up>>
vars == <<service, loop, disk, proc, db, standby, status, told, pass, faults, history>>

(***************************************************************************)
(* What each file is made of.                                              *)
(***************************************************************************)

tls(s) == s.secrets

agent_toml(s) == <<s.secrets, s.ha>>

env_file(s) == s.secrets

\* The nodes that may reach this one's peer ports.
node_addresses(s) == IF s.ha THEN s.peers ELSE {}

pg_hba(s) == node_addresses(s)

members(s) == s.peers

backup_section(s) == s.backup

pgcluster_toml(s) == <<s.secrets, members(s), s.access, backup_section(s)>>

preload(s) == s.extensions \cap Preloaded

managed_conf(s) == <<s.resources, s.ha, preload(s)>>

\* The table of nftables: clients on the allowlist, and the database's nodes.
Rules(s) == <<s.access, node_addresses(s)>>

\* bytes: the size of the instance's disk, in a quota of its own.
bytes(s) == s.resources

\* The slice both units run in, which is what changes of a unit file are about.
Limits(s) == s.resources

\* The files every process reloads, and `pgcluster.toml`.
Files(s) == <<tls(s), agent_toml(s), env_file(s), pg_hba(s)>>

NoApplied == [generation |-> 0, verifier |-> None, extensions |-> {}, bootstrapped |-> FALSE]

\* An instance's directory, with nothing in it.
Layout == [applied |-> None, files |-> None, toml |-> None, conf |-> None,
           owed |-> FALSE, data |-> "none", quota |-> None, bhard |-> None,
           rules |-> None, units |-> None, limits |-> None]

NoDatabase == [exists |-> FALSE, verifier |-> None, extensions |-> {}]

Units == {"agent", "proxy"}
Stopped(how) == [state |-> how, files |-> None, toml |-> None, conf |-> None]
Off == [u \in Units |-> Stopped("off")]

units(s) == IF s.replica THEN {"agent"} ELSE Units

Up(i, u) == proc[i][u].state = "up"

is_running(i, s) == \A u \in units(s) : Up(i, u)

\* What a process has read once it has read every file there is.
Read(d) == [state |-> "up", files |-> d.files, toml |-> d.toml, conf |-> d.conf]

Want == IF desired = 0 THEN << >> ELSE plan[desired]

Idle == [at |-> "poll", boot |-> FALSE, todo |-> {}, i |-> None, seen |-> NoApplied,
         reload |-> FALSE, toml |-> FALSE, conf |-> FALSE, wrote |-> FALSE, ok |-> TRUE,
         reports |-> [j \in Instances |-> None]]

NoStatus == [observed |-> 0, instances |-> [i \in Instances |-> None]]

Init ==
    /\ plan \in Plans /\ asked = 1
    /\ saved = 0 /\ desired = 0 /\ needs_retry = FALSE
    /\ disk = [i \in Instances |-> Layout]
    /\ proc = [i \in Instances |-> Off]
    /\ db = [i \in Instances |-> NoDatabase]
    /\ standby = {}
    /\ status = NoStatus /\ told = NoStatus
    /\ pass = [Idle EXCEPT !.at = "boot"]
    /\ faults = 0
    /\ newest = 0 /\ unread = {} /\ forgot = FALSE /\ gave_up = FALSE

(***************************************************************************)
(* The loop.                                                               *)
(***************************************************************************)

reconcile(k, boot) == [Idle EXCEPT !.at = "next", !.boot = boot, !.todo = DOMAIN plan[k]]

\* HostAgent::run, before the loop: a restarted agent resumes what it saved.
load_desired ==
    /\ pass.at = "boot"
    /\ desired' = saved
    /\ pass' = IF saved = 0 THEN Idle ELSE reconcile(saved, TRUE)
    /\ UNCHANGED <<service, saved, needs_retry, disk, proc, db, standby, status, told, faults, history>>

\* A state that cannot be saved is applied all the same.
save_desired ==
    \/ saved' = asked /\ UNCHANGED <<faults, forgot>>
    \/ /\ faults < MaxFaults
       /\ faults' = faults + 1 /\ forgot' = TRUE
       /\ UNCHANGED saved

Changed ==
    /\ pass.at = "poll" /\ asked # desired
    /\ save_desired
    /\ desired' = asked
    /\ newest' = IF asked > newest THEN asked ELSE newest
    /\ pass' = reconcile(asked, FALSE)
    /\ UNCHANGED <<service, needs_retry, disk, proc, db, standby, status, told, unread, gave_up>>

\* Promoted with changes left to apply.
has_work_left(i) ==
    /\ disk[i].applied # None /\ disk[i].data = "ready" /\ i \notin standby
    /\ \/ disk[i].applied.verifier # Want[i].verifier
       \/ disk[i].applied.extensions # Want[i].extensions

health_check == \A i \in DOMAIN Want : is_running(i, Want[i]) /\ ~has_work_left(i)

Unchanged ==
    /\ pass.at = "poll" /\ asked = desired
    /\ needs_retry \/ ~health_check
    /\ pass' = reconcile(desired, FALSE)
    /\ UNCHANGED <<service, loop, disk, proc, db, standby, status, told, faults, history>>

(***************************************************************************)
(* InstanceManager::apply, step by step.                                   *)
(***************************************************************************)

Step(stage, i) == pass.at = stage /\ pass.i = i

\* What this host has recorded of an instance, if it made its directory.
read_applied(i) == IF disk[i].applied = None THEN NoApplied ELSE disk[i].applied

Starting(i) == [status EXCEPT !.instances[i] =
    IF @ = None THEN [generation |-> read_applied(i).generation, state |-> "starting"] ELSE @]

\* The host checks for itself what it is told to run.
validate(s) == s.valid

\* Something outside holds a port of a new instance's block.
ports_in_use(i) ==
    /\ disk[i].applied = None /\ faults < MaxFaults
    /\ faults' = faults + 1

Refused(i) ==
    /\ pass.at = "next" /\ i \in pass.todo
    /\ \/ ~validate(Want[i]) /\ UNCHANGED faults
       \/ validate(Want[i]) /\ ports_in_use(i)
    /\ status' = Starting(i)
    /\ pass' = [pass EXCEPT !.todo = @ \ {i}, !.ok = FALSE,
                            !.reports[i] = [generation |-> read_applied(i).generation,
                                            state |-> "failed"]]
    /\ UNCHANGED <<service, loop, disk, proc, db, standby, told, history>>

\* The directories, and the marker that makes the directory this host's.
prepare_directories(i) ==
    /\ pass.at = "next" /\ i \in pass.todo /\ validate(Want[i])
    /\ disk' = [disk EXCEPT ![i].applied = read_applied(i)]
    /\ status' = Starting(i)
    /\ pass' = [pass EXCEPT !.at = "quota", !.i = i, !.todo = @ \ {i}, !.seen = read_applied(i),
           !.reload = FALSE, !.toml = FALSE, !.conf = FALSE, !.wrote = FALSE]
    /\ UNCHANGED <<service, loop, proc, db, standby, told, faults, history>>

\* quota::apply moves the limit when quota.json records another.
quota_apply(i) ==
    /\ Step("quota", i)
    /\ disk' = IF disk[i].quota = bytes(Want[i]) THEN disk
               ELSE [disk EXCEPT ![i].quota = bytes(Want[i]), ![i].bhard = bytes(Want[i])]
    /\ pass' = [pass EXCEPT !.at = "firewall"]
    /\ UNCHANGED <<service, loop, proc, db, standby, status, told, faults, history>>

\* The table is replaced as a whole, whatever it was.
apply_firewall(i) ==
    /\ Step("firewall", i)
    /\ disk' = [disk EXCEPT ![i].rules = Rules(Want[i])]
    /\ pass' = [pass EXCEPT !.at = "files"]
    /\ UNCHANGED <<service, loop, proc, db, standby, status, told, faults, history>>

write_files(i) ==
    /\ Step("files", i)
    /\ pass' = [pass EXCEPT !.at = "init", !.reload = disk[i].files # Files(Want[i]),
                            !.toml = disk[i].toml # pgcluster_toml(Want[i])]
    /\ disk' = [disk EXCEPT ![i].files = Files(Want[i]), ![i].toml = pgcluster_toml(Want[i])]
    /\ UNCHANGED <<service, loop, proc, db, standby, status, told, faults, history>>

\* A restore starts over until one has been recorded as done: Restorer::run
\* clears the directory and fetches the backup.
Restore(i) ==
    /\ Step("init", i)
    /\ Want[i].bootstrap = "restore" /\ ~pass.seen.bootstrapped
    /\ disk' = [disk EXCEPT ![i].data = "partial"]
    /\ db' = [db EXCEPT ![i] = NoDatabase]
    /\ pass' = [pass EXCEPT !.at = "fetched"]
    /\ UNCHANGED <<service, loop, proc, standby, status, told, faults, history>>

\* What Postgres is to recover, and to leave out of what the source was set to.
prepare_recovery(i) ==
    /\ Step("fetched", i)
    /\ pass' = [pass EXCEPT !.at = "restore"]
    /\ UNCHANGED <<service, loop, disk, proc, db, standby, status, told, faults, history>>

\* A private server recovers the data, and its roles become this database's.
recover_and_adopt(i) ==
    /\ Step("restore", i)
    /\ disk' = [disk EXCEPT ![i].data = "ready"]
    /\ db' = [db EXCEPT ![i] = [exists |-> TRUE, verifier |-> Want[i].verifier, extensions |-> {}]]
    /\ pass' = [pass EXCEPT !.at = "adopted"]
    /\ UNCHANGED <<service, loop, proc, standby, status, told, faults, history>>


Restored(i) ==
    /\ Step("adopted", i)
    /\ disk' = [disk EXCEPT ![i].applied =
           [NoApplied EXCEPT !.verifier = Want[i].verifier, !.extensions = pass.seen.extensions,
                             !.bootstrapped = TRUE]]
    /\ pass' = [pass EXCEPT !.at = "conf"]
    /\ UNCHANGED <<service, loop, proc, db, standby, status, told, faults, history>>

initialize(i) ==
    /\ Step("init", i)
    /\ ~(Want[i].bootstrap = "restore" /\ ~pass.seen.bootstrapped)
    /\ disk' = [disk EXCEPT ![i].data = IF Want[i].bootstrap = "initdb" THEN "ready" ELSE @]
    /\ pass' = [pass EXCEPT !.at = "conf"]
    /\ UNCHANGED <<service, loop, proc, db, standby, status, told, faults, history>>

write_conf(i) ==
    /\ Step("conf", i)
    /\ pass' = [pass EXCEPT !.at = "install", !.conf = disk[i].conf # managed_conf(Want[i])]
    /\ disk' = [disk EXCEPT ![i].conf = managed_conf(Want[i])]
    /\ UNCHANGED <<service, loop, proc, db, standby, status, told, faults, history>>

\* Runner::install writes the unit files that differ, and only then has systemd
\* read them and change the limits of what runs.
install(i) ==
    /\ Step("install", i)
    /\ disk' = [disk EXCEPT ![i].units = Limits(Want[i])]
    /\ pass' = [pass EXCEPT !.at = IF disk[i].units = Limits(Want[i]) THEN "mark" ELSE "limits"]
    /\ UNCHANGED <<service, loop, proc, db, standby, status, told, faults, history>>

set_property(i) ==
    /\ Step("limits", i)
    /\ disk' = [disk EXCEPT ![i].limits = disk[i].units]
    /\ unread' = unread \ {<<i, "limits">>}
    /\ pass' = [pass EXCEPT !.at = "mark"]
    /\ UNCHANGED <<service, loop, proc, db, standby, status, told, faults, newest, forgot, gave_up>>

\* Mutant: a reload owed by an earlier pass is not taken up.
mark_owed_anew(i) ==
    /\ Step("mark", i)
    /\ disk' = [disk EXCEPT ![i].owed = @ \/ pass.reload \/ pass.toml]
    /\ pass' = [pass EXCEPT !.at = "run"]
    /\ UNCHANGED <<service, loop, proc, db, standby, status, told, faults, history>>

\* The marker: a reload that failed is owed, though the files no longer change.
mark_owed(i) ==
    /\ Step("mark", i)
    /\ LET reload == pass.reload \/ disk[i].owed IN
       /\ disk' = [disk EXCEPT ![i].owed = @ \/ reload \/ pass.toml]
       /\ pass' = [pass EXCEPT !.at = "run", !.reload = reload]
    /\ UNCHANGED <<service, loop, proc, db, standby, status, told, faults, history>>

\* The processes that are not running start, and read what is on disk.
start(i) == [u \in Units |->
    IF u \in units(Want[i]) /\ ~Up(i, u) THEN Read(disk[i]) ELSE proc[i][u]]

restart(i) == [u \in Units |-> IF u \in units(Want[i]) THEN Read(disk[i]) ELSE proc[i][u]]

\* SIGHUP and pg_ctl reload read every file but `postgresql.conf`.
Reread(i, u) == [Read(disk[i]) EXCEPT !.conf = proc[i][u].conf]

reload_proxy(i) == [proc[i] EXCEPT !["proxy"] = Reread(i, "proxy")]

reload_all(i) == [u \in Units |-> IF u \in units(Want[i]) THEN Reread(i, u) ELSE proc[i][u]]

\* History: processes left running over changed files by a start.
LeftUnread(i) ==
    {<<i, "files">> : u \in {v \in units(Want[i]) : Up(i, v) /\ (pass.reload \/ pass.toml)}}
        \cup {<<i, "conf">> : u \in {v \in {"agent"} : Up(i, v) /\ pass.conf /\ ~Want[i].ha}}

Processes(i) ==
    \/ /\ ~is_running(i, Want[i])
       /\ proc' = [proc EXCEPT ![i] = start(i)]
       /\ unread' = LeftUnread(i) \cup
              IF \E u \in units(Want[i]) : Up(i, u) THEN unread
              ELSE unread \ {<<i, "files">>, <<i, "conf">>}
    \/ /\ is_running(i, Want[i]) /\ pass.conf /\ ~Want[i].ha
       /\ proc' = [proc EXCEPT ![i] = restart(i)]
       /\ unread' = unread \ {<<i, "files">>, <<i, "conf">>}
    \/ /\ is_running(i, Want[i]) /\ ~(pass.conf /\ ~Want[i].ha) /\ pass.reload
       /\ proc' = [proc EXCEPT ![i] = reload_all(i)]
       /\ unread' = unread \ {<<i, "files">>}
    \/ /\ is_running(i, Want[i]) /\ ~(pass.conf /\ ~Want[i].ha) /\ ~pass.reload
       /\ proc' = [proc EXCEPT ![i] =
              IF pass.toml /\ "proxy" \in units(Want[i]) THEN reload_proxy(i) ELSE @]
       /\ UNCHANGED unread

Report(g, state) == [generation |-> g, state |-> state]

\* Start, restart or reload, then the marker goes.  A node with no data waits
\* for the leader to seed it.
run_processes(i) ==
    /\ Step("run", i)
    /\ Processes(i)
    /\ disk' = [disk EXCEPT ![i].owed = FALSE,
                            ![i].limits = IF @ = None THEN disk[i].units ELSE @]
    /\ pass' = IF disk[i].data = "ready" THEN [pass EXCEPT !.at = "roles"]
               ELSE [pass EXCEPT !.at = "next", !.i = None, !.ok = FALSE,
                                 !.reports[i] = Report(pass.seen.generation, "seeding")]
    /\ UNCHANGED <<service, loop, db, standby, status, told, faults, newest, forgot, gave_up>>

\* Postgres answers, to the current password or the next.
connect_ready(i) == Up(i, "agent")

\* A proxy, where there is one, has found the primary.
wait_for_proxy(i) == Want[i].replica \/ is_running(i, Want[i])

\* On a primary: the owner's role and the database, and the owner's verifier
\* when it differs from the one recorded.
apply_roles(i) ==
    /\ Step("roles", i) /\ connect_ready(i)
    /\ db' = [db EXCEPT ![i] =
           IF i \in standby THEN @
           ELSE IF ~@.exists THEN [@ EXCEPT !.exists = TRUE, !.verifier = Want[i].verifier]
           ELSE IF pass.seen.verifier # Want[i].verifier THEN [@ EXCEPT !.verifier = Want[i].verifier]
           ELSE @]
    /\ pass' = [pass EXCEPT !.at = IF i \in standby THEN "proxy" ELSE "extensions"]
    /\ UNCHANGED <<service, loop, disk, proc, standby, status, told, faults, history>>

\* Those recorded and no longer wanted are dropped, and those wanted created,
\* when the server runs with the libraries they need.
apply_extensions(i) ==
    /\ Step("extensions", i) /\ connect_ready(i)
    /\ LET loaded == proc[i]["agent"].conf[3]
           ready == {e \in Want[i].extensions : e \in Preloaded => e \in loaded} IN
       db' = [db EXCEPT ![i].extensions =
           (@ \ (pass.seen.extensions \ Want[i].extensions)) \cup ready]
    /\ pass' = [pass EXCEPT !.at = "proxy", !.wrote = TRUE]
    /\ UNCHANGED <<service, loop, disk, proc, standby, status, told, faults, history>>


\* The record.  A standby keeps the old verifier and
\* extensions, so that it finishes the job if it is promoted.
write_applied(i) ==
    /\ Step("proxy", i) /\ wait_for_proxy(i)
    /\ LET from == IF pass.wrote THEN Want[i] ELSE pass.seen IN
       disk' = [disk EXCEPT ![i].applied =
           [generation |-> Want[i].generation, bootstrapped |-> TRUE,
            verifier |-> from.verifier, extensions |-> from.extensions]]
    /\ pass' = [pass EXCEPT !.at = "next", !.i = None,
                            !.reports[i] = Report(Want[i].generation, "running")]
    /\ UNCHANGED <<service, loop, proc, db, standby, status, told, faults, history>>

(***************************************************************************)
(* Failures.                                                               *)
(***************************************************************************)

Stages == {"quota", "firewall", "files", "init", "fetched", "restore", "adopted", "conf", "install", "limits",
           "mark", "run", "roles", "extensions", "proxy"}

\* History: changes a pass on i that ends here has written and told nobody of.
Untold(i) ==
    {<<i, "files">> : x \in {y \in {1} :
        /\ pass.at \in {"init", "fetched", "restore", "adopted", "conf", "install", "limits", "mark"}
        /\ (pass.reload \/ pass.toml) /\ ~disk[i].owed}}
    \cup {<<i, "conf">> : x \in {y \in {1} :
        pass.at \in {"install", "limits", "mark", "run"} /\ pass.conf /\ ~Want[i].ha}}
    \cup {<<i, "limits">> : x \in {y \in {1} : pass.at = "limits"}}

Failed(i) == [pass EXCEPT !.at = "next", !.i = None, !.ok = FALSE,
                          !.reports[i] = Report(pass.seen.generation, "failed")]

\* A step of apply fails before it has done anything.
StepFails(i) ==
    /\ pass.i = i /\ pass.at \in Stages /\ faults < MaxFaults
    /\ faults' = faults + 1
    /\ pass' = Failed(i)
    /\ unread' = unread \cup Untold(i)
    /\ UNCHANGED <<service, loop, disk, proc, db, standby, status, told, newest, forgot, gave_up>>

\* write_files fails after the files that reload, and before `pgcluster.toml`.
WriteFails(i) ==
    /\ Step("files", i) /\ faults < MaxFaults
    /\ faults' = faults + 1
    /\ disk' = [disk EXCEPT ![i].files = Files(Want[i])]
    /\ pass' = Failed(i)
    /\ unread' = IF disk[i].files # Files(Want[i]) THEN unread \cup {<<i, "files">>} ELSE unread
    /\ UNCHANGED <<service, loop, proc, db, standby, status, told, newest, forgot, gave_up>>

\* connect_ready and wait_for_proxy give up on processes that have stopped.
NotReady(i) ==
    /\ pass.i = i
    /\ \/ pass.at \in {"roles", "extensions"} /\ ~connect_ready(i)
       \/ pass.at = "proxy" /\ ~wait_for_proxy(i)
    /\ pass' = Failed(i)
    /\ UNCHANGED <<service, loop, disk, proc, db, standby, status, told, faults, history>>

\* The agent stops anywhere: what it held in memory is gone.
Crash ==
    /\ pass.at # "boot" /\ faults < MaxFaults
    /\ faults' = faults + 1
    /\ pass' = [Idle EXCEPT !.at = "boot"]
    /\ desired' = 0 /\ needs_retry' = FALSE
    /\ status' = NoStatus
    /\ unread' = IF pass.at \in Stages THEN unread \cup Untold(pass.i) ELSE unread
    /\ gave_up' = FALSE
    /\ UNCHANGED <<service, saved, disk, proc, db, standby, told, newest, forgot>>

\* A crash during initdb leaves a partial directory, and one while a
\* directory is deleted leaves what was not deleted yet.
CrashMidway ==
    /\ faults < MaxFaults
    /\ \E i \in Instances :
          \/ /\ Step("init", i) /\ Want[i].bootstrap = "initdb" /\ disk[i].data = "none"
             /\ disk' = [disk EXCEPT ![i].data = "partial"]
             /\ UNCHANGED db
          \/ /\ Step("erase", i)
             /\ disk' \in {[disk EXCEPT ![i] = [Layout EXCEPT !.applied = disk[i].applied]],
                           [disk EXCEPT ![i].applied = None]}
             /\ db' = [db EXCEPT ![i] = NoDatabase]
    /\ faults' = faults + 1
    /\ pass' = [Idle EXCEPT !.at = "boot"]
    /\ desired' = 0 /\ needs_retry' = FALSE
    /\ status' = NoStatus
    /\ unread' = IF pass.at \in Stages THEN unread \cup Untold(pass.i) ELSE unread
    /\ gave_up' = FALSE
    /\ UNCHANGED <<service, saved, proc, standby, told, newest, forgot>>

(***************************************************************************)
(* Instances that are no longer wanted.                                    *)
(***************************************************************************)

\* instances_on_disk, without the directories this host did not create.
instances_on_disk ==
    /\ pass.at = "next" /\ pass.todo = {}
    /\ pass' = [pass EXCEPT !.at = "sweep",
           !.todo = {i \in Instances : disk[i].applied # None} \ DOMAIN Want]
    /\ UNCHANGED <<service, loop, disk, proc, db, standby, status, told, faults, history>>

\* remove: stop the processes and forget their units, then their rules
\* and quota, then erase the directory.
stop(i) ==
    /\ pass.at = "sweep" /\ i \in pass.todo
    /\ proc' = [proc EXCEPT ![i] = Off]
    /\ disk' = [disk EXCEPT ![i].units = None, ![i].limits = None]
    /\ unread' = unread \ {<<i, "files">>, <<i, "conf">>, <<i, "limits">>}
    /\ pass' = [pass EXCEPT !.at = "rules", !.i = i, !.todo = @ \ {i}]
    /\ UNCHANGED <<service, loop, db, standby, status, told, faults, newest, forgot, gave_up>>

remove_rules(i) ==
    /\ Step("rules", i)
    /\ disk' = [disk EXCEPT ![i].rules = None, ![i].bhard = None]
    /\ unread' = unread \cup {<<i, "quota">>}
    /\ pass' = [pass EXCEPT !.at = "erase"]
    /\ UNCHANGED <<service, loop, proc, db, standby, status, told, faults, newest, forgot, gave_up>>

remove(i) ==
    /\ Step("erase", i)
    /\ disk' = [disk EXCEPT ![i] = Layout]
    /\ db' = [db EXCEPT ![i] = NoDatabase]
    /\ standby' = standby \ {i}
    /\ unread' = unread \ {<<i, "quota">>}
    /\ pass' = [pass EXCEPT !.at = "sweep", !.i = None]
    /\ UNCHANGED <<service, loop, proc, status, told, faults, newest, forgot, gave_up>>

RemoveFails(i) ==
    /\ faults < MaxFaults
    /\ \/ pass.at = "sweep" /\ i \in pass.todo
       \/ Step("rules", i)
       \/ Step("erase", i)
    /\ faults' = faults + 1
    /\ pass' = [pass EXCEPT !.at = "sweep", !.i = None, !.todo = @ \ {i}, !.ok = FALSE]
    /\ UNCHANGED <<service, loop, disk, proc, db, standby, status, told, history>>


observed_generation == IF pass.ok THEN desired ELSE status.observed

\* The end of reconcile.  run drops the result of the pass it makes at start.
Finish ==
    /\ pass.at = "sweep" /\ pass.todo = {}
    /\ status' = [observed |-> observed_generation, instances |-> pass.reports]
    /\ needs_retry' = (~pass.boot /\ ~pass.ok)
    /\ gave_up' = (pass.boot /\ ~pass.ok)
    /\ pass' = Idle
    /\ UNCHANGED <<service, saved, desired, disk, proc, db, standby, told, faults,
                   newest, unread, forgot>>

\* The reporter's timer.
spawn_reporter ==
    /\ pass.at # "boot" /\ told # status
    /\ told' = status
    /\ UNCHANGED <<service, loop, disk, proc, db, standby, status, pass, faults, history>>

(***************************************************************************)
(* Around the agent.                                                       *)
(***************************************************************************)

\* The service changes what it wants of this host.
Ask ==
    /\ asked < Len(plan)
    /\ asked' = asked + 1
    /\ UNCHANGED <<plan, loop, disk, proc, db, standby, status, told, pass, faults, history>>

\* A process dies, and systemd starts its unit again.
Dies(i, u) ==
    /\ Up(i, u) /\ faults < MaxFaults
    /\ faults' = faults + 1
    /\ proc' = [proc EXCEPT ![i][u] = Stopped("down")]
    /\ UNCHANGED <<service, loop, disk, db, standby, status, told, pass, history>>

Respawn(i, u) ==
    /\ proc[i][u].state = "down"
    /\ proc' = [proc EXCEPT ![i][u] = Read(disk[i])]
    /\ UNCHANGED <<service, loop, disk, db, standby, status, told, pass, faults, history>>

\* The leader fills a node that waits for it, as a standby.
seed_node(i) ==
    /\ disk[i].applied # None /\ disk[i].data = "none" /\ Up(i, "agent")
    /\ i \in DOMAIN Want /\ Want[i].bootstrap = "seed"
    /\ disk' = [disk EXCEPT ![i].data = "ready"]
    /\ \E k \in 1 .. asked :
          /\ i \in DOMAIN plan[k]
          /\ db' = [db EXCEPT ![i] = [exists |-> TRUE, verifier |-> plan[k][i].verifier,
                                      extensions |-> {}]]
    /\ proc' = [proc EXCEPT ![i]["agent"].conf = disk[i].conf]
    /\ standby' = standby \cup {i}
    /\ UNCHANGED <<service, loop, status, told, pass, faults, history>>

\* A standby is promoted; what the primary's own agent applied reaches a
\* standby by replication; a rolling restart loads `postgresql.conf`.
Promote(i) ==
    /\ i \in standby /\ faults < MaxFaults
    /\ faults' = faults + 1
    /\ standby' = standby \ {i}
    /\ UNCHANGED <<service, loop, disk, proc, db, status, told, pass, history>>

Replicate(i) ==
    /\ i \in standby /\ i \in DOMAIN plan[asked]
    /\ db' = [db EXCEPT ![i].verifier = plan[asked][i].verifier,
                        ![i].extensions = plan[asked][i].extensions]
    /\ db' # db
    /\ UNCHANGED <<service, loop, disk, proc, standby, status, told, pass, faults, history>>

rolling_restart(i) ==
    /\ i \in DOMAIN Want /\ Want[i].ha /\ Up(i, "agent")
    /\ proc[i]["agent"].conf # disk[i].conf
    /\ proc' = [proc EXCEPT ![i]["agent"].conf = disk[i].conf]
    /\ UNCHANGED <<service, loop, disk, db, standby, status, told, pass, faults, history>>

Apply(i) ==
    \/ Refused(i)
    \/ prepare_directories(i)
    \/ quota_apply(i)
    \/ apply_firewall(i)
    \/ write_files(i)
    \/ Restore(i)
    \/ prepare_recovery(i)
    \/ recover_and_adopt(i)
    \/ Restored(i)
    \/ initialize(i)
    \/ write_conf(i)
    \/ install(i)
    \/ set_property(i)
    \/ mark_owed(i)
    \/ run_processes(i)
    \/ apply_roles(i)
    \/ apply_extensions(i)
    \/ write_applied(i)
    \/ NotReady(i)
    \/ stop(i)
    \/ remove_rules(i)
    \/ remove(i)

run == load_desired \/ Changed \/ Unchanged \/ instances_on_disk \/ Finish
           \/ \E i \in Instances : Apply(i)

Fault ==
    \/ Crash
    \/ CrashMidway
    \/ \E i \in Instances : StepFails(i) \/ WriteFails(i) \/ RemoveFails(i) \/ Promote(i)
    \/ \E i \in Instances, u \in Units : Dies(i, u)

Next ==
    \/ Ask
    \/ run
    \/ spawn_reporter
    \/ \E i \in Instances : seed_node(i) \/ Replicate(i) \/ rolling_restart(i)
    \/ \E i \in Instances, u \in Units : Respawn(i, u)
    \/ Fault

Spec == Init /\ [][Next]_vars

\* The agent's loop and its reporter keep running, and the leader seeds a node
\* that waits for it.
FairSpec == Spec /\ WF_vars(run) /\ WF_vars(spawn_reporter)
                 /\ \A i \in Instances : WF_vars(seed_node(i))

(***************************************************************************)
(* Properties.                                                             *)
(***************************************************************************)

\* The desired states of an instance from a generation on.
Since(i, g) == {s \in {plan[k][i] : k \in {j \in 1 .. newest : i \in DOMAIN plan[j]}} :
                   s.generation >= g}

\* What a report of "running" means to the service (wait_applied): whichever
\* way the instance got there, over failed steps, retries and restarts of the
\* agent, its processes run with the files of that generation or a later one,
\* behind the firewall rules and within the quota and limits of one.  The exceptions are
\* changes a pass wrote and told nobody of, and a quota lifted by a removal
\* that did not finish (`unread`).
ReportedIsLoaded ==
    \A i \in Instances :
        LET r == status.instances[i] IN
        r # None /\ r.state = "running" =>
            \A u \in {v \in Units : Up(i, v)} :
                /\ \E s \in Since(i, r.generation) : disk[i].rules = Rules(s)
                /\ \/ <<i, "quota">> \in unread
                   \/ \E s \in Since(i, r.generation) : disk[i].bhard = bytes(s)
                /\ \/ <<i, "limits">> \in unread
                   \/ \E s \in Since(i, r.generation) : disk[i].limits = Limits(s)
                /\ \E s \in Since(i, r.generation) :
                    /\ <<i, "files">> \in unread \/ proc[i][u].files = Files(s)
                    /\ \/ u = "agent" \/ <<i, "files">> \in unread
                       \/ proc[i][u].toml = pgcluster_toml(s)
                    /\ \/ u = "proxy" \/ s.ha \/ <<i, "conf">> \in unread
                       \/ proc[i][u].conf = managed_conf(s)



\* What the service was last told is the state it last asked for, and a
\* primary, one promoted late included, has the owner's verifier and extensions.
Settled ==
    /\ told.observed = asked
    /\ \A i \in DOMAIN plan[asked] :
          /\ told.instances[i] = Report(plan[asked][i].generation, "running")
          /\ i \notin standby =>
                /\ db[i].verifier = plan[asked][i].verifier
                /\ plan[asked][i].extensions \ Preloaded \subseteq db[i].extensions

=============================================================================
