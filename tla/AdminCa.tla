------------------------------- MODULE AdminCa -------------------------------
(***************************************************************************)
(* Replacing the CA of pgcluster-admin, and how hosts come to trust it:    *)
(* enrolment with a token, the phases trust, issue and trim of a rotation, *)
(* and what each enrolled host does with the desired state it polls.       *)
(*                                                                         *)
(* Source: pgcluster-admin/src/{rotation,agent,ca,tls,lib}.rs, api/hosts.rs *)
(* and vk-agent/src/host/{client,mod}.rs.                                  *)
(*                                                                         *)
(* A CA is a number, a bundle the set of the CAs in it, and a fingerprint  *)
(* the CA or bundle it is the hash of.  Every request is taken to make a   *)
(* handshake of its own: a connection kept open only postpones one.        *)
(***************************************************************************)
EXTENDS Naturals, FiniteSets

CONSTANTS
    Hosts,
    Enrolled,       \* the hosts enrolled at the start
    None,
    MaxRotations,   \* bound: rotations started
    MaxFaults       \* bound: crashes, failed steps and lost replies

VARIABLES
    rotation,       \* durable: the row of admin_ca_rotation
    ca_dir,         \* durable: the CA ca.key and ca.crt belong to
    hosts,          \* durable: per host, its row and its token
    ca,             \* AdminState's CA, which signs and is presented
    trusted,        \* the CAs the agent listener accepts
    starting,       \* a call of start has yet to bump the hosts
    advancing,      \* the call of advance under way
    agent,          \* per host, the agent's files and saved desired state
    faults,
    unannounced,    \* history: a phase was stored and its announcement lost
    cut_off         \* history: hosts a lost reply, a crash between two files
                    \* or an enrolment in mid-step has put at odds with their row

server == <<ca, trusted, starting, advancing>>
vars == <<rotation, ca_dir, hosts, server, agent, faults, unannounced, cut_off>>

Idle == [at |-> "idle", to |-> None]

NoHost == [state |-> "absent", generation |-> 1, certificate_ca |-> None,
           ca_fingerprint |-> None, token |-> None]

\* The identity files, the desired state that is saved, and how far an
\* enrolment has come.
NoFiles == [at |-> "new", ca |-> {}, cert |-> None, generation |-> 0,
            bundle |-> None, renew |-> FALSE, offer |-> None]

Init ==
    /\ rotation = None
    /\ ca_dir = [key |-> 0, crt |-> 0]
    /\ hosts = [h \in Hosts |-> IF h \in Enrolled
                   THEN [NoHost EXCEPT !.state = "enrolled", !.certificate_ca = 0,
                                       !.ca_fingerprint = {0}]
                   ELSE NoHost]
    /\ ca = 0 /\ trusted = {0}
    /\ starting = FALSE /\ advancing = Idle
    /\ agent = [h \in Hosts |-> IF h \in Enrolled
                   THEN [NoFiles EXCEPT !.at = "ready", !.ca = {0}, !.cert = 0, !.generation = 1]
                   ELSE NoFiles]
    /\ faults = 0 /\ unannounced = FALSE /\ cut_off = {}

(***************************************************************************)
(* A rotation, in the service.                                             *)
(***************************************************************************)

\* Mutant: the old CA stays in the bundle to the end.
bundle_of_both(r) == {r.old, r.new}

bundle(r) == IF r.phase = "trim" THEN {r.new} ELSE {r.old, r.new}


waiting_for(r) ==
    {h \in Hosts : /\ hosts[h].state = "enrolled"
                   /\ IF r.phase = "issue" THEN hosts[h].certificate_ca # r.new
                      ELSE hosts[h].ca_fingerprint # bundle(r)}

bump_all_hosts ==
    hosts' = [h \in Hosts |-> IF hosts[h].state = "enrolled"
                 THEN [hosts[h] EXCEPT !.generation = @ + 1] ELSE hosts[h]]

\* Ca::store replaces both files, the key first.
store(new) == [key |-> new, crt |-> new]

\* The listeners and the signer of a phase.  trim also replaces the files.
apply(r) ==
    /\ ca' = IF r.phase = "trust" THEN ca ELSE r.new
    /\ trusted' = IF r.phase = "trim" THEN {r.new} ELSE {r.old, r.new}
    /\ ca_dir' = IF r.phase = "trim" THEN store(r.new) ELSE ca_dir

\* The row, then, in the same turn of the handler, the listeners.  A handler
\* that stops after the row leaves the rest to the next phase.
start ==
    /\ rotation = None /\ ~starting /\ ca < MaxRotations
    /\ rotation' = [phase |-> "trust", old |-> ca, new |-> ca + 1]
    /\ \/ /\ apply(rotation')
          /\ starting' = TRUE
          /\ UNCHANGED <<faults, unannounced>>
       \/ /\ faults < MaxFaults
          /\ faults' = faults + 1 /\ unannounced' = TRUE
          /\ UNCHANGED <<ca, trusted, ca_dir, starting>>
    /\ UNCHANGED <<hosts, advancing, agent, cut_off>>

start_bump ==
    /\ starting
    /\ bump_all_hosts
    /\ starting' = FALSE
    /\ UNCHANGED <<rotation, ca_dir, ca, trusted, advancing, agent, faults, unannounced, cut_off>>

\* The reconciler's turn: it looks, and with nobody to wait for goes on to the
\* next phase.
advance ==
    /\ advancing = Idle /\ rotation # None
    /\ waiting_for(rotation) = {}
    /\ advancing' = [at |-> IF rotation.phase = "trim" THEN "store" ELSE "apply",
                     to |-> CASE rotation.phase = "trust" -> "issue"
                              [] rotation.phase = "issue" -> "trim"
                              [] OTHER -> None]
    /\ UNCHANGED <<rotation, ca_dir, hosts, ca, trusted, starting, agent, faults, unannounced, cut_off>>

advance_apply ==
    /\ advancing.at = "apply"
    /\ apply([rotation EXCEPT !.phase = advancing.to])
    /\ advancing' = [advancing EXCEPT !.at = "store"]
    /\ UNCHANGED <<rotation, hosts, starting, agent, faults, unannounced, cut_off>>

advance_store ==
    /\ advancing.at = "store"
    /\ rotation' = IF advancing.to = None THEN None
                   ELSE [rotation EXCEPT !.phase = advancing.to]
    /\ advancing' = [advancing EXCEPT !.at = "bump"]
    /\ UNCHANGED <<ca_dir, hosts, ca, trusted, starting, agent, faults, unannounced, cut_off>>

\* Mutant: the phase is stored and nobody told.
advance_quiet ==
    /\ advancing.at = "bump"
    /\ advancing' = Idle
    /\ UNCHANGED <<rotation, ca_dir, hosts, ca, trusted, starting, agent, faults, unannounced, cut_off>>

advance_bump ==
    /\ advancing.at = "bump"
    /\ bump_all_hosts
    /\ advancing' = Idle
    /\ UNCHANGED <<rotation, ca_dir, ca, trusted, starting, agent, faults, unannounced, cut_off>>

\* History: the announcements a call that ends here leaves unmade.
Unmade == starting \/ (advancing.at = "bump" /\ advancing.to # None)

\* A call returns an error before its next step.
StepFails ==
    /\ faults < MaxFaults
    /\ \/ /\ starting /\ starting' = FALSE
          /\ unannounced' = TRUE
          /\ UNCHANGED advancing
       \/ /\ advancing # Idle /\ advancing' = Idle
          /\ unannounced' = (unannounced \/ (advancing.at = "bump" /\ advancing.to # None))
          /\ UNCHANGED starting
    /\ faults' = faults + 1
    /\ UNCHANGED <<rotation, ca_dir, hosts, ca, trusted, agent, cut_off>>

\* The CA the service presents after a restart: load_or_create, then resume.
Presents == IF rotation = None THEN ca_dir.crt
            ELSE IF rotation.phase = "trust" THEN ca_dir.crt ELSE rotation.new

\* The service stops, between the two files of Ca::store also, and starts again.
resume ==
    /\ faults < MaxFaults
    /\ faults' = faults + 1
    /\ ca' = Presents
    /\ trusted' = IF rotation = None THEN {ca_dir.crt} ELSE bundle(rotation)
    /\ \/ UNCHANGED ca_dir
       \/ /\ advancing.at = "apply" /\ advancing.to = "trim"
          /\ ca_dir' = [ca_dir EXCEPT !.key = rotation.new]
    /\ starting' = FALSE /\ advancing' = Idle
    /\ unannounced' = (unannounced \/ Unmade)
    /\ UNCHANGED <<rotation, hosts, agent, cut_off>>

(***************************************************************************)
(* Enrolment.                                                              *)
(***************************************************************************)

create(h) ==
    /\ hosts[h].state = "absent"
    /\ hosts' = [hosts EXCEPT ![h].state = "created", ![h].token = ca]
    /\ UNCHANGED <<rotation, ca_dir, server, agent, faults, unannounced, cut_off>>

\* A deleted host is revoked, though its certificate has not expired.
delete(h) ==
    /\ hosts[h].state \in {"created", "enrolled"} /\ h \notin Enrolled
    /\ hosts' = [hosts EXCEPT ![h].state = "deleted"]
    /\ UNCHANGED <<rotation, ca_dir, server, agent, faults, unannounced, cut_off>>

\* The agent fetches the CA, and accepts it if the token has its hash.
get_ca(h) ==
    /\ agent[h].at = "new" /\ hosts[h].token # None
    /\ agent' = [agent EXCEPT ![h].at = IF ca = hosts[h].token THEN "fetched" ELSE "refused",
                              ![h].offer = ca]
    /\ UNCHANGED <<rotation, ca_dir, hosts, server, faults, unannounced, cut_off>>

\* The request reaches the service, or the CA presented is not the one fetched
\* and the agent starts over.
post_enroll(h) ==
    /\ agent[h].at = "fetched"
    /\ agent' = [agent EXCEPT ![h].at = IF ca = agent[h].offer THEN "sent" ELSE "new"]
    /\ UNCHANGED <<rotation, ca_dir, hosts, server, faults, unannounced, cut_off>>

\* History: the phase is moving from trust to issue, or the CA the host was
\* given is not the one a restart would present.
MidStep(h) == \/ advancing.to = "issue" /\ advancing.at # "bump"
              \/ agent[h].offer # Presents
              \/ agent[h].offer # ca

\* One transaction uses up the token and enrols the host.  The agent then
\* writes its identity, or the reply is lost, or a crash comes before the last
\* file, and there is no second try.
enroll(h) ==
    /\ agent[h].at = "sent"
    /\ \/ /\ hosts[h].state = "created"
          /\ hosts' = [hosts EXCEPT ![h].state = "enrolled",
                                    ![h].certificate_ca = agent[h].offer]
          /\ \/ /\ agent' = [agent EXCEPT ![h].at = "ready", ![h].ca = {agent[h].offer},
                                         ![h].cert = agent[h].offer]
                /\ UNCHANGED faults
             \/ /\ faults < MaxFaults
                /\ faults' = faults + 1
                /\ agent' = [agent EXCEPT ![h].at = "refused"]
          /\ cut_off' = IF MidStep(h) THEN cut_off \cup {h} ELSE cut_off
       \/ /\ hosts[h].state # "created"
          /\ agent' = [agent EXCEPT ![h].at = "refused"]
          /\ UNCHANGED <<hosts, faults, cut_off>>
    /\ UNCHANGED <<rotation, ca_dir, server, unannounced>>

(***************************************************************************)
(* An enrolled host.                                                       *)
(***************************************************************************)

\* Both sides accept the other's certificate.
Handshake(h) == ca \in agent[h].ca /\ agent[h].cert \in trusted

\* The extractor Host: the request gets through, from a host that is enrolled.
Host(h) == agent[h].at = "ready" /\ Handshake(h) /\ hosts[h].state = "enrolled"

\* The host takes the bundle for its own, unless its key and certificate no
\* longer belong together.
trust(f) == IF f.bundle = None \/ f.cert = None THEN f ELSE [f EXCEPT !.ca = f.bundle]

\* A new generation brings what to trust, during a rotation.  A bundle that
\* cannot be written is logged, and the generation counts as received.
poll(h) ==
    /\ Host(h) /\ hosts[h].generation # agent[h].generation
    /\ LET got == [agent[h] EXCEPT !.generation = hosts[h].generation,
                      !.bundle = IF rotation = None THEN None ELSE bundle(rotation),
                      !.renew = IF rotation = None THEN FALSE ELSE rotation.phase = "issue"] IN
       \/ /\ agent' = [agent EXCEPT ![h] = trust(got)]
          /\ UNCHANGED faults
       \/ /\ got.bundle # None /\ faults < MaxFaults
          /\ faults' = faults + 1
          /\ agent' = [agent EXCEPT ![h] = got]
    /\ UNCHANGED <<rotation, ca_dir, hosts, server, unannounced, cut_off>>

report(h) ==
    /\ Host(h) /\ hosts[h].ca_fingerprint # agent[h].ca
    /\ hosts' = [hosts EXCEPT ![h].ca_fingerprint = agent[h].ca]
    /\ UNCHANGED <<rotation, ca_dir, server, agent, faults, unannounced, cut_off>>

\* A host's certificate comes from the CA the service signs with now.
sign_host_csr == ca

\* The service signs and records; the agent replaces its key, then its
\* certificate.  The reply may be lost, or the agent stop between the two.
rotate_certificate(h) ==
    /\ Host(h)
    /\ hosts[h].certificate_ca # ca \/ agent[h].cert # ca
    /\ hosts' = [hosts EXCEPT ![h].certificate_ca = sign_host_csr]
    /\ \/ /\ agent' = [agent EXCEPT ![h].cert = sign_host_csr]
          /\ cut_off' = cut_off \ {h}
          /\ UNCHANGED faults
       \/ /\ faults < MaxFaults
          /\ faults' = faults + 1 /\ cut_off' = cut_off \cup {h}
          /\ \/ UNCHANGED agent
             \/ agent' = [agent EXCEPT ![h].cert = None]
    /\ UNCHANGED <<rotation, ca_dir, server, unannounced>>

\* In the issue phase, every turn of the loop; otherwise once it is old enough.
renew_certificate(h) == agent[h].renew /\ rotate_certificate(h)

rotate_if_due(h) == ~agent[h].renew /\ rotate_certificate(h)

\* A restarted agent publishes the state it saved, which it trusts again.
Restart(h) ==
    /\ agent[h].at = "ready" /\ trust(agent[h]) # agent[h]
    /\ agent' = [agent EXCEPT ![h] = trust(@)]
    /\ UNCHANGED <<rotation, ca_dir, hosts, server, faults, unannounced, cut_off>>

Advance == advance \/ advance_apply \/ advance_store \/ advance_bump

Next ==
    \/ start \/ start_bump
    \/ Advance
    \/ StepFails \/ resume
    \/ \E h \in Hosts :
          \/ create(h) \/ delete(h)
          \/ get_ca(h) \/ post_enroll(h) \/ enroll(h)
          \/ poll(h) \/ report(h)
          \/ renew_certificate(h) \/ rotate_if_due(h)
          \/ Restart(h)

Spec == Init /\ [][Next]_vars

\* The reconciler's tick, the handler of a rotation that was asked for, and
\* the loop and the reporter of every host.
FairSpec ==
    /\ Spec /\ WF_vars(Advance) /\ WF_vars(start_bump)
    /\ \A h \in Hosts : WF_vars(poll(h)) /\ WF_vars(report(h)) /\ WF_vars(renew_certificate(h))

(***************************************************************************)
(* Properties.                                                             *)
(***************************************************************************)


\* When no rotation is left, the files of the CA belong together, the service
\* accepts that CA alone, every host has a certificate from it, and those that
\* were enrolled when the rotation began trust no other.  A host that enrols
\* during one reports the new CA, may be told of both after that, and is not
\* waited for again.
OldCaRetired ==
    rotation = None =>
        /\ ca_dir = [key |-> ca, crt |-> ca] /\ trusted = {ca}
        /\ \A h \in Hosts :
              agent[h].at = "ready" /\ hosts[h].state = "enrolled" /\ h \notin cut_off
                  => agent[h].cert = ca /\ (h \in Enrolled => agent[h].ca = {ca})

\* Hosts a rotation cannot do without: enrolled, and without an identity, cut
\* off, or with a bundle they failed to write.
Away == {h \in Hosts : /\ hosts[h].state = "enrolled"
                       /\ \/ agent[h].at # "ready" \/ h \in cut_off
                          \/ agent[h].bundle \notin {None, agent[h].ca}}

\* A rotation that is started ends, over restarts and failed steps of the
\* service, unless a phase went unannounced or an enrolled host stays away.
RotationEnds == []<>(rotation = None \/ unannounced \/ Away # {})
=============================================================================
