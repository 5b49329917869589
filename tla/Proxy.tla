-------------------------------- MODULE Proxy --------------------------------
(***************************************************************************)
(* The SQL proxy of one pgcluster process: admission of clients            *)
(* (src/pgcluster/src/proxy/limits.rs, mod.rs), one task per client        *)
(* (connection.rs, session.rs), the router it asks (router.rs) and the     *)
(* connection pool the tasks share (pool.rs, backend.rs).                  *)
(*                                                                         *)
(* Client tasks run on several threads, so what one does between two       *)
(* awaits, or between two atomic operations on a counter, is one step.     *)
(* All clients have one database and one user, so the pool has one bucket  *)
(* for each backend node.  A backend connection is a record: the node, if  *)
(* it still works, and where its transaction stands.  Its owner is a       *)
(* bucket's idle list or a session, as in the code, where it moves from    *)
(* one to the other.                                                       *)
(***************************************************************************)
EXTENDS Integers, Sequences, SequencesExt, FiniteSets

CONSTANTS
    Sessions,       \* client connections
    Nodes,          \* backends
    Addresses,      \* client addresses
    AddressOf,      \* the address a client connects from
    MaxPerUser,     \* max_connections_per_db_user
    MaxClients,     \* max_client_connections
    MaxPending,     \* max_pending_logins
    MaxPerAddress,  \* max_pending_logins_per_address
    MaxFaults,      \* bound: failures, drains, lapses and new topologies
    None

ASSUME ProxyAssumption ==
    /\ AddressOf \in [Sessions -> Addresses]
    /\ {MaxPerUser, MaxClients, MaxPending, MaxPerAddress, MaxFaults} \subseteq Nat
    /\ None \notin Nodes

VARIABLES
    primary,    \* the published topology's primary, None when it has none
    readable,   \* its replicas within max_replica_lag_bytes
    lease,      \* whether the quorum lease is held
    draining,   \* Router::draining
    idle,       \* PoolBucket::idle, for each node
    total,      \* PoolBucket::total
    permit,     \* PoolBucket::released holds a wake-up nobody waited for
    limits,     \* free permits, and pending logins for each address
    sess,       \* the client tasks
    leaked,     \* history: connections dropped with their slot still counted
    faults

vars == <<primary, readable, lease, draining, idle, total, permit, limits, sess,
          leaked, faults>>

router == <<primary, readable, lease, draining>>
pool == <<idle, total, permit, leaked>>

\* A BackendConnection, and a session.  A connection's txn is "I" or "T",
\* ReadyForQuery's bytes (a failed transaction, "E", is routed as "T" is: nothing
\* sets is_read_only), or "X": it has input the backend has not answered, a
\* pipeline before its Sync, or an open COPY.
Fresh(n) == [node |-> n, alive |-> TRUE, txn |-> "I"]
Gone == [pc |-> "out", txn |-> "I", used_set |-> FALSE, conn |-> None,
         want |-> None, late |-> FALSE, answers |-> FALSE]

Init ==
    /\ primary \in Nodes /\ readable \in SUBSET (Nodes \ {primary})
    /\ lease = TRUE /\ draining = FALSE
    /\ idle = [n \in Nodes |-> <<>>]
    /\ total = [n \in Nodes |-> 0] /\ leaked = [n \in Nodes |-> 0]
    /\ permit = [n \in Nodes |-> FALSE]
    /\ limits = [total |-> MaxClients, pending |-> MaxPending,
                 per_address |-> [a \in Addresses |-> 0]]
    /\ sess = [s \in Sessions |-> Gone]
    /\ faults = 0

-----------------------------------------------------------------------------
(* The router, and what it reads: the topology and the lease.              *)

Republish ==
    /\ \E p \in Nodes \cup {None} :
         /\ primary' = p
         /\ readable' \in SUBSET (Nodes \ {p})
    /\ faults < MaxFaults /\ faults' = faults + 1
    /\ UNCHANGED <<lease, draining, pool, limits, sess>>

\* The lease lapses when no round of probes reaches a majority in time, and
\* is renewed by the next one that does.
LapseLease ==
    /\ lease /\ faults < MaxFaults
    /\ lease' = FALSE /\ faults' = faults + 1
    /\ UNCHANGED <<primary, readable, draining, pool, limits, sess>>

RenewLease ==
    /\ ~lease
    /\ lease' = TRUE
    /\ UNCHANGED <<primary, readable, draining, pool, limits, sess, faults>>

begin_drain ==
    /\ ~draining /\ faults < MaxFaults
    /\ draining' = TRUE /\ faults' = faults + 1
    /\ UNCHANGED <<primary, readable, lease, pool, limits, sess>>

end_drain ==
    /\ draining
    /\ draining' = FALSE
    /\ UNCHANGED <<primary, readable, lease, pool, limits, sess, faults>>

\* The replica the code takes is the one that lags least: any of them here.
read_backend == IF readable # {} THEN readable ELSE {primary}

\* What a simple query's text says it does.
classify_statement == {"write", "set", "read"}

needs_primary(st) == st.txn # "I"

\* Router targets for a statement of the given intent.
route_intent(st, intent) ==
    IF intent = "read" /\ ~needs_primary(st) /\ ~st.used_set
    THEN "replica_or_primary" ELSE "primary"

resolve_backend(target) ==
    IF target = "primary" THEN {primary} ELSE read_backend

-----------------------------------------------------------------------------
(* The pool.                                                               *)

\* A peek at the socket: a broken connection may go unnoticed, and an answer
\* nobody has read counts as broken.
is_alive(c) == IF c.alive /\ c.txn # "X" THEN {TRUE} ELSE BOOLEAN

\* A wake-up goes to a session that waits, else it is kept for the next one.
notify_one(n, ss) ==
    LET waiting == {w \in Sessions : ss[w].pc = "wait" /\ ss[w].want = n}
    IN  IF waiting = {}
        THEN sess' = ss /\ permit' = [permit EXCEPT ![n] = TRUE]
        ELSE /\ \E w \in waiting : sess' = [ss EXCEPT ![w].pc = "acquire"]
             /\ UNCHANGED permit


\* Session s gives its connection back and goes on as st.
release(s, c, st) ==
    \E ok \in is_alive(c) :
        /\ IF ok
           THEN /\ idle' = [idle EXCEPT ![c.node] = Append(@, c)]
                /\ UNCHANGED total
                /\ notify_one(c.node, [sess EXCEPT ![s] = st])
           ELSE /\ total' = [total EXCEPT ![c.node] = @ - 1]
                /\ sess' = [sess EXCEPT ![s] = st]
                /\ UNCHANGED <<idle, permit>>
        /\ UNCHANGED leaked

\* The connection of a client's login joins the idle ones, in the place of the
\* oldest when there are max already.
inject(s) ==
    LET n == sess[s].want
        full == Len(idle[n]) >= MaxPerUser
    IN  /\ sess[s].pc = "inject"
        /\ idle' = [idle EXCEPT ![n] =
                        Append(IF full THEN Tail(@) ELSE @, sess[s].conn)]
        /\ total' = [total EXCEPT ![n] = IF full THEN @ - 1 ELSE @]
        /\ notify_one(n, [sess EXCEPT ![s].pc = "read", ![s].conn = None,
                                      ![s].want = None])
        /\ UNCHANGED <<leaked, router, limits, faults>>

\* The loop of acquire: the idle list from its end, broken connections thrown
\* away; then, with none left, the limit; then the deadline; then a wait.  The
\* kept connections are the ones before the k-th from the end.
acquire(s) ==
    LET n == sess[s].want
        keep(k) == SubSeq(idle[n], 1, Len(idle[n]) - k)
        dead(k) == \A i \in Len(idle[n]) - k + 1 .. Len(idle[n]) :
                        FALSE \in is_alive(idle[n][i])
    IN  /\ sess[s].pc = "acquire"
        /\ \/ \E k \in 1 .. Len(idle[n]) :
                /\ dead(k - 1)
                /\ TRUE \in is_alive(idle[n][Len(idle[n]) - k + 1])
                /\ idle' = [idle EXCEPT ![n] = keep(k)]
                /\ total' = [total EXCEPT ![n] = @ - (k - 1)]
                /\ sess' = [sess EXCEPT ![s].pc = "forward",
                                        ![s].conn = idle[n][Len(idle[n]) - k + 1]]
                /\ UNCHANGED permit
           \/ /\ dead(Len(idle[n]))
              /\ idle' = [idle EXCEPT ![n] = <<>>]
              /\ total' = [total EXCEPT ![n] = @ - Len(idle[n])]
              /\ IF total[n] - Len(idle[n]) < MaxPerUser
                 THEN /\ sess' = [sess EXCEPT ![s].pc = "reserve"]
                      /\ UNCHANGED permit
                 ELSE IF sess[s].late
                 THEN /\ sess' = [sess EXCEPT ![s].pc = "read", ![s].want = None,
                                              ![s].late = FALSE]
                      /\ UNCHANGED permit
                 ELSE /\ sess' = [sess EXCEPT ![s].pc =
                                    IF permit[n] THEN "acquire" ELSE "wait"]
                      /\ permit' = [permit EXCEPT ![n] = FALSE]
        /\ UNCHANGED <<leaked, router, limits, faults>>


\* connect_timeout_seconds have passed since the acquire began.
DeadlinePasses(s) ==
    /\ sess[s].pc \in {"acquire", "wait"} /\ ~sess[s].late
    /\ sess' = [sess EXCEPT ![s].pc = "acquire", ![s].late = TRUE]
    /\ UNCHANGED <<router, pool, limits, faults>>

\* The limit was read before: another session may have taken the slot since.
increment(s) ==
    /\ sess[s].pc = "reserve"
    /\ total' = [total EXCEPT ![sess[s].want] = @ + 1]
    /\ sess' = [sess EXCEPT ![s].pc = "open"]
    /\ UNCHANGED <<idle, permit, leaked, router, limits, faults>>

\* How a login to a backend with the client's keys ends.
login_to_backend == {"connected", "refused"}

\* The login to the backend ends: a new connection, or an error to the client
\* and the slot given up.
OpenReturns(s) ==
    /\ sess[s].pc = "open"
    /\ \E r \in login_to_backend :
         IF r = "connected"
         THEN /\ sess' = [sess EXCEPT ![s].pc = "forward",
                                      ![s].conn = Fresh(sess[s].want)]
              /\ UNCHANGED total
         ELSE /\ sess' = [sess EXCEPT ![s].pc = "read", ![s].want = None,
                                      ![s].late = FALSE]
              /\ total' = [total EXCEPT ![sess[s].want] = @ - 1]
    /\ UNCHANGED <<idle, permit, leaked, router, limits, faults>>

\* The reaper: the connections idle longest, which come first, go.
evict_idle(n) ==
    /\ \E k \in 1 .. Len(idle[n]) :
         /\ idle' = [idle EXCEPT ![n] = SubSeq(@, k + 1, Len(@))]
         /\ total' = [total EXCEPT ![n] = @ - k]
    /\ UNCHANGED <<permit, leaked, router, limits, sess, faults>>

-----------------------------------------------------------------------------
(* Clients: admission, login, the message loop.                            *)

\* A guard whose drop forgets the address.
LoginDone_keeps_address(a, ls) == [ls EXCEPT !.pending = @ + 1]

\* The permits an ended or logged-in client gives back.
LoginDone(a, ls) == [ls EXCEPT !.pending = @ + 1, !.per_address[a] = @ - 1]

admit(s) ==
    /\ sess[s].pc = "out"
    /\ limits.total > 0
    /\ limits.per_address[AddressOf[s]] < MaxPerAddress
    /\ limits.pending > 0
    /\ limits' = [limits EXCEPT !.total = @ - 1, !.pending = @ - 1,
                                !.per_address[AddressOf[s]] = @ + 1]
    /\ sess' = [sess EXCEPT ![s].pc = "startup"]
    /\ UNCHANGED <<router, pool, faults>>

\* The task ends before the client has logged in.  LoginGuard's drop and the
\* permit's count it out.
LoginEnds(s) ==
    /\ sess' = [sess EXCEPT ![s] = Gone]
    /\ limits' = LoginDone(AddressOf[s], [limits EXCEPT !.total = @ + 1])

\* Refused while draining, without quorum and without a primary.
Welcome == ~draining /\ lease /\ primary # None

\* The role's verifier, read from the primary with the auth role's password or
\* the next one.
verifier == {"found", "unavailable"}

\* The SCRAM exchange with the client.
authenticate_client == {"credentials", "rejected"}

\* Startup, and the client's own authentication.
Startup(s) ==
    /\ sess[s].pc = "startup"
    /\ \E v \in verifier, a \in authenticate_client :
         IF Welcome /\ v = "found" /\ a = "credentials"
         THEN /\ sess' = [sess EXCEPT ![s].pc = "login", ![s].want = primary]
              /\ UNCHANGED limits
         ELSE LoginEnds(s)
    /\ UNCHANGED <<router, pool, faults>>

\* The deadline in run's select: a client that has not logged in is dropped.
LoginTimesOut(s) ==
    /\ sess[s].pc \in {"startup", "login"}
    /\ LoginEnds(s)
    /\ UNCHANGED <<router, pool, faults>>

\* The login to the primary seen at startup, outside the pool's accounting
\* until inject counts it.
login(s) ==
    LET n == sess[s].want
    IN  /\ sess[s].pc = "login"
        /\ \E r \in login_to_backend :
             IF r = "connected"
             THEN /\ sess' = [sess EXCEPT ![s].pc = "inject", ![s].conn = Fresh(n)]
                  /\ limits' = LoginDone(AddressOf[s], limits)
                  /\ total' = [total EXCEPT ![n] = @ + 1]
             ELSE LoginEnds(s) /\ UNCHANGED total
        /\ UNCHANGED <<router, idle, permit, leaked, faults>>

\* The loop is left: the session's connection, if it holds one, is released
\* whatever its transaction's state.
Leave(s) ==
    /\ limits' = [limits EXCEPT !.total = @ + 1]
    /\ IF sess[s].conn = None
       THEN sess' = [sess EXCEPT ![s] = Gone] /\ UNCHANGED pool
       ELSE release(s, sess[s].conn, Gone)

\* Terminate, or the client's end of the connection closes.
Terminate(s) ==
    /\ sess[s].pc = "read"
    /\ Leave(s)
    /\ UNCHANGED <<router, faults>>

\* A frame while the lease is lost ends the session.
QuorumLost(s) ==
    /\ sess[s].pc = "read" /\ ~lease
    /\ Leave(s)
    /\ UNCHANGED <<router, faults>>

\* ensure_backend: the connection held, or one from the pool for a node of ns.
ensure_backend(s, ns, st) ==
    IF sess[s].conn # None
    THEN sess' = [sess EXCEPT ![s] = [st EXCEPT !.pc = "forward"]]
    ELSE \E n \in ns :
            IF n = None
            THEN sess' = [sess EXCEPT ![s] = [st EXCEPT !.answers = FALSE]]
            ELSE sess' = [sess EXCEPT ![s] =
                            [st EXCEPT !.pc = "acquire", !.want = n, !.late = FALSE]]

\* A simple query.  Between transactions, one for the primary is refused while
\* the proxy drains.
Query(s) ==
    /\ sess[s].pc = "read" /\ lease
    /\ \E intent \in classify_statement :
         LET st == [sess[s] EXCEPT !.used_set = @ \/ intent = "set", !.answers = TRUE]
             target == route_intent(sess[s], intent)
         IN  IF sess[s].conn = None /\ draining /\ target = "primary"
             THEN Leave(s)
             ELSE /\ ensure_backend(s, resolve_backend(target), st)
                  /\ UNCHANGED <<pool, limits>>
    /\ UNCHANGED <<router, faults>>

\* The extended messages: the ones a backend answers at once, and the others.
answers_now == [Sync |-> TRUE, CopyDone |-> TRUE, Parse |-> FALSE, CopyData |-> FALSE]

\* A message of the extended protocol, or of a COPY.  It goes to the primary,
\* draining or not.  Sync, CopyDone and CopyFail are answered.
Extended(s) ==
    /\ sess[s].pc = "read" /\ lease
    /\ \E m \in DOMAIN answers_now :
         ensure_backend(s, {primary}, [sess[s] EXCEPT !.answers = answers_now[m]])
    /\ UNCHANGED <<router, pool, limits, faults>>

\* What the backend may answer, by where its transaction stands.  "G" opens a
\* COPY, which the session treats as a transaction.
Answers(txn) ==
    CASE txn = "I" -> {"I", "T", "G"}
      [] txn = "T" -> {"I", "T", "G"}
      [] txn = "X" -> {"I", "T"}

\* A connection given back after every answer, in a transaction or not.
forward_and_pipe_always_releases(s) ==
    /\ sess[s].pc = "forward" /\ sess[s].conn.alive
    /\ \E r \in {"I", "T"} :
         release(s, [sess[s].conn EXCEPT !.txn = r],
                 [sess[s] EXCEPT !.pc = "read", !.want = None, !.late = FALSE,
                                 !.answers = FALSE, !.txn = r, !.conn = None])
    /\ UNCHANGED <<router, limits, faults>>

\* The message goes to the backend, and its answer to the client.
forward_and_pipe(s) ==
    LET c == sess[s].conn
        back == [sess[s] EXCEPT !.pc = "read", !.want = None, !.late = FALSE,
                                !.answers = FALSE]
    IN  /\ sess[s].pc = "forward" /\ c.alive
        /\ \/ /\ ~sess[s].answers
              /\ sess' = [sess EXCEPT ![s] = [back EXCEPT !.conn.txn = "X"]]
              /\ UNCHANGED pool
           \/ /\ sess[s].answers
              /\ \E r \in Answers(c.txn) :
                   IF r = "I"
                   THEN release(s, [c EXCEPT !.txn = "I"],
                                [back EXCEPT !.txn = "I", !.conn = None])
                   ELSE /\ sess' = [sess EXCEPT ![s] =
                              [back EXCEPT !.txn = IF r = "G" THEN "T" ELSE r,
                                           !.conn.txn = IF r = "G" THEN "X" ELSE r]]
                        /\ UNCHANGED pool
        /\ UNCHANGED <<router, limits, faults>>

\* The backend breaks, or the client does while its answer is passed on.  The
\* error leaves run at once, past the release: the connection is closed and its
\* slot stays counted.
ForwardFails(s) ==
    /\ sess[s].pc = "forward"
    /\ IF sess[s].conn.alive THEN faults < MaxFaults /\ faults' = faults + 1
                             ELSE UNCHANGED faults
    /\ leaked' = [leaked EXCEPT ![sess[s].conn.node] = @ + 1]
    /\ sess' = [sess EXCEPT ![s] = Gone]
    /\ limits' = [limits EXCEPT !.total = @ + 1]
    /\ UNCHANGED <<router, idle, total, permit>>

\* A backend restarts or its node fails: every connection to it breaks.
BackendFails(n) ==
    /\ faults < MaxFaults /\ faults' = faults + 1
    /\ idle' = [idle EXCEPT ![n] = [i \in DOMAIN @ |-> [@[i] EXCEPT !.alive = FALSE]]]
    /\ sess' = [s \in Sessions |->
                  IF sess[s].conn # None /\ sess[s].conn.node = n
                  THEN [sess[s] EXCEPT !.conn.alive = FALSE] ELSE sess[s]]
    /\ UNCHANGED <<router, total, permit, leaked, limits>>

SessionStep(s) ==
    \/ Startup(s) \/ login(s) \/ inject(s) \/ acquire(s) \/ increment(s)
    \/ OpenReturns(s) \/ forward_and_pipe(s) \/ ForwardFails(s)

ClientStep(s) ==
    \/ DeadlinePasses(s) \/ LoginTimesOut(s) \/ admit(s) \/ Terminate(s) \/ QuorumLost(s) \/ Query(s) \/ Extended(s)

Next ==
    \/ \E s \in Sessions : SessionStep(s) \/ ClientStep(s)
    \/ \E n \in Nodes : evict_idle(n) \/ BackendFails(n)
    \/ Republish \/ LapseLease \/ RenewLease \/ begin_drain \/ end_drain

\* A task that can go on does, and a wait ends at its deadline.  Clients may do
\* nothing for ever.
Fairness == \A s \in Sessions :
                WF_vars(SessionStep(s)) /\ WF_vars(DeadlinePasses(s))

Spec == Init /\ [][Next]_vars /\ Fairness

-----------------------------------------------------------------------------
(* Properties.                                                             *)

\* The sessions that own a slot of n's bucket.
InUse(n) == {s \in Sessions :
               \/ sess[s].conn # None /\ sess[s].conn.node = n
               \/ sess[s].pc = "open" /\ sess[s].want = n}


\* limits.rs: every way a client's task can end, or get past its login, gives
\* back exactly the permits it took: the free permits and the counts of each
\* address always follow from the sessions there are.
PermitsReturned ==
    LET here == {s \in Sessions : sess[s].pc # "out"}
        pending == {s \in here : sess[s].pc \in {"startup", "login"}}
    IN  /\ limits.total = MaxClients - Cardinality(here)
        /\ limits.pending = MaxPending - Cardinality(pending)
        /\ \A a \in Addresses : limits.per_address[a] =
                Cardinality({s \in pending : AddressOf[s] = a})

\* connection.rs:231 "Sticky to current backend while in a transaction": a
\* session that believes it is in a transaction holds the connection that
\* transaction is open on, and one that believes it is not holds a connection
\* only in the middle of an exchange.
TransactionSticks ==
    \A s \in Sessions :
        /\ sess[s].txn # "I" => /\ sess[s].conn # None
                                /\ sess[s].conn.txn # "I"
        /\ sess[s].pc = "read" /\ sess[s].conn # None =>
              sess[s].txn # "I" \/ sess[s].conn.txn = "X"


=============================================================================
