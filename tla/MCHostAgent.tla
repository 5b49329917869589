---------------------------- MODULE MCHostAgent ----------------------------
(* Instances of HostAgent for TLC. *)
EXTENDS HostAgent, TLC

One == [generation |-> 1, bootstrap |-> "initdb", ha |-> FALSE, replica |-> FALSE, peers |-> {},
        valid |-> TRUE, backup |-> 1, secrets |-> 1, access |-> 1, resources |-> 1, extensions |-> {}, verifier |-> 1]

Node == [One EXCEPT !.bootstrap = "seed", !.ha = TRUE, !.peers = {1}]

MCPreloaded == {"cron"}

CONSTANTS a, b

Second(s) == [s EXCEPT !.generation = 2]

\* One instance, changed in each way the agent treats differently, or replaced.
MCPlans ==
    {<<a :> One, a :> [Second(One) EXCEPT !.secrets = 2]>>,
     <<a :> One, a :> [Second(One) EXCEPT !.access = 2]>>,
     <<a :> One, a :> [Second(One) EXCEPT !.extensions = {"cron", "trgm"}]>>,
     <<a :> [One EXCEPT !.bootstrap = "restore"], a :> [Second(One) EXCEPT !.bootstrap = "restore", !.resources = 2]>>,
     <<a :> Node, a :> [Second(Node) EXCEPT !.verifier = 2, !.extensions = {"cron"}]>>,
     <<a :> [Node EXCEPT !.replica = TRUE], a :> [Second(Node) EXCEPT !.replica = TRUE, !.peers = {1, 2}]>>,
     <<a :> [One EXCEPT !.valid = FALSE], a :> [Second(One) EXCEPT !.backup = 2]>>,
     <<a :> One, b :> One>>}
=============================================================================
