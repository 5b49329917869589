---------------------------- MODULE TopologyLog ----------------------------
(***************************************************************************)
(* What the replicated topology promises to whoever reads it: there is one *)
(* history of topologies, each made from the one before it by one command; *)
(* a reader sees members of it, and moves forward only, skipping as many   *)
(* as it likes, until its process restarts and it starts over.             *)
(*                                                                         *)
(* Source: the TopologyWatch of pgcluster/src/raft/mod.rs and the state    *)
(* machine behind it.  TopologyStore implements this.                      *)
(***************************************************************************)
EXTENDS Naturals, Sequences

CONSTANTS
    Instance,       \* pgcluster processes, each with its readers
    Command,
    Empty,          \* ClusterTopology::default()
    Apply(_, _)     \* what a command makes of a topology

VARIABLES
    history,        \* the topologies, oldest first
    seen            \* per instance, what its readers see

vars == <<history, seen>>

Init ==
    /\ history = <<Empty>>
    /\ seen = [i \in Instance |-> Empty]

\* A command takes effect, after all the others.
Commit(cmd) ==
    /\ history' = Append(history, Apply(history[Len(history)], cmd))
    /\ UNCHANGED seen

\* Readers move on, to any later topology there is.
Observe(i) ==
    /\ \E k \in 1 .. Len(history) :
          /\ history[k].version >= seen[i].version
          /\ seen' = [seen EXCEPT ![i] = history[k]]
    /\ UNCHANGED history

\* A process restarts.
Forget(i) ==
    /\ seen' = [seen EXCEPT ![i] = Empty]
    /\ UNCHANGED history

Next ==
    \/ \E cmd \in Command : Commit(cmd)
    \/ \E i \in Instance : Observe(i) \/ Forget(i)

Spec == Init /\ [][Next]_vars
=============================================================================
