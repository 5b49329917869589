------------------------------ MODULE Heartbeat ------------------------------
(***************************************************************************)
(* The vk-agent's heartbeat tracker and what hangs on it: the watchdog     *)
(* that enters safe mode, the loop that fences Postgres, the Promote RPC   *)
(* that safe mode refuses, and the Detach RPC that ends them all.          *)
(*                                                                         *)
(* Source: vk-agent/src/{heartbeat,main,server}.rs.                        *)
(*                                                                         *)
(* The tracker's fields are separate atomics and mutexes, and its methods  *)
(* run on a multi-threaded runtime, so each access is a step of its own.   *)
(* Time is counted in seconds, the period of both loops, and only as ages: *)
(* how long ago an instant was, capped at MaxAge, beyond every timeout.    *)
(* Code between two awaits is assumed to finish within its second.         *)
(***************************************************************************)
EXTENDS Naturals

CONSTANTS
    Rpc,            \* Heartbeat RPC handlers that may run at once
    Timeout,        \* heartbeat_timeout_seconds
    FenceTimeout,   \* fence_timeout_seconds, not 0: 0 turns fencing off
    None            \* no instant

ASSUME TimeoutAssumption == Timeout \in Nat \ {0} /\ FenceTimeout \in Nat \ {0}
ASSUME NoInstantAssumption == None \notin Nat

VARIABLES
    last_seen,        \* age of the last heartbeat
    in_safe_mode,
    safe_mode_since,  \* age of the entry into safe mode, or None
    detached,         \* the flag in memory
    marker,           \* DETACHED_MARKER, on disk
    postgres,         \* "running" or "stopped"
    alive,            \* the agent process
    leader_gone,      \* no heartbeat will ever be sent again
    touch,            \* per handler, the next step of touch()
    watchdog,         \* the next step of the watchdog
    fence,            \* the next step of the fence loop
    promote,          \* the Promote RPC
    detach            \* the Detach RPC

vars == <<last_seen, in_safe_mode, safe_mode_since, detached, marker, postgres,
          alive, leader_gone, touch, watchdog, fence, promote, detach>>

tracker == <<last_seen, in_safe_mode, safe_mode_since, detached>>

MaxAge == Timeout + FenceTimeout + 2

Older(age) == IF age = None \/ age = MaxAge THEN age ELSE age + 1

\* HeartbeatTracker::new and the tasks main starts.  A node waiting to be
\* seeded has no Postgres.
Init ==
    /\ last_seen = 0
    /\ in_safe_mode = FALSE
    /\ safe_mode_since = None
    /\ detached = FALSE
    /\ marker = FALSE
    /\ postgres \in {"running", "stopped"}
    /\ alive = TRUE
    /\ leader_gone = FALSE
    /\ touch = [r \in Rpc |-> "idle"]
    /\ watchdog = [at |-> "read", expired |-> FALSE]
    /\ fence = "sleep"
    /\ promote = "idle"
    /\ detach = "idle"

\* A second passes.  Both loops wake; awaited work may still be running.
Tick ==
    /\ \A r \in Rpc : touch[r] = "idle"
    /\ watchdog.at = "sleep"
    /\ fence # "read"
    /\ last_seen' = Older(last_seen)
    /\ safe_mode_since' = Older(safe_mode_since)
    /\ watchdog' = [watchdog EXCEPT !.at = IF alive THEN "read" ELSE @]
    /\ fence' = IF alive /\ fence = "sleep" THEN "read" ELSE fence
    /\ UNCHANGED <<in_safe_mode, detached, marker, postgres, alive, leader_gone,
                   touch, promote, detach>>

(***************************************************************************)
(* heartbeat RPC: touch().                                                 *)
(***************************************************************************)
TouchSeen(r) ==
    /\ alive /\ ~leader_gone /\ touch[r] = "idle"
    /\ last_seen' = 0
    /\ touch' = [touch EXCEPT ![r] = "swap"]
    /\ UNCHANGED <<in_safe_mode, safe_mode_since, detached, marker, postgres, alive,
                   leader_gone, watchdog, fence, promote, detach>>

TouchSwap(r) ==
    /\ touch[r] = "swap"
    /\ in_safe_mode' = FALSE
    /\ touch' = [touch EXCEPT ![r] = IF in_safe_mode THEN "clear" ELSE "idle"]
    /\ UNCHANGED <<last_seen, safe_mode_since, detached, marker, postgres, alive,
                   leader_gone, watchdog, fence, promote, detach>>

TouchClear(r) ==
    /\ touch[r] = "clear"
    /\ safe_mode_since' = None
    /\ touch' = [touch EXCEPT ![r] = "idle"]
    /\ UNCHANGED <<last_seen, in_safe_mode, detached, marker, postgres, alive,
                   leader_gone, watchdog, fence, promote, detach>>

\* The leader lost quorum, or is cut off, for good.
LeaderGone ==
    /\ ~leader_gone
    /\ leader_gone' = TRUE
    /\ UNCHANGED <<tracker, marker, postgres, alive, touch, watchdog, fence, promote, detach>>

(***************************************************************************)
(* spawn_watchdog.                                                         *)
(***************************************************************************)
WatchdogRead ==
    /\ alive /\ watchdog.at = "read"
    /\ watchdog' = [at |-> "load", expired |-> last_seen > Timeout]
    /\ UNCHANGED <<tracker, marker, postgres, alive, leader_gone, touch, fence, promote, detach>>

\* Mutant: the flag is tested the wrong way round.
WatchdogLoadInverted ==
    /\ alive /\ watchdog.at = "load"
    /\ watchdog' = [at |-> IF watchdog.expired /\ in_safe_mode THEN "store" ELSE "sleep",
                    expired |-> FALSE]
    /\ UNCHANGED <<tracker, marker, postgres, alive, leader_gone, touch, fence, promote, detach>>

WatchdogLoad ==
    /\ alive /\ watchdog.at = "load"
    /\ watchdog' = [at |-> IF watchdog.expired /\ ~in_safe_mode THEN "store" ELSE "sleep",
                    expired |-> FALSE]
    /\ UNCHANGED <<tracker, marker, postgres, alive, leader_gone, touch, fence, promote, detach>>

WatchdogStore ==
    /\ alive /\ watchdog.at = "store"
    /\ in_safe_mode' = TRUE
    /\ watchdog' = [watchdog EXCEPT !.at = "stamp"]
    /\ UNCHANGED <<last_seen, safe_mode_since, detached, marker, postgres, alive,
                   leader_gone, touch, fence, promote, detach>>

WatchdogStamp ==
    /\ alive /\ watchdog.at = "stamp"
    /\ safe_mode_since' = 0
    /\ watchdog' = [watchdog EXCEPT !.at = "sleep"]
    /\ UNCHANGED <<last_seen, in_safe_mode, detached, marker, postgres, alive,
                   leader_gone, touch, fence, promote, detach>>

(***************************************************************************)
(* The self-fencing loop of main.                                          *)
(***************************************************************************)
\* time_in_safe_mode() and the comparison; asking pg_ctl is awaited.
FenceRead ==
    /\ alive /\ fence = "read"
    /\ fence' = IF ~detached /\ safe_mode_since # None /\ safe_mode_since >= FenceTimeout
                THEN "status" ELSE "sleep"
    /\ UNCHANGED <<tracker, marker, postgres, alive, leader_gone, touch, watchdog, promote, detach>>

FenceStatus ==
    /\ alive /\ fence = "status"
    /\ fence' = IF postgres = "running" THEN "stop" ELSE "sleep"
    /\ UNCHANGED <<tracker, marker, postgres, alive, leader_gone, touch, watchdog, promote, detach>>


\* The process and all it was doing is gone; its marker file and Postgres stay.
ProcessGone ==
    /\ alive' = FALSE
    /\ touch' = [r \in Rpc |-> "idle"]
    /\ watchdog' = [at |-> "sleep", expired |-> FALSE]
    /\ fence' = "sleep"
    /\ promote' = "idle"
    /\ detach' = "idle"
    /\ UNCHANGED <<tracker, marker, leader_gone>>

\* stop_immediate, whose error is only logged, then exit(1).
FenceStop ==
    /\ alive /\ fence = "stop"
    /\ postgres' \in {"stopped", postgres}
    /\ ProcessGone

AgentCrash ==
    /\ alive
    /\ UNCHANGED postgres
    /\ ProcessGone

\* Mutant: a restarted agent does not look for the marker.
AgentRestartForgets ==
    /\ ~alive
    /\ alive' = TRUE
    /\ last_seen' = 0
    /\ in_safe_mode' = FALSE
    /\ safe_mode_since' = None
    /\ detached' = FALSE
    /\ watchdog' = [at |-> "read", expired |-> FALSE]
    /\ postgres' \in {"running", postgres}
    /\ UNCHANGED <<marker, leader_gone, touch, fence, promote, detach>>

\* main() again (systemd's Restart=always): a new tracker, detached if the
\* marker is there, and the Postgres this agent owns started again.
AgentRestart ==
    /\ ~alive
    /\ alive' = TRUE
    /\ last_seen' = 0
    /\ in_safe_mode' = FALSE
    /\ safe_mode_since' = None
    /\ detached' = marker
    /\ watchdog' = [at |-> "read", expired |-> FALSE]
    /\ postgres' \in {"running", postgres}
    /\ UNCHANGED <<marker, leader_gone, touch, fence, promote, detach>>

(***************************************************************************)
(* promote and detach RPCs.                                                *)
(***************************************************************************)
\* Mutant: Promote does not ask for safe mode.
PromoteUnchecked ==
    /\ alive /\ promote = "idle"
    /\ promote' = "promoting"
    /\ UNCHANGED <<tracker, marker, postgres, alive, leader_gone, touch, watchdog, fence, detach>>

\* is_safe_mode(), then pg_promote, which may take its thirty seconds.
PromoteCheck ==
    /\ alive /\ promote = "idle"
    /\ detached \/ ~in_safe_mode
    /\ promote' = "promoting"
    /\ UNCHANGED <<tracker, marker, postgres, alive, leader_gone, touch, watchdog, fence, detach>>

PromoteDone ==
    /\ alive /\ promote = "promoting"
    /\ promote' = "idle"
    /\ UNCHANGED <<tracker, marker, postgres, alive, leader_gone, touch, watchdog, fence, detach>>

DetachFlag ==
    /\ alive /\ ~leader_gone /\ detach = "idle"
    /\ detached' = TRUE
    /\ detach' = "marker"
    /\ UNCHANGED <<last_seen, in_safe_mode, safe_mode_since, marker, postgres, alive,
                   leader_gone, touch, watchdog, fence, promote>>

\* The marker is written, or the write fails and the RPC with it.
DetachMarker ==
    /\ alive /\ detach = "marker"
    /\ marker' \in {TRUE, marker}
    /\ detach' = "idle"
    /\ UNCHANGED <<tracker, postgres, alive, leader_gone, touch, watchdog, fence, promote>>

Next ==
    \/ Tick
    \/ \E r \in Rpc : TouchSeen(r)
    \/ \E r \in Rpc : TouchSwap(r)
    \/ \E r \in Rpc : TouchClear(r)
    \/ LeaderGone
    \/ WatchdogRead \/ WatchdogLoad \/ WatchdogStore \/ WatchdogStamp
    \/ FenceRead \/ FenceStatus \/ FenceStop
    \/ AgentCrash \/ AgentRestart
    \/ PromoteCheck \/ PromoteDone
    \/ DetachFlag \/ DetachMarker

\* The runtime runs every task that can run, time passes, systemd restarts the
\* agent.  Nothing makes a heartbeat, a crash or an RPC happen.
Fairness ==
    /\ WF_vars(Tick)
    /\ \A r \in Rpc : WF_vars(TouchSwap(r)) /\ WF_vars(TouchClear(r))
    /\ WF_vars(WatchdogRead) /\ WF_vars(WatchdogLoad)
    /\ WF_vars(WatchdogStore) /\ WF_vars(WatchdogStamp)
    /\ WF_vars(FenceRead) /\ WF_vars(FenceStatus) /\ WF_vars(FenceStop)
    /\ WF_vars(AgentRestart) /\ WF_vars(PromoteDone) /\ WF_vars(DetachMarker)

Spec == Init /\ [][Next]_vars /\ Fairness

(***************************************************************************)
(* Properties.                                                             *)
(***************************************************************************)

\* The fields have their types, and nothing runs in a process that is gone.
TypeOK ==
    /\ last_seen \in 0 .. MaxAge
    /\ safe_mode_since \in 0 .. MaxAge \cup {None}
    /\ {in_safe_mode, detached, marker, alive, leader_gone} \subseteq BOOLEAN
    /\ postgres \in {"running", "stopped"}
    /\ touch \in [Rpc -> {"idle", "swap", "clear"}]
    /\ watchdog \in [at : {"sleep", "read", "load", "store", "stamp"}, expired : BOOLEAN]
    /\ fence \in {"sleep", "read", "status", "stop"}
    /\ promote \in {"idle", "promoting"}
    /\ detach \in {"idle", "marker"}
    /\ ~alive => /\ \A r \in Rpc : touch[r] = "idle"
                 /\ watchdog.at = "sleep" /\ fence = "sleep"
                 /\ promote = "idle" /\ detach = "idle"

\* server.rs: a promotion is refused once the heartbeat is lost, "to prevent
\* split-brain".  Whatever touch and the watchdog do to each other, no Promote
\* is accepted later than one watchdog period after the timeout.
SilenceBlocksPromotion ==
    [][promote = "idle" /\ promote' = "promoting" => detached \/ last_seen =< Timeout + 1]_vars

\* An agent that never hears from a leader again ends up in safe mode, unless
\* it detached or its process ends first.
SilenceEntersSafeMode == leader_gone ~> (in_safe_mode \/ detached \/ ~alive)

\* Once the Detach RPC has written its marker, no decision to fence is ever
\* taken again, by this process or any later one.  (A decision already taken
\* when the RPC arrives is carried out.)
DetachedNeverFences == [](marker /\ fence = "sleep" => [](fence # "stop"))
=============================================================================
