--------------------------- MODULE RuleSnapshots ---------------------------
(***************************************************************************)
(* The rule definitions each process evaluates with: an immutable snapshot *)
(* of the rules and zones, reloaded by a loop that wakes on a periodic     *)
(* tick or on the notification of a local change                           *)
(* (backend/src/rule_snapshots.rs).                                        *)
(*                                                                         *)
(* Definitions are a version number.  A change made through another        *)
(* process, a zone change, or a request dropped between its commit and its *)
(* notification reaches the snapshot by the tick alone.  Time is kept as   *)
(* capped ages, so the clock needs no bound.                               *)
(***************************************************************************)
EXTENDS Naturals

CONSTANTS
    Processes,      \* server processes on one database
    Interval,       \* refresh interval, in clock ticks
    MaxVersion      \* bound: definition changes

ASSUME RuleSnapshotsAssumption ==
    /\ Interval \in Nat \ {0}
    /\ MaxVersion \in Nat

VARIABLES
    version,        \* definitions in the database
    commitAge,      \* history: ticks since each version was committed, capped
    loop,           \* state of each process's reload loop
    permit,         \* Notify: a pending invalidation
    due,            \* ticks to the next periodic reload
    started,        \* ticks since the current reload started, capped; 0 if none
    loaded,         \* the version the current reload has read
    current,        \* the version of the published snapshot
    age             \* ticks since last_success, capped

snapshotVars == <<version, commitAge, loop, permit, due, started, loaded, current, age>>

\* Ages beyond the readiness limit are not told apart.
Cap == 2 * Interval + 1
Older(n) == IF n < Cap THEN n + 1 ELSE Cap

Versions == 0 .. MaxVersion

\* initialize: the first load has finished before the process serves.
SnapshotsInit ==
    /\ version = 0
    /\ commitAge = [v \in Versions |-> 0]
    /\ loop = [p \in Processes |-> "waiting"]
    /\ permit = [p \in Processes |-> FALSE]
    /\ due = [p \in Processes |-> Interval]
    /\ started = [p \in Processes |-> 0]
    /\ loaded = [p \in Processes |-> 0]
    /\ current = [p \in Processes |-> 0]
    /\ age = [p \in Processes |-> 0]

Commit ==
    /\ version < MaxVersion
    /\ version' = version + 1
    /\ commitAge' = [commitAge EXCEPT ![version + 1] = 0]

\* A rule is created, updated, deleted or toggled through process p.
CommitAndNotify(p) ==
    /\ Commit
    /\ permit' = [permit EXCEPT ![p] = TRUE]
    /\ UNCHANGED <<loop, due, started, loaded, current, age>>

\* A change made by a process outside this set: nobody here is notified of it.
CommitSilently ==
    /\ Commit
    /\ UNCHANGED <<loop, permit, due, started, loaded, current, age>>

BeginReload(p) ==
    /\ loop[p] = "waiting"
    /\ loop' = [loop EXCEPT ![p] = "loading"]
    /\ started' = [started EXCEPT ![p] = 0]

\* The loop consumes the pending permit.
WakeNotified(p) ==
    /\ permit[p]
    /\ BeginReload(p)
    /\ permit' = [permit EXCEPT ![p] = FALSE]
    /\ UNCHANGED <<version, commitAge, due, loaded, current, age>>

\* Mutant: only notifications wake the loop.
WakeTickNever(p) == FALSE /\ UNCHANGED snapshotVars

\* The periodic tick; ticks missed during a reload are skipped.
WakeTick(p) ==
    /\ due[p] = 0
    /\ BeginReload(p)
    /\ due' = [due EXCEPT ![p] = Interval]
    /\ UNCHANGED <<version, commitAge, permit, loaded, current, age>>

\* load_snapshot: rules, children and zones in one read transaction.
Load(p) ==
    /\ loop[p] = "loading"
    /\ loop' = [loop EXCEPT ![p] = "loaded"]
    /\ loaded' = [loaded EXCEPT ![p] = version]
    /\ UNCHANGED <<version, commitAge, permit, due, started, current, age>>

EndReload(p) ==
    /\ loop' = [loop EXCEPT ![p] = "waiting"]
    /\ started' = [started EXCEPT ![p] = 0]

\* The last good definitions are kept.
LoadFails(p) ==
    /\ loop[p] = "loading"
    /\ EndReload(p)
    /\ UNCHANGED <<version, commitAge, permit, due, loaded, current, age>>

\* Mutant: the snapshot counts as fresh from the time it was published.
PublishFreshNow(p) ==
    /\ loop[p] = "loaded"
    /\ EndReload(p)
    /\ current' = [current EXCEPT ![p] = loaded[p]]
    /\ age' = [age EXCEPT ![p] = 0]
    /\ UNCHANGED <<version, commitAge, permit, due, loaded>>

\* The snapshot is replaced when its fingerprint changed; it counts as fresh
\* from the time the reload started.
Publish(p) ==
    /\ loop[p] = "loaded"
    /\ EndReload(p)
    /\ current' = [current EXCEPT ![p] = loaded[p]]
    /\ age' = [age EXCEPT ![p] = started[p]]
    /\ UNCHANGED <<version, commitAge, permit, due, loaded>>

Tick ==
    /\ commitAge' = [v \in Versions |-> Older(commitAge[v])]
    /\ due' = [p \in Processes |-> IF due[p] > 0 THEN due[p] - 1 ELSE 0]
    /\ started' = [p \in Processes |-> IF loop[p] = "waiting" THEN 0 ELSE Older(started[p])]
    /\ age' = [p \in Processes |-> Older(age[p])]
    /\ UNCHANGED <<version, loop, permit, loaded, current>>

SnapshotsNext ==
    \/ CommitSilently
    \/ \E p \in Processes : \/ CommitAndNotify(p) \/ WakeNotified(p) \/ WakeTick(p)
                            \/ Load(p) \/ LoadFails(p) \/ Publish(p)
    \/ Tick

\* Time passes, the loop keeps running, and the database does not refuse
\* every reload for ever.
SnapshotsFairness ==
    /\ WF_snapshotVars(Tick)
    /\ \A p \in Processes : /\ WF_snapshotVars(WakeNotified(p) \/ WakeTick(p))
                            /\ SF_snapshotVars(Load(p))
                            /\ WF_snapshotVars(Publish(p))

SnapshotsSpec == SnapshotsInit /\ [][SnapshotsNext]_snapshotVars /\ SnapshotsFairness

-----------------------------------------------------------------------------
(* Properties. *)

\* RuleSnapshotMetrics.ready.
Ready(p) == age[p] <= 2 * Interval

\* A process that reports a ready snapshot evaluates with every change
\* committed before its last successful reload began, so with every change
\* older than twice the interval, however slow that reload was.
ReadyMeansFresh ==
    \A p \in Processes, v \in Versions :
        /\ Ready(p)
        /\ v <= version
        /\ commitAge[v] > age[p]
        => v <= current[p]

\* Every committed change reaches every process, also when it was made
\* elsewhere, when its notification arrived during a reload, and when the
\* reload it triggered failed.
ReachesEveryProcess ==
    \A v \in 1 .. MaxVersion, p \in Processes : (version >= v) ~> (current[p] >= v)

=============================================================================
