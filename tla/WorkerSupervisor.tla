-------------------------- MODULE WorkerSupervisor -------------------------
(***************************************************************************)
(* The worker tree of a server process and its shutdown: workers that run  *)
(* until cancelled, the monitor that takes the whole process down when one *)
(* of them ends, the HTTP server that drains its connections, and the      *)
(* database checkpoint that comes last (backend/src/app/workers.rs,        *)
(* app/http.rs, service.rs).                                               *)
(*                                                                         *)
(* Two workers have tasks of their own: the device subscriber handles its  *)
(* messages in them (zenoh_handler/subscriber.rs), the outbox worker its   *)
(* deliveries (domains/rules/rule_engine/actions.rs).  When such a worker  *)
(* is dropped they are aborted and nobody waits for them, so that one      *)
(* being polled runs on to its next await.                                 *)
(*                                                                         *)
(* The checkpoint is Turso's; PostgreSQL has none.                         *)
(***************************************************************************)
EXTENDS Naturals

CONSTANTS
    Workers,        \* the supervised workers
    StoreMonitor,   \* the one that reports its own readiness again and again
    Spawners        \* the ones with tasks of their own: subscriber and outbox

ASSUME WorkerSupervisorAssumption == StoreMonitor \in Workers /\ Spawners \subseteq Workers

VARIABLES
    worker,         \* state of each worker: running, ended, panicked
    ready,          \* ReadinessRegistry.workers
    cancelled,      \* the cancellation token
    aborted,        \* abort_all was called
    monitor,        \* the monitor task: watching, joining, ended
    server,         \* binding, serving, draining, down
    connection,     \* a client's connection is open
    service,        \* running, stopping, ended, failed
    task,           \* a task of each spawner: none, running, aborted, gone
    unsaved         \* who has written since the last checkpoint

supervisorVars ==
    <<worker, ready, cancelled, aborted, monitor, server, connection, service, task, unsaved>>

-----------------------------------------------------------------------------
\* spawn_background_tasks registers every worker as ready.
SupervisorInit ==
    /\ worker = [w \in Workers |-> "running"]
    /\ ready = [w \in Workers |-> TRUE]
    /\ cancelled = FALSE /\ aborted = FALSE
    /\ monitor = "watching" /\ server = "binding" /\ connection = FALSE
    /\ service = "running" /\ task = [w \in Spawners |-> "none"] /\ unsaved = {}

Running(w) == worker[w] = "running"

\* A worker writes, or makes the periodic checkpoint.
WorkerWrites(w) ==
    /\ Running(w)
    /\ unsaved' \in {unsaved \union {"worker"}, {}}
    /\ UNCHANGED <<worker, ready, cancelled, aborted, monitor, server, connection, service, task>>

\* run_readiness_monitor
StoreProbed ==
    /\ Running(StoreMonitor)
    /\ \E b \in BOOLEAN : ready' = [ready EXCEPT ![StoreMonitor] = b]
    /\ UNCHANGED <<worker, cancelled, aborted, monitor, server, connection, service, task, unsaved>>

\* A worker is gone, and with it the JoinSet that holds its tasks.
Gone(w, how) ==
    /\ worker' = [worker EXCEPT ![w] = how]
    /\ task' = [v \in Spawners |-> IF v = w /\ task[v] = "running" THEN "aborted" ELSE task[v]]

\* A worker returns, fails or panics by itself.
WorkerFails(w, how) ==
    /\ Running(w)
    /\ Gone(w, how)
    /\ UNCHANGED <<ready, cancelled, aborted, monitor, server, connection, service, unsaved>>

\* spawn_worker, spawn_shutdown_worker: the token or the abort ends it at its
\* next await.
WorkerStops(w) ==
    /\ Running(w)
    /\ cancelled \/ aborted
    /\ Gone(w, "ended")
    /\ UNCHANGED <<ready, cancelled, aborted, monitor, server, connection, service, unsaved>>

\* A message arrives, or an action is claimed.
TaskStarts(w) ==
    /\ Running(w) /\ task[w] = "none"
    /\ task' = [task EXCEPT ![w] = "running"]
    /\ UNCHANGED <<worker, ready, cancelled, aborted, monitor, server, connection, service, unsaved>>

TaskWrites(w) ==
    /\ task[w] \in {"running", "aborted"}
    /\ unsaved' = unsaved \union {"task"}
    /\ UNCHANGED <<worker, ready, cancelled, aborted, monitor, server, connection, service, task>>

TaskEnds(w) ==
    /\ task[w] \in {"running", "aborted"}
    /\ task' = [task EXCEPT ![w] = IF task[w] = "running" THEN "none" ELSE "gone"]
    /\ UNCHANGED <<worker, ready, cancelled, aborted, monitor, server, connection, service, unsaved>>

-----------------------------------------------------------------------------
\* The monitor watches for the token first, then for a worker that ended.
MonitorCancelled ==
    /\ monitor = "watching" /\ cancelled
    /\ monitor' = "joining" /\ aborted' = TRUE
    /\ UNCHANGED <<worker, ready, cancelled, server, connection, service, task, unsaved>>

\* Mutant: the rest of the process is not told.
MonitorSeesExitQuietly(w) ==
    /\ monitor = "watching" /\ ~cancelled /\ ~Running(w)
    /\ ready' = IF worker[w] = "ended" THEN [ready EXCEPT ![w] = FALSE] ELSE ready
    /\ monitor' = "joining" /\ aborted' = TRUE
    /\ UNCHANGED <<worker, cancelled, server, connection, service, task, unsaved>>

\* A panic leaves no name to mark as not ready.
MonitorSeesExit(w) ==
    /\ monitor = "watching" /\ ~cancelled /\ ~Running(w)
    /\ ready' = IF worker[w] = "ended" THEN [ready EXCEPT ![w] = FALSE] ELSE ready
    /\ cancelled' = TRUE
    /\ monitor' = "joining" /\ aborted' = TRUE
    /\ UNCHANGED <<worker, server, connection, service, task, unsaved>>

\* Mutant: the aborted workers are not joined.
MonitorEndsAtOnce ==
    /\ monitor = "joining"
    /\ ready' = [w \in Workers |-> FALSE]
    /\ monitor' = "ended"
    /\ UNCHANGED <<worker, cancelled, aborted, server, connection, service, task, unsaved>>

\* Every worker is joined before all of them are marked as not ready.
MonitorEnds ==
    /\ monitor = "joining"
    /\ \A w \in Workers : ~Running(w)
    /\ ready' = [w \in Workers |-> FALSE]
    /\ monitor' = "ended"
    /\ UNCHANGED <<worker, cancelled, aborted, server, connection, service, task, unsaved>>

-----------------------------------------------------------------------------
\* The socket is set up while the workers already run; that may fail.
Bind ==
    /\ server = "binding"
    /\ server' = "serving"
    /\ UNCHANGED <<worker, ready, cancelled, aborted, monitor, connection, service, task, unsaved>>

ServerFails ==
    /\ server = "binding"
    /\ server' = "down"
    /\ UNCHANGED <<worker, ready, cancelled, aborted, monitor, connection, service, task, unsaved>>

\* A draining server accepts no connection and waits for the open ones.
Connect ==
    /\ server = "serving" /\ ~connection
    /\ connection' = TRUE
    /\ UNCHANGED <<worker, ready, cancelled, aborted, monitor, server, service, task, unsaved>>

RequestWrites ==
    /\ connection
    /\ unsaved' = unsaved \union {"request"}
    /\ UNCHANGED <<worker, ready, cancelled, aborted, monitor, server, connection, service, task>>

Disconnect ==
    /\ connection
    /\ connection' = FALSE
    /\ UNCHANGED <<worker, ready, cancelled, aborted, monitor, server, service, task, unsaved>>

\* Ctrl-C or SIGTERM.
Signal ==
    /\ server = "serving"
    /\ cancelled' = TRUE
    /\ server' = "draining"
    /\ UNCHANGED <<worker, ready, aborted, monitor, connection, service, task, unsaved>>

ServerCancelled ==
    /\ server = "serving" /\ cancelled
    /\ server' = "draining"
    /\ UNCHANGED <<worker, ready, cancelled, aborted, monitor, connection, service, task, unsaved>>

ServerDown ==
    /\ server = "draining" /\ ~connection
    /\ server' = "down"
    /\ UNCHANGED <<worker, ready, cancelled, aborted, monitor, connection, service, task, unsaved>>

-----------------------------------------------------------------------------
\* Service::run: workers are shut down after the server, however it ended.
ServiceStops ==
    /\ service = "running" /\ server = "down"
    /\ service' = "stopping"
    /\ cancelled' = TRUE
    /\ UNCHANGED <<worker, ready, aborted, monitor, server, connection, task, unsaved>>

\* WorkerSupervisor::shutdown: the checkpoint follows the monitor's end.
ServiceEnds ==
    /\ service = "stopping" /\ monitor = "ended"
    /\ unsaved' = {}
    /\ service' = "ended"
    /\ UNCHANGED <<worker, ready, cancelled, aborted, monitor, server, connection, task>>

CheckpointFails ==
    /\ service = "stopping" /\ monitor = "ended"
    /\ service' = "failed"
    /\ UNCHANGED <<worker, ready, cancelled, aborted, monitor, server, connection, task, unsaved>>

-----------------------------------------------------------------------------
SupervisorStep ==
    \/ \E w \in Workers : WorkerStops(w) \/ MonitorSeesExit(w)
    \/ MonitorCancelled \/ MonitorEnds \/ Bind \/ ServerCancelled \/ ServerDown
    \/ ServiceStops \/ ServiceEnds \/ CheckpointFails

SupervisorNext ==
    \/ SupervisorStep
    \/ \E w \in Workers : WorkerWrites(w) \/ \E how \in {"ended", "panicked"} : WorkerFails(w, how)
    \/ \E w \in Spawners : TaskStarts(w) \/ TaskWrites(w) \/ TaskEnds(w)
    \/ StoreProbed
    \/ Connect \/ RequestWrites \/ Disconnect \/ Signal \/ ServerFails

\* The runtime polls every task; a client's request ends.
SupervisorSpec ==
    /\ SupervisorInit /\ [][SupervisorNext]_supervisorVars
    /\ WF_supervisorVars(SupervisorStep) /\ WF_supervisorVars(Disconnect)

-----------------------------------------------------------------------------
\* When the service has ended no worker is reported as ready, and nothing was
\* written after the checkpoint by a worker or a request: only a device message
\* or a delivery can be, whose task was running when its worker was dropped
\* (WorkerSupervisor::shutdown).
EndsQuietly ==
    service = "ended" =>
        /\ \A w \in Workers : ~ready[w]
        /\ unsaved \subseteq {"task"}
        /\ unsaved # {} => \E w \in Spawners : task[w] \in {"aborted", "gone"}

\* A worker that ends takes the whole process down: nothing keeps serving
\* without it (spawn_background_tasks).
ProcessFollowsWorker ==
    \A w \in Workers : worker[w] # "running" ~> service \in {"ended", "failed"}

=============================================================================
