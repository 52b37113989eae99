---------------------------- MODULE MCBackground ---------------------------
(***************************************************************************)
(* The parts of a server process that run beside its requests: the reload  *)
(* of rule definitions, the Thread border router, and the tree of workers  *)
(* itself.  They share no state, so TLC takes them one at a time: the part *)
(* is chosen at start and the others stay in their initial states.  Two    *)
(* server processes meet only in the database, so one is enough for the    *)
(* definitions: what another one changes is CommitSilently.                *)
(***************************************************************************)
EXTENDS RuleSnapshots, ThreadRuntime, WorkerSupervisor

CONSTANTS p1, r1, FirstDevice

VARIABLE part

backgroundVars == <<part, snapshotVars, threadVars, supervisorVars>>

\* The border router starts with one radio plugged in (another may follow at
\* once) and part of no mesh (it may join one at once).
BackgroundInit ==
    /\ part \in {"snapshots", "thread", "advertiser", "supervisor"}
    /\ SnapshotsInit /\ ThreadInit /\ SupervisorInit
    /\ plugged = {FirstDevice} /\ ~attached

\* A step of one part.  No step of the router depends on the advertiser, which
\* is left out where the router's progress is checked; the advertiser does not
\* look at scans, and where it runs they find nothing.
Snapshots(A) == part = "snapshots" /\ A /\ UNCHANGED <<part, threadVars, supervisorVars>>
Thread(A) == part = "thread" /\ A /\ UNCHANGED <<part, Advertiser, snapshotVars, supervisorVars>>
ThreadAdvertised ==
    part = "advertiser" /\ ThreadNext /\ scan'.seen = {} /\ UNCHANGED <<part, snapshotVars, supervisorVars>>
Supervisor(A) == part = "supervisor" /\ A /\ UNCHANGED <<part, snapshotVars, threadVars>>

BackgroundNext ==
    \/ Snapshots(SnapshotsNext) \/ Supervisor(SupervisorNext)
    \/ Thread(ThreadNext) \/ ThreadAdvertised

\* The fairness of each part's specification, where that part runs.  Only one
\* part has steps to take in a behaviour, so a condition on one part and a
\* condition on another can be stated as one condition on either.
BackgroundFairness ==
    /\ WF_backgroundVars(\/ Snapshots(Tick)
                         \/ Thread(CallStep(Scanner))
                         \/ Supervisor(SupervisorStep))
    /\ WF_backgroundVars(\/ Snapshots(WakeNotified(p1) \/ WakeTick(p1))
                         \/ Thread(ScanEnds(Scanner) \/ ScanFails(Scanner))
                         \/ Supervisor(Disconnect))
    /\ WF_backgroundVars(\/ Snapshots(Publish(p1))
                         \/ Thread(CallStep(r1)))
    /\ WF_backgroundVars(Thread(ScanEnds(r1) \/ ScanFails(r1)))
    /\ WF_backgroundVars(Thread(BackoffElapses))
    /\ SF_backgroundVars(Snapshots(Load(p1)))

BackgroundSpec ==
    /\ BackgroundInit /\ [][BackgroundNext]_backgroundVars
    /\ BackgroundFairness

-----------------------------------------------------------------------------
\* ReachesEveryProcess of RuleSnapshots, where the snapshots run: every change
\* of the definitions reaches every process (rule_snapshots.rs run).
ChangesReachEveryProcess == part = "snapshots" => ReachesEveryProcess

\* SelectionTakesEffect of ThreadRuntime, where the router runs: the selected
\* radio is the one it ends up on (runtime.rs set_rcp_device).
RouterFollowsSelection == part = "thread" => SelectionTakesEffect

\* ScanRequestsEnd of ThreadRuntime, where the router runs: whoever asks for a
\* scan gets an answer (runtime.rs refresh_scan).
ScansAreAnswered == part = "thread" => ScanRequestsEnd

\* ProcessFollowsWorker of WorkerSupervisor, where the workers run: a worker
\* that ends takes the process down (workers.rs spawn_background_tasks).
WorkerExitEndsProcess == part = "supervisor" => ProcessFollowsWorker

=============================================================================
