-------------------------- MODULE BackgroundProofs --------------------------
(***************************************************************************)
(* The parts of a server process that run beside its requests.             *)
(*                                                                         *)
(* ReadyMeansFresh, for any number of processes, changes and any interval: *)
(* the invariant speaks of the reload in progress as well as of the        *)
(* published snapshot.  What a reload has read contains every change that  *)
(* was committed before the reload began, and publishing hands that fact   *)
(* to the snapshot together with the reload's start.  Ages are capped, so  *)
(* comparing them is only sound while one of them is below the cap.        *)
(*                                                                         *)
(* EndsQuietly, for any number of workers: what a later step relies on is  *)
(* established by an earlier one and must last.  The server is down before *)
(* the service stops, the monitor has joined every worker before it ends,  *)
(* and no worker starts again; the checkpoint that ends the service then   *)
(* finds neither a worker nor a connection that could still write, and no  *)
(* task but the ones its worker's end has aborted.                         *)
(*                                                                         *)
(* ScanIsOfTheNetwork and AdvertisedAddressCurrent, for any number of      *)
(* requests, radios and faults: both hold whenever no thread still owes    *)
(* the note that it replaced the network, also of the scan and of the      *)
(* registration that are under way.                                        *)
(***************************************************************************)
EXTENDS RuleSnapshots, ThreadRuntime, WorkerSupervisor, TLAPS

-----------------------------------------------------------------------------
(* Rule snapshots. *)

Ages == 0 .. Cap

SnapshotsTyped ==
    /\ version \in Versions
    /\ commitAge \in [Versions -> Ages]
    /\ loop \in [Processes -> {"waiting", "loading", "loaded"}]
    /\ started \in [Processes -> Ages]
    /\ loaded \in [Processes -> Versions]
    /\ current \in [Processes -> Versions]
    /\ age \in [Processes -> Ages]

\* What a reload has read is as new as its start.
LoadedFresh ==
    \A p \in Processes, v \in Versions :
        loop[p] = "loaded" /\ v <= version /\ commitAge[v] > started[p] => v <= loaded[p]

\* The published snapshot is as new as its age.
CurrentFresh ==
    \A p \in Processes, v \in Versions :
        v <= version /\ commitAge[v] > age[p] => v <= current[p]

FreshInv == SnapshotsTyped /\ LoadedFresh /\ CurrentFresh

-----------------------------------------------------------------------------
\* Ages grow by one up to the cap, which is above the readiness limit.
LEMMA CapIsNat == Cap \in Nat /\ Cap >= 1
BY RuleSnapshotsAssumption DEF Cap

\* Ages stay within their cap.
LEMMA OlderTyped == ASSUME NEW n \in Ages PROVE Older(n) \in Ages
BY CapIsNat DEF Older, Ages

\* Growing older never reverses an order of two ages.
LEMMA OlderMonotone ==
    ASSUME NEW m \in Ages, NEW n \in Ages, Older(m) > Older(n)
    PROVE  m > n
BY CapIsNat DEF Older, Ages

\* A process starts with the definitions of the first load (initialize).
LEMMA FreshInvInit == SnapshotsInit => FreshInv
BY CapIsNat, RuleSnapshotsAssumption
   DEF SnapshotsInit, FreshInv, SnapshotsTyped, LoadedFresh, CurrentFresh, Versions, Ages

\* A new version is younger than every snapshot, and the others keep their age.
LEMMA CommitKeepsFreshInv ==
    ASSUME FreshInv, Commit, UNCHANGED <<loop, started, loaded, current, age>>
    PROVE  FreshInv'
<1>1. version + 1 \in Versions /\ version' \in Versions
  BY RuleSnapshotsAssumption DEF FreshInv, SnapshotsTyped, Commit, Versions
<1>0. 0 \in Ages
  BY CapIsNat DEF Ages
<1>2. commitAge' \in [Versions -> Ages]
  BY <1>0 DEF FreshInv, SnapshotsTyped, Commit
<1>3. SnapshotsTyped'
  BY <1>1, <1>2 DEF FreshInv, SnapshotsTyped
<1>4. ASSUME NEW v \in Versions, v <= version', NEW n \in Ages, commitAge'[v] > n
      PROVE  v <= version /\ commitAge[v] > n
  <2>1. v # version + 1
    BY <1>4, <1>1 DEF FreshInv, SnapshotsTyped, Commit, Ages
  <2>2. v <= version
    BY <2>1, <1>4, RuleSnapshotsAssumption DEF FreshInv, SnapshotsTyped, Commit, Versions
  <2>3. QED
    BY <2>1, <2>2, <1>4 DEF FreshInv, SnapshotsTyped, Commit
<1>5. LoadedFresh'
  BY <1>4 DEF FreshInv, SnapshotsTyped, LoadedFresh
<1>6. CurrentFresh'
  BY <1>4 DEF FreshInv, SnapshotsTyped, CurrentFresh
<1>7. QED
  BY <1>3, <1>5, <1>6 DEF FreshInv

\* A reload reads the latest version, and publishing passes on its start.
LEMMA ReloadKeepsFreshInv ==
    ASSUME FreshInv, NEW p \in Processes,
           WakeNotified(p) \/ WakeTick(p) \/ Load(p) \/ LoadFails(p) \/ Publish(p)
    PROVE  FreshInv'
<1> USE DEF FreshInv, SnapshotsTyped, LoadedFresh, CurrentFresh
<1>1. CASE WakeNotified(p) \/ WakeTick(p)
  BY <1>1, CapIsNat DEF WakeNotified, WakeTick, BeginReload, Ages
<1>2. CASE Load(p)
  BY <1>2 DEF Load
<1>3. CASE LoadFails(p)
  BY <1>3, CapIsNat DEF LoadFails, EndReload, Ages
<1>4. CASE Publish(p)
  BY <1>4, CapIsNat DEF Publish, EndReload, Ages
<1>5. QED
  BY <1>1, <1>2, <1>3, <1>4

\* Time changes no version and no order of ages.
LEMMA TickKeepsFreshInv == ASSUME FreshInv, Tick PROVE FreshInv'
<1>1. SnapshotsTyped'
  BY OlderTyped, CapIsNat DEF FreshInv, SnapshotsTyped, Tick, Ages
<1>2. LoadedFresh'
  <2> SUFFICES ASSUME NEW p \in Processes, NEW v \in Versions,
                      loop'[p] = "loaded", v <= version', commitAge'[v] > started'[p]
               PROVE  v <= loaded'[p]
    BY DEF LoadedFresh
  <2>1. commitAge[v] > started[p]
    BY OlderMonotone DEF FreshInv, SnapshotsTyped, Tick
  <2>2. QED
    BY <2>1 DEF FreshInv, LoadedFresh, Tick
<1>3. CurrentFresh'
  <2> SUFFICES ASSUME NEW p \in Processes, NEW v \in Versions,
                      v <= version', commitAge'[v] > age'[p]
               PROVE  v <= current'[p]
    BY DEF CurrentFresh
  <2>1. commitAge[v] > age[p]
    BY OlderMonotone DEF FreshInv, SnapshotsTyped, Tick
  <2>2. QED
    BY <2>1 DEF FreshInv, CurrentFresh, Tick
<1>4. QED
  BY <1>1, <1>2, <1>3 DEF FreshInv

\* Every step keeps the ages in order.
LEMMA FreshInvInductive == FreshInv /\ [SnapshotsNext]_snapshotVars => FreshInv'
<1> SUFFICES ASSUME FreshInv, [SnapshotsNext]_snapshotVars PROVE FreshInv'
  OBVIOUS
<1>1. CASE CommitSilently \/ \E p \in Processes : CommitAndNotify(p)
  BY <1>1, CommitKeepsFreshInv DEF CommitSilently, CommitAndNotify
<1>2. CASE \E p \in Processes : \/ WakeNotified(p) \/ WakeTick(p)
                                \/ Load(p) \/ LoadFails(p) \/ Publish(p)
  BY <1>2, ReloadKeepsFreshInv
<1>3. CASE Tick
  BY <1>3, TickKeepsFreshInv
<1>4. CASE UNCHANGED snapshotVars
  BY <1>4 DEF snapshotVars, FreshInv, SnapshotsTyped, LoadedFresh, CurrentFresh
<1>5. QED
  BY <1>1, <1>2, <1>3, <1>4 DEF SnapshotsNext

\* A process that reports itself ready evaluates with every change that is
\* older than its last successful reload.
THEOREM ReadyIsFresh == SnapshotsSpec => []ReadyMeansFresh
<1>1. FreshInv => ReadyMeansFresh
  BY DEF FreshInv, CurrentFresh, ReadyMeansFresh
<1>2. QED
  BY <1>1, FreshInvInit, FreshInvInductive, PTL DEF SnapshotsSpec

-----------------------------------------------------------------------------
(* Workers. *)

\* The kinds of value the proof tells apart.
SupervisorTyped ==
    /\ worker \in [Workers -> {"running", "ended", "panicked"}]
    /\ ready \in [Workers -> BOOLEAN]
    /\ connection \in BOOLEAN
    /\ task \in [Spawners -> {"none", "running", "aborted", "gone"}]
    /\ unsaved \subseteq {"worker", "request", "task"}

\* A server has no connection before it serves, and none when it is down.
ServerDrained == server \in {"binding", "down"} => ~connection

\* A monitor that has ended has joined every worker and unmarked it.
MonitorJoined == monitor = "ended" => \A w \in Workers : ~Running(w) /\ ~ready[w]

\* The service stops after the server and ends after the monitor.
ServiceOrdered ==
    /\ service # "running" => server = "down"
    /\ service \in {"ended", "failed"} => monitor = "ended"

\* A worker that is gone has no task left that was not aborted.
TasksDropped == \A w \in Spawners : task[w] = "running" => Running(w)

\* After the checkpoint only a task writes that outlived its worker.
CheckpointLast ==
    service = "ended" =>
        /\ unsaved \subseteq {"task"}
        /\ unsaved # {} => \E w \in Spawners : task[w] \in {"aborted", "gone"}

QuietInv ==
    /\ SupervisorTyped /\ ServerDrained /\ MonitorJoined /\ ServiceOrdered
    /\ TasksDropped /\ CheckpointLast

-----------------------------------------------------------------------------
\* A process starts with its workers running and the server up
\* (spawn_background_tasks).
LEMMA QuietInvInit == SupervisorInit => QuietInv
BY DEF SupervisorInit, QuietInv, SupervisorTyped, ServerDrained, MonitorJoined, ServiceOrdered,
       TasksDropped, CheckpointLast, Running

\* The workers: each write needs a running worker, and a worker that is gone
\* stays gone.
LEMMA WorkerStepKeepsQuietInv ==
    ASSUME QuietInv, NEW w \in Workers,
           \/ WorkerWrites(w) \/ StoreProbed \/ WorkerStops(w)
           \/ \E how \in {"ended", "panicked"} : WorkerFails(w, how)
    PROVE  QuietInv'
<1> USE WorkerSupervisorAssumption
    DEF QuietInv, SupervisorTyped, ServerDrained, MonitorJoined, ServiceOrdered, TasksDropped,
        CheckpointLast, Running
<1>1. CASE WorkerWrites(w)
  <2>1. monitor # "ended" /\ service # "ended"
    BY <1>1 DEF WorkerWrites
  <2>2. QED
    BY <1>1, <2>1 DEF WorkerWrites
<1>2. CASE StoreProbed
  <2>1. monitor # "ended"
    BY <1>2 DEF StoreProbed
  <2>2. QED
    BY <1>2, <2>1 DEF StoreProbed
<1>3. CASE WorkerStops(w)
  BY <1>3 DEF WorkerStops, Gone
<1>4. CASE \E how \in {"ended", "panicked"} : WorkerFails(w, how)
  BY <1>4 DEF WorkerFails, Gone
<1>5. QED
  BY <1>1, <1>2, <1>3, <1>4

\* The tasks: one starts under a worker that runs, and after the checkpoint one
\* that still writes has been aborted.
LEMMA TaskStepKeepsQuietInv ==
    ASSUME QuietInv, NEW w \in Spawners, TaskStarts(w) \/ TaskWrites(w) \/ TaskEnds(w)
    PROVE  QuietInv'
<1> USE WorkerSupervisorAssumption
    DEF QuietInv, SupervisorTyped, ServerDrained, MonitorJoined, ServiceOrdered, TasksDropped,
        CheckpointLast, Running
<1>1. CASE TaskStarts(w)
  <2>1. monitor # "ended" /\ service # "ended"
    BY <1>1 DEF TaskStarts
  <2>2. QED
    BY <1>1, <2>1 DEF TaskStarts
<1>2. CASE TaskWrites(w)
  <2>1. service = "ended" => task[w] = "aborted"
    BY <1>2 DEF TaskWrites
  <2>2. QED
    BY <1>2, <2>1 DEF TaskWrites
<1>3. CASE TaskEnds(w)
  <2>1. service = "ended" => task[w] = "aborted"
    BY <1>3 DEF TaskEnds
  <2>2. QED
    BY <1>3, <2>1 DEF TaskEnds
<1>4. QED
  BY <1>1, <1>2, <1>3

\* The monitor ends only when every worker is joined.
LEMMA MonitorStepKeepsQuietInv ==
    ASSUME QuietInv,
           MonitorCancelled \/ MonitorEnds \/ \E w \in Workers : MonitorSeesExit(w)
    PROVE  QuietInv'
<1> USE DEF QuietInv, SupervisorTyped, ServerDrained, MonitorJoined, ServiceOrdered, TasksDropped,
        CheckpointLast,
            Running
<1>1. CASE MonitorCancelled
  BY <1>1 DEF MonitorCancelled
<1>2. CASE MonitorEnds
  BY <1>2 DEF MonitorEnds
<1>3. CASE \E w \in Workers : MonitorSeesExit(w)
  BY <1>3 DEF MonitorSeesExit
<1>4. QED
  BY <1>1, <1>2, <1>3

\* The server goes down without a connection, and accepts none afterwards.
LEMMA ServerStepKeepsQuietInv ==
    ASSUME QuietInv,
           \/ Connect \/ RequestWrites \/ Disconnect \/ Signal
           \/ Bind \/ ServerCancelled \/ ServerDown \/ ServerFails
    PROVE  QuietInv'
<1> USE DEF QuietInv, SupervisorTyped, ServerDrained, MonitorJoined, ServiceOrdered, TasksDropped,
        CheckpointLast,
            Running
<1>1. CASE RequestWrites
  <2>1. service = "running"
    BY <1>1 DEF RequestWrites
  <2>2. QED
    BY <1>1, <2>1 DEF RequestWrites
<1>2. CASE Bind \/ Connect \/ Disconnect
  BY <1>2 DEF Bind, Connect, Disconnect
<1>3. CASE Signal \/ ServerCancelled
  BY <1>3 DEF Signal, ServerCancelled
<1>4. CASE ServerDown
  BY <1>4 DEF ServerDown
<1>5. CASE ServerFails
  BY <1>5 DEF ServerFails
<1>6. QED
  BY <1>1, <1>2, <1>3, <1>4, <1>5

\* The service takes its steps in order.
LEMMA ServiceStepKeepsQuietInv ==
    ASSUME QuietInv, ServiceStops \/ ServiceEnds \/ CheckpointFails
    PROVE  QuietInv'
<1> USE DEF QuietInv, SupervisorTyped, ServerDrained, MonitorJoined, ServiceOrdered, TasksDropped,
        CheckpointLast,
            Running
<1>1. CASE ServiceStops
  BY <1>1 DEF ServiceStops
<1>2. CASE ServiceEnds
  BY <1>2 DEF ServiceEnds
<1>3. CASE CheckpointFails
  BY <1>3 DEF CheckpointFails
<1>4. QED
  BY <1>1, <1>2, <1>3

\* Every step keeps what the shutdown relies on.
LEMMA QuietInvInductive == QuietInv /\ [SupervisorNext]_supervisorVars => QuietInv'
<1> SUFFICES ASSUME QuietInv, [SupervisorNext]_supervisorVars PROVE QuietInv'
  OBVIOUS
<1>1. CASE UNCHANGED supervisorVars
  BY <1>1 DEF supervisorVars, QuietInv, SupervisorTyped, ServerDrained, MonitorJoined, ServiceOrdered,
              TasksDropped, CheckpointLast, Running
<1>2. CASE SupervisorStep
  BY <1>2, WorkerStepKeepsQuietInv, MonitorStepKeepsQuietInv, ServerStepKeepsQuietInv,
     ServiceStepKeepsQuietInv DEF SupervisorStep
<1>3. CASE SupervisorNext
  BY <1>2, <1>3, WorkerStepKeepsQuietInv, TaskStepKeepsQuietInv, ServerStepKeepsQuietInv,
     WorkerSupervisorAssumption DEF SupervisorNext
<1>4. QED
  BY <1>1, <1>3

\* When the service has ended, nothing is newer than the checkpoint but what a
\* task wrote that its worker's end aborted, and nobody is reported as ready.
THEOREM ShutdownIsQuiet == SupervisorSpec => []EndsQuietly
<1>1. QuietInv => EndsQuietly
  BY DEF QuietInv, MonitorJoined, ServiceOrdered, CheckpointLast, EndsQuietly
<1>2. QED
  BY <1>1, QuietInvInit, QuietInvInductive, PTL DEF SupervisorSpec

-----------------------------------------------------------------------------
(* The border router. *)

\* Some thread has replaced the network and not yet said so.
NoteDue == \E t \in Callers : call[t].pc = "changed"

\* What the advertiser has, or is about to publish, when it is complete.
Record == [current : BOOLEAN, present : BOOLEAN]

Registrations == Record \cup {NotRegistered}

Adverts == {IdleAdvert, [pc |-> "attached"]} \cup [pc : {"address"}, current : BOOLEAN]
             \cup [pc : {"register"}, current : BOOLEAN, present : BOOLEAN]

RuntimeShaped ==
    /\ call = [t \in Callers |-> call[t]]
    /\ scan = [sources |-> scan.sources, scanning |-> scan.scanning, seen |-> scan.seen,
               stale |-> scan.stale, fresh |-> scan.fresh]
    /\ scan.stale \in BOOLEAN
    /\ registration \in Registrations
    /\ advert \in Adverts

\* A scan, stored or under way, is of the present mesh unless it is known not
\* to be.
ScanCurrent ==
    ~NoteDue => /\ scan.sources \subseteq {"present"}
                /\ ~scan.stale => scan.seen \subseteq {"present"}

\* So is the address of a registration, made or under way.
AddressCurrent ==
    ~NoteDue => /\ registration \in Record /\ registration.current => registration.present
                /\ advert.pc = "register" /\ advert.current => advert.present

RuntimeInv == RuntimeShaped /\ ScanCurrent /\ AddressCurrent

\* Nothing has been scanned, published or changed at first.
LEMMA RuntimeInvInit == ThreadInit => RuntimeInv
BY DEF ThreadInit, RuntimeInv, RuntimeShaped, ScanCurrent, AddressCurrent, NoteDue, Adverts,
       Registrations, NotRegistered, IdleAdvert, IdleCall, NoScan

\* A thread that does not owe a note leaves the notes of the others due.
LEMMA NotesStayDue ==
    ASSUME RuntimeInv, NEW t \in Callers, NEW c, call[t].pc # "changed", Goto(t, c)
    PROVE  NoteDue => NoteDue'
BY DEF RuntimeInv, RuntimeShaped, NoteDue, Goto

\* A call stays a function of the threads.
LEMMA GotoShape ==
    ASSUME RuntimeInv, NEW t \in Callers, NEW c, Goto(t, c)
    PROVE  call' = [u \in Callers |-> call'[u]]
BY DEF RuntimeInv, RuntimeShaped, Goto

\* A step that leaves scan and advertiser alone and settles no change.
LEMMA ElsewhereKeepsRuntimeInv ==
    ASSUME RuntimeInv, UNCHANGED <<scan, advert, registration>>,
           call' = [u \in Callers |-> call'[u]], NoteDue => NoteDue'
    PROVE  RuntimeInv'
BY DEF RuntimeInv, RuntimeShaped, ScanCurrent, AddressCurrent

\* What is superseded is no longer current.
LEMMA SupersededShape ==
    ASSUME NEW r \in Registrations, NEW a \in Adverts
    PROVE  /\ Superseded(r) \in Registrations /\ ~Superseded(r).current
           /\ Superseded(a) \in Adverts
           /\ Superseded(a).pc = "register" => ~Superseded(a).current
<1>1. Superseded(r) \in Registrations /\ ~Superseded(r).current
  BY DEF Superseded, Registrations, Record, NotRegistered
<1>2. CASE a \in {IdleAdvert, [pc |-> "attached"]}
  BY <1>1, <1>2 DEF Superseded, IdleAdvert, Adverts
<1>3. CASE a \in [pc : {"address"}, current : BOOLEAN]
  BY <1>1, <1>3 DEF Superseded, Adverts
<1>4. CASE a \in [pc : {"register"}, current : BOOLEAN, present : BOOLEAN]
  BY <1>1, <1>4 DEF Superseded, Adverts
<1> QED
  BY <1>1, <1>2, <1>3, <1>4 DEF Adverts

\* What is outdated keeps its shape.
LEMMA OutdatedShape ==
    ASSUME NEW r \in Registrations, NEW a \in Adverts
    PROVE  Outdated(r) \in Registrations /\ Outdated(a) \in Adverts
<1>1. Outdated(r) \in Registrations
  BY DEF Outdated, Registrations, Record, NotRegistered
<1>2. CASE a \in {IdleAdvert, [pc |-> "attached"]}
  BY <1>1, <1>2 DEF Outdated, IdleAdvert, Adverts
<1>3. CASE a \in [pc : {"address"}, current : BOOLEAN]
  BY <1>1, <1>3 DEF Outdated, Adverts
<1>4. CASE a \in [pc : {"register"}, current : BOOLEAN, present : BOOLEAN]
  BY <1>1, <1>4 DEF Outdated, Adverts
<1> QED
  BY <1>1, <1>2, <1>3, <1>4 DEF Adverts

\* mark_network_changed, alone or after a new router has changed the address:
\* nothing stored, published or under way counts as current any more.
LEMMA MarkedKeepsRuntimeInv ==
    ASSUME RuntimeInv, call' = [u \in Callers |-> call'[u]],
           scan' = InvalidateScan,
           NEW r \in Registrations, registration' = Superseded(r),
           NEW a \in Adverts, advert' = Superseded(a)
    PROVE  RuntimeInv'
<1>1. /\ registration' \in Registrations /\ ~registration'.current
      /\ advert' \in Adverts /\ (advert'.pc = "register" => ~advert'.current)
  BY SupersededShape
<1>2. scan'.sources = {} /\ scan'.stale /\ scan'.stale \in BOOLEAN
      /\ scan' = [sources |-> scan'.sources, scanning |-> scan'.scanning,
                  seen |-> scan'.seen, stale |-> scan'.stale, fresh |-> scan'.fresh]
  BY DEF InvalidateScan, NoScan, RuntimeInv, RuntimeShaped
<1> QED
  BY <1>1, <1>2 DEF RuntimeInv, RuntimeShaped, ScanCurrent, AddressCurrent

\* Steps of a refresh: a router that is stopped or started changes the mesh or
\* the address and says so in the same step, the others change neither.
LEMMA RefreshKeepsRuntimeInv ==
    ASSUME RuntimeInv, NEW t \in Callers,
           \/ ApplySelection(t) \/ RefreshBegins(t) \/ RefreshDeferred(t) \/ RefreshIdle(t)
           \/ RefreshHealthy(t) \/ RefreshDegraded(t) \/ RefreshStops(t) \/ RefreshStopFails(t)
           \/ RefreshWaits(t) \/ RefreshStartFails(t) \/ RefreshStarts(t)
    PROVE  RuntimeInv'
<1>1. CASE RefreshStops(t) \/ RefreshStopFails(t)
  <2>1. \E c : Goto(t, c)
    BY <1>1 DEF RefreshStops, RefreshStopFails, AfterRefresh
  <2>2. MarkNetworkChanged
    BY <1>1 DEF RefreshStops, RefreshStopFails, GivesUp
  <2> QED
    BY <2>1, <2>2, GotoShape, MarkedKeepsRuntimeInv
       DEF MarkNetworkChanged, RuntimeInv, RuntimeShaped
<1>2. CASE RefreshStarts(t)
  <2>1. \E c : Goto(t, c)
    BY <1>2 DEF RefreshStarts, AfterRefresh
  <2>2. Outdated(registration) \in Registrations /\ Outdated(advert) \in Adverts
    BY OutdatedShape DEF RuntimeInv, RuntimeShaped
  <2> QED
    BY <1>2, <2>1, <2>2, GotoShape, MarkedKeepsRuntimeInv DEF RefreshStarts
<1>3. CASE \/ ApplySelection(t) \/ RefreshBegins(t) \/ RefreshDeferred(t) \/ RefreshIdle(t)
           \/ RefreshHealthy(t) \/ RefreshDegraded(t) \/ RefreshWaits(t) \/ RefreshStartFails(t)
  <2>1. call[t].pc # "changed" /\ \E c : Goto(t, c)
    BY <1>3 DEF ApplySelection, RefreshBegins, RefreshDeferred, RefreshIdle, RefreshHealthy,
                RefreshDegraded, RefreshWaits, RefreshStartFails, AfterRefresh, Locked, Writing
  <2>2. UNCHANGED <<scan, advert, registration>>
    BY <1>3 DEF ApplySelection, RefreshBegins, RefreshDeferred, RefreshIdle, RefreshHealthy,
                RefreshDegraded, RefreshWaits, RefreshStartFails, Mesh, Advertiser
  <2> QED
    BY <2>1, <2>2, NotesStayDue, GotoShape, ElsewhereKeepsRuntimeInv
<1> QED
  BY <1>1, <1>2, <1>3

\* A change of the network: while its note is due nothing is promised, and the
\* note takes back whatever was seen before.
LEMMA ChangeKeepsRuntimeInv ==
    ASSUME RuntimeInv, NEW t \in Callers,
           ChangeNetwork(t) \/ ControllerChanges(t) \/ ControllerFails(t) \/ ChangeEnds(t)
    PROVE  RuntimeInv'
<1>1. CASE ChangeNetwork(t)
  <2>1. call[t].pc # "changed" /\ Goto(t, [pc |-> "changing"])
    BY <1>1 DEF ChangeNetwork, IdleCall
  <2>2. scan'.sources = {} /\ scan'.stale /\ scan'.stale \in BOOLEAN
        /\ scan' = [sources |-> scan'.sources, scanning |-> scan'.scanning,
                    seen |-> scan'.seen, stale |-> scan'.stale, fresh |-> scan'.fresh]
    BY <1>1 DEF ChangeNetwork, InvalidateScan, NoScan, RuntimeInv, RuntimeShaped
  <2>3. UNCHANGED <<advert, registration>>
    BY <1>1 DEF ChangeNetwork, Advertiser
  <2>4. (NoteDue => NoteDue') /\ call' = [u \in Callers |-> call'[u]]
    BY <2>1, NotesStayDue, GotoShape
  <2> QED
    BY <2>2, <2>3, <2>4 DEF RuntimeInv, RuntimeShaped, ScanCurrent, AddressCurrent
<1>2. CASE ControllerChanges(t) \/ ControllerFails(t)
  <2>1. Goto(t, [pc |-> "changed"])
    BY <1>2 DEF ControllerChanges, ControllerFails
  <2>2. NoteDue' /\ call' = [u \in Callers |-> call'[u]]
    BY <2>1 DEF Goto, NoteDue, RuntimeInv, RuntimeShaped
  <2>3. UNCHANGED <<scan, advert, registration>> \/ \E b \in BOOLEAN : MeshReplaced(b)
    BY <1>2 DEF ControllerChanges, ControllerFails, Mesh, Advertiser
  <2>4. CASE \E b \in BOOLEAN : MeshReplaced(b)
    <3>1. registration' \in Registrations /\ advert' \in Adverts
      BY <2>4, OutdatedShape DEF MeshReplaced, RuntimeInv, RuntimeShaped
    <3>2. scan' = [scan EXCEPT !.sources = Past(scan.sources), !.seen = Past(scan.seen)]
      BY <2>4 DEF MeshReplaced
    <3>3. scan'.stale \in BOOLEAN
          /\ scan' = [sources |-> scan'.sources, scanning |-> scan'.scanning,
                      seen |-> scan'.seen, stale |-> scan'.stale, fresh |-> scan'.fresh]
      BY <3>2 DEF RuntimeInv, RuntimeShaped
    <3> QED
      BY <2>2, <3>1, <3>3 DEF RuntimeInv, RuntimeShaped, ScanCurrent, AddressCurrent
  <2>5. CASE UNCHANGED <<scan, advert, registration>>
    BY <2>2, <2>5, ElsewhereKeepsRuntimeInv
  <2> QED
    BY <2>3, <2>4, <2>5
<1>3. CASE ChangeEnds(t)
  BY <1>3, GotoShape, MarkedKeepsRuntimeInv
     DEF ChangeEnds, MarkNetworkChanged, RuntimeInv, RuntimeShaped
<1> QED
  BY <1>1, <1>2, <1>3

\* Waking those who wait settles no change.
LEMMA WokenNotes ==
    ASSUME RuntimeInv, NEW t \in Callers, call[t].pc # "changed", call' = Woken(t)
    PROVE  (NoteDue => NoteDue') /\ call' = [u \in Callers |-> call'[u]]
<1>1. call' = [u \in Callers |-> call'[u]]
  BY DEF Woken
<1>2. ASSUME NEW u \in Callers, call[u].pc = "changed" PROVE call'[u] = call[u]
  BY <1>2 DEF Woken
<1> QED
  BY <1>1, <1>2 DEF NoteDue

\* A scan sees the present mesh, is told when that is replaced, and is stored
\* only if it was not.
LEMMA ScanKeepsRuntimeInv ==
    ASSUME RuntimeInv, NEW t \in Callers,
           \/ ScanRequested(t) \/ ScanAnswered(t) \/ ScanStarts(t) \/ ScanWaits(t)
           \/ ScanObserves(t) \/ ScanEnds(t) \/ ScanFails(t)
    PROVE  RuntimeInv'
<1>1. CASE ScanRequested(t) \/ ScanAnswered(t) \/ ScanWaits(t)
  <2>1. call[t].pc # "changed" /\ \E c : Goto(t, c)
    BY <1>1 DEF ScanRequested, ScanAnswered, ScanWaits, ScanUnanswered, IdleCall
  <2>2. UNCHANGED <<scan, advert, registration>>
    BY <1>1 DEF ScanRequested, ScanAnswered, ScanWaits, Mesh, Advertiser
  <2> QED
    BY <2>1, <2>2, NotesStayDue, GotoShape, ElsewhereKeepsRuntimeInv
<1>2. CASE ScanStarts(t) \/ ScanObserves(t) \/ ScanEnds(t) \/ ScanFails(t)
  <2>1. UNCHANGED <<advert, registration>>
    BY <1>2 DEF ScanStarts, ScanObserves, ScanEnds, ScanFails, Advertiser
  <2>2. (NoteDue => NoteDue') /\ call' = [u \in Callers |-> call'[u]]
    <3>1. CASE ScanStarts(t)
      BY <3>1, NotesStayDue, GotoShape DEF ScanStarts, ScanUnanswered
    <3>2. CASE ScanObserves(t)
      BY <3>2 DEF ScanObserves, NoteDue, RuntimeInv, RuntimeShaped
    <3>3. CASE ScanEnds(t) \/ ScanFails(t)
      BY <3>3, WokenNotes DEF ScanEnds, ScanFails
    <3> QED
      BY <1>2, <3>1, <3>2, <3>3
  <2>3. /\ scan'.stale \in BOOLEAN
        /\ scan' = [sources |-> scan'.sources, scanning |-> scan'.scanning,
                    seen |-> scan'.seen, stale |-> scan'.stale, fresh |-> scan'.fresh]
    BY <1>2 DEF ScanStarts, ScanObserves, ScanEnds, ScanFails, Merges, RuntimeInv, RuntimeShaped
  <2>4. \/ scan'.sources = scan.sources /\ scan'.seen \in {{}, {"present"}}
        \/ ~scan.stale /\ scan'.sources \subseteq scan.seen \cup scan.sources /\ scan'.seen = {}
    BY <1>2 DEF ScanStarts, ScanObserves, ScanEnds, ScanFails, Merges, RuntimeInv, RuntimeShaped
  <2>5. ScanCurrent'
    BY <2>2, <2>4 DEF RuntimeInv, ScanCurrent
  <2> QED
    BY <2>1, <2>2, <2>3, <2>5 DEF RuntimeInv, RuntimeShaped, AddressCurrent
<1> QED
  BY <1>1, <1>2

\* The advertiser publishes an address it read after the generation.
LEMMA AdvertKeepsRuntimeInv ==
    ASSUME RuntimeInv, AdvertStep
    PROVE  RuntimeInv'
<1>0. UNCHANGED <<scan, call>>
  BY DEF AdvertStep, AdvertWithdraws, AdvertAttached, AdvertReadsGeneration, AdvertReadsAddress,
         AdvertGivesUp, AdvertRegisters, Advertises, Mesh
<1>1. NoteDue' <=> NoteDue
  BY <1>0 DEF NoteDue
<1>2. RuntimeShaped' /\ AddressCurrent'
  <2>1. CASE AdvertWithdraws
    BY <1>0, <1>1, <2>1 DEF AdvertWithdraws, RuntimeInv, RuntimeShaped, AddressCurrent,
       Registrations, NotRegistered
  <2>2. CASE AdvertAttached
    BY <1>0, <1>1, <2>2 DEF AdvertAttached, RuntimeInv, RuntimeShaped, AddressCurrent, Adverts
  <2>3. CASE AdvertReadsGeneration
    <3>1. advert' \in {IdleAdvert, [pc |-> "address", current |-> TRUE]}
      BY <2>3 DEF AdvertReadsGeneration
    <3>2. advert' \in Adverts /\ advert'.pc # "register"
      <4>1. CASE advert' = IdleAdvert
        BY <4>1 DEF Adverts, IdleAdvert
      <4>2. CASE advert' = [pc |-> "address", current |-> TRUE]
        BY <4>2 DEF Adverts
      <4> QED
        BY <3>1, <4>1, <4>2
    <3> QED
      BY <1>0, <1>1, <2>3, <3>2
         DEF AdvertReadsGeneration, RuntimeInv, RuntimeShaped, AddressCurrent
  <2>4. CASE AdvertReadsAddress
    <3>1. advert.current \in BOOLEAN
      BY <2>4 DEF AdvertReadsAddress, RuntimeInv, RuntimeShaped, Adverts, IdleAdvert
    <3>2. advert' = [pc |-> "register", current |-> advert.current, present |-> TRUE]
      BY <2>4 DEF AdvertReadsAddress
    <3>3. advert' \in Adverts /\ (advert'.pc = "register" => advert'.present)
      BY <3>1, <3>2 DEF Adverts
    <3> QED
      BY <1>0, <1>1, <2>4, <3>3
         DEF AdvertReadsAddress, RuntimeInv, RuntimeShaped, AddressCurrent
  <2>5. CASE AdvertRegisters
    <3>1. advert.current \in BOOLEAN /\ advert.present \in BOOLEAN
      BY <2>5 DEF AdvertRegisters, RuntimeInv, RuntimeShaped, Adverts, IdleAdvert
    <3>2. advert' \in Adverts /\ advert'.pc # "register"
      BY <2>5 DEF AdvertRegisters, Adverts, IdleAdvert
    <3>3. CASE registration' = NotRegistered
      BY <1>0, <1>1, <3>2, <3>3
         DEF RuntimeInv, RuntimeShaped, AddressCurrent, Registrations, NotRegistered
    <3>4. CASE registration' = [current |-> advert.current, present |-> advert.present]
      <4>1. registration' \in Registrations
        BY <3>1, <3>4 DEF Registrations, Record
      <4>2. ~NoteDue /\ registration'.current => registration'.present
        BY <2>5, <3>4 DEF AdvertRegisters, RuntimeInv, AddressCurrent
      <4> QED
        BY <1>0, <1>1, <3>2, <4>1, <4>2 DEF RuntimeInv, RuntimeShaped, AddressCurrent
    <3> QED
      BY <2>5, <3>3, <3>4 DEF AdvertRegisters
  <2>6. CASE AdvertGivesUp
    <3>1. advert' \in Adverts /\ advert'.pc # "register" /\ registration' = registration
      BY <2>6 DEF AdvertGivesUp, Adverts, IdleAdvert
    <3> QED
      BY <1>0, <1>1, <3>1 DEF RuntimeInv, RuntimeShaped, AddressCurrent
  <2> QED
    BY <2>1, <2>2, <2>3, <2>4, <2>5, <2>6 DEF AdvertStep
<1>3. ScanCurrent'
  BY <1>0, <1>1 DEF RuntimeInv, ScanCurrent
<1> QED
  BY <1>2, <1>3 DEF RuntimeInv

\* Every step of the border router keeps the invariant.
LEMMA RuntimeInvInductive == RuntimeInv /\ [ThreadNext]_threadVars => RuntimeInv'
<1> SUFFICES ASSUME RuntimeInv, [ThreadNext]_threadVars PROVE RuntimeInv'
  OBVIOUS
<1>0. Requests \subseteq Callers
  BY DEF Callers
<1>1. ASSUME NEW t \in Callers, CallStep(t) PROVE RuntimeInv'
  BY <1>1, RefreshKeepsRuntimeInv, ChangeKeepsRuntimeInv, ScanKeepsRuntimeInv DEF CallStep
<1>2. ASSUME NEW t \in Requests, NewRequest(t) PROVE RuntimeInv'
  <2>0. t \in Callers
    BY <1>0
  <2>1. CASE RefreshRequested(t)
    BY <2>0, <2>1, NotesStayDue, GotoShape, ElsewhereKeepsRuntimeInv
       DEF RefreshRequested, IdleCall, Mesh, Advertiser
  <2>2. ASSUME NEW d, SelectRcp(t, d) PROVE RuntimeInv'
    BY <2>0, <2>2, NotesStayDue, GotoShape, ElsewhereKeepsRuntimeInv
       DEF SelectRcp, IdleCall, Mesh, Advertiser
  <2>3. CASE ChangeNetwork(t) \/ ScanRequested(t)
    BY <2>0, <2>3, ChangeKeepsRuntimeInv, ScanKeepsRuntimeInv
  <2> QED
    BY <1>2, <2>1, <2>2, <2>3 DEF NewRequest
<1>3. CASE AdvertStep
  BY <1>3, AdvertKeepsRuntimeInv
<1>4. CASE ScanAges
  <2>1. UNCHANGED <<call, advert, registration>> /\ scan' = [scan EXCEPT !.fresh = FALSE]
    BY <1>4 DEF ScanAges, Advertiser
  <2>2. NoteDue' <=> NoteDue
    BY <2>1 DEF NoteDue
  <2> QED
    BY <2>1, <2>2 DEF RuntimeInv, RuntimeShaped, ScanCurrent, AddressCurrent
<1>5. CASE \/ AgentExits \/ BackoffElapses \/ UNCHANGED threadVars
           \/ \E d \in Devices : Unplug(d) \/ Plug(d)
  <2>1. UNCHANGED <<call, scan, advert, registration>>
    BY <1>5 DEF AgentExits, BackoffElapses, Unplug, Plug, threadVars, Mesh, Advertiser
  <2>2. (NoteDue => NoteDue') /\ call' = [u \in Callers |-> call'[u]]
    BY <2>1 DEF NoteDue, RuntimeInv, RuntimeShaped
  <2> QED
    BY <2>1, <2>2, ElsewhereKeepsRuntimeInv
<1> QED
  BY <1>1, <1>2, <1>3, <1>4, <1>5 DEF ThreadNext

\* refresh_scan_with stores no scan that a change of the network has overtaken,
\* whatever number of requests change and scan it at once.
THEOREM ScansAreOfTheNetwork == ThreadSpec => []ScanIsOfTheNetwork
<1>1. RuntimeInv => ScanIsOfTheNetwork
  BY DEF RuntimeInv, ScanCurrent, ScanIsOfTheNetwork, Settled, NoteDue
<1> QED
  BY <1>1, RuntimeInvInit, RuntimeInvInductive, PTL DEF ThreadSpec

\* The advertiser reads the generation before the address, so that no change in
\* between leaves a registration that counts as current with an old address.
THEOREM AdvertisedAddressIsCurrent == ThreadSpec => []AdvertisedAddressCurrent
<1>1. RuntimeInv => AdvertisedAddressCurrent
  <2> SUFFICES ASSUME RuntimeInv, Settled, registration.current PROVE registration.present
    BY DEF AdvertisedAddressCurrent
  <2>1. ~NoteDue
    BY DEF Settled, NoteDue
  <2>2. registration \in Record
    BY DEF RuntimeInv, RuntimeShaped, Registrations, NotRegistered
  <2> QED
    BY <2>1, <2>2 DEF RuntimeInv, AddressCurrent
<1> QED
  BY <1>1, RuntimeInvInit, RuntimeInvInductive, PTL DEF ThreadSpec

=============================================================================
