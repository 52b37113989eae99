--------------------------- MODULE ThreadRuntime ---------------------------
(***************************************************************************)
(* The OpenThread border router of an edge host                            *)
(* (openthread-runtime/src/runtime.rs), shared by a scanner that refreshes *)
(* it every few seconds, by HTTP requests that select a radio (RCP), form  *)
(* a network or scan it, and by the DNS-SD advertiser of                   *)
(* backend/src/app/workers.rs.                                             *)
(*                                                                         *)
(* Each caller is a thread.  refresh holds the lifecycle lock exclusively, *)
(* the operations on the mesh hold it shared; a waiting writer keeps new   *)
(* readers out, as std's RwLock does.                                      *)
(*                                                                         *)
(* A generation that was read is kept as whether the counter still has     *)
(* that value, and what was seen of the mesh as whether it is of the       *)
(* present mesh or of a past one, so neither needs a bound.                *)
(***************************************************************************)
EXTENDS Naturals, FiniteSets

CONSTANTS
    Devices,        \* serial devices an RCP can be on
    Verified,       \* those whose USB identity is that of a known RCP
    Requests,       \* threads that run HTTP requests
    HealthFailureThreshold, \* failed health checks in a row that end a router
    MaxFaults       \* bound: failures of the radio, the agent and its control

ASSUME ThreadRuntimeAssumption ==
    /\ MaxFaults \in Nat
    /\ HealthFailureThreshold \in Nat \ {0}
    /\ Verified \subseteq Devices
    /\ "scanner" \notin Requests /\ "auto" \notin Devices /\ "none" \notin Devices

VARIABLES
    stored,         \* the RCP in runtime-settings.json
    selected,       \* the RCP in the running configuration
    plugged,        \* serial devices present
    active,         \* device of the running router, or "none"
    exited,         \* the router's process has ended, or cannot be inspected
    available,      \* snapshot.available
    healthFailures, \* consecutive_health_failures
    backoff,        \* retry_not_before lies ahead
    attached,       \* the router is part of a mesh
    scan,           \* ThreadScanState
    call,           \* what each thread is doing
    advert,         \* what the advertiser is doing
    registration,   \* the DNS-SD record it published, or NotRegistered
    faults          \* failures so far

threadVars ==
    <<stored, selected, plugged, active, exited, available, healthFailures,
      backoff, attached, scan, call, advert, registration, faults>>

-----------------------------------------------------------------------------
Scanner == "scanner"
Callers == Requests \union {Scanner}
AutoRcp == "auto"
None == "none"

IdleCall == [pc |-> "idle"]
IdleAdvert == [pc |-> "idle"]
NotRegistered == [current |-> FALSE]

\* The meshes a scan was taken of: the present one, or one before it.
NoScan == {}
Past(sources) == {"past" : m \in sources}

Reading(t) == call[t].pc \in {"changing", "changed", "asked", "scanning", "waiting"}
Writing(t) == call[t].pc = "starting"
CanRead == \A t \in Callers : call[t].pc \notin {"locking", "starting"}
CanWrite == \A t \in Callers : ~Reading(t) /\ ~Writing(t)

Goto(t, c) == call' = [call EXCEPT ![t] = c]

Radio == <<plugged, active, exited, available, healthFailures, backoff>>
Mesh == <<attached, scan>>
Advertiser == <<advert, registration>>
Settings == <<stored, selected>>

\* A registration, made or under way, whose address or generation is no longer
\* the present one.
Outdated(r) == IF "present" \in DOMAIN r THEN [r EXCEPT !.present = FALSE] ELSE r
Superseded(r) == IF "current" \in DOMAIN r THEN [r EXCEPT !.current = FALSE] ELSE r

\* Mutant: a scan under way is not told of the change.
InvalidateStored == [scan EXCEPT !.sources = NoScan, !.fresh = FALSE]

\* invalidate_scan: stale stands for a generation other than the one the scan
\* under way began with.
InvalidateScan == [scan EXCEPT !.sources = NoScan, !.fresh = FALSE, !.stale = TRUE]

\* mark_network_changed: no generation that was read before is the current one.
MarkNetworkChanged ==
    /\ scan' = InvalidateScan
    /\ advert' = Superseded(advert)
    /\ registration' = Superseded(registration)

-----------------------------------------------------------------------------
\* set_rcp_device writes the settings file, then the configuration, and
\* refreshes; nothing orders two requests that do so.
SelectRcp(t, d) ==
    /\ call[t] = IdleCall /\ t # Scanner
    /\ d \in plugged \union {AutoRcp}
    /\ stored' = d
    /\ Goto(t, [pc |-> "selected", device |-> d])
    /\ UNCHANGED <<selected, faults, Radio, Mesh, Advertiser>>

ApplySelection(t) ==
    /\ call[t].pc = "selected"
    /\ selected' = call[t].device
    /\ backoff' = FALSE
    /\ Goto(t, [pc |-> "refresh"])
    /\ UNCHANGED <<stored, faults, plugged, active, exited,
                   available, healthFailures, Mesh, Advertiser>>

RefreshRequested(t) ==
    /\ call[t] = IdleCall /\ t # Scanner
    /\ Goto(t, [pc |-> "refresh"])
    /\ UNCHANGED <<Settings, faults, Radio, Mesh, Advertiser>>

\* refresh reads the configuration before it waits for the lifecycle lock.
RefreshBegins(t) ==
    /\ call[t].pc \in {"idle", "refresh"}
    /\ call[t] = IdleCall => t = Scanner
    /\ Goto(t, [pc |-> "locking", device |-> selected])
    /\ UNCHANGED <<Settings, faults, Radio, Mesh, Advertiser>>

\* The scanner scans after a refresh that leaves the router available.
AfterRefresh(t, isAvailable) ==
    Goto(t, IF t = Scanner /\ isAvailable THEN [pc |-> "scan"] ELSE IdleCall)

\* Mutant: a new selection is left for the next start.
MustStopIgnoringSelection(t) == active \notin plugged \/ exited

\* The router is given up when another RCP is selected, its RCP is gone, or its
\* process has ended.
MustStop(t) ==
    \/ call[t].device # AutoRcp /\ call[t].device # active
    \/ active \notin plugged
    \/ exited

Locked(t) == call[t].pc = "locking" /\ CanWrite

RefreshDeferred(t) ==
    /\ Locked(t) /\ active = None /\ backoff
    /\ AfterRefresh(t, available)
    /\ UNCHANGED <<Settings, faults, Radio, Mesh, Advertiser>>

RefreshIdle(t) ==
    /\ Locked(t) /\ active = None /\ ~backoff
    /\ Goto(t, [call[t] EXCEPT !.pc = "starting"])
    /\ UNCHANGED <<Settings, faults, Radio, Mesh, Advertiser>>

RefreshHealthy(t) ==
    /\ Locked(t) /\ active # None /\ ~MustStop(t)
    /\ healthFailures' = 0 /\ available' = TRUE /\ backoff' = FALSE
    /\ AfterRefresh(t, TRUE)
    /\ UNCHANGED <<Settings, faults, plugged, active, exited, Mesh, Advertiser>>

\* The control endpoints do not answer; after too many failures in a row
\* the router is given up.
RefreshDegraded(t) ==
    /\ Locked(t) /\ active # None /\ ~MustStop(t)
    /\ faults < MaxFaults /\ faults' = faults + 1
    /\ healthFailures + 1 < HealthFailureThreshold
    /\ healthFailures' = healthFailures + 1 /\ available' = TRUE /\ backoff' = FALSE
    /\ AfterRefresh(t, TRUE)
    /\ UNCHANGED <<Settings, plugged, active, exited, Mesh, Advertiser>>

GivesUp(t) ==
    /\ Locked(t) /\ active # None
    /\ \/ MustStop(t) /\ UNCHANGED healthFailures
       \/ /\ ~MustStop(t) /\ healthFailures + 1 >= HealthFailureThreshold
          /\ healthFailures' = HealthFailureThreshold
    /\ backoff' = FALSE
    /\ MarkNetworkChanged

\* Until the next router runs the snapshot says that it is starting.
RefreshStops(t) ==
    /\ GivesUp(t)
    /\ active' = None /\ exited' = FALSE /\ available' = FALSE
    /\ Goto(t, [call[t] EXCEPT !.pc = "starting"])
    /\ UNCHANGED <<Settings, faults, plugged, attached>>

\* The old router cannot be stopped: it is kept, and no other is started.
RefreshStopFails(t) ==
    /\ GivesUp(t)
    /\ faults < MaxFaults /\ faults' = faults + 1
    /\ available' = FALSE
    /\ AfterRefresh(t, FALSE)
    /\ UNCHANGED <<Settings, plugged, active, exited, attached>>

\* discover_rcp finds the only verified device, or the only device if none is.
Candidates == IF plugged \intersect Verified # {} THEN plugged \intersect Verified ELSE plugged
Target(t) == IF call[t].device # AutoRcp THEN {call[t].device}
             ELSE IF Cardinality(Candidates) = 1 THEN Candidates ELSE {}

\* store_unavailable
RefreshWaits(t) ==
    /\ Writing(t) /\ Target(t) = {}
    /\ healthFailures' = 0 /\ backoff' = FALSE /\ available' = FALSE
    /\ AfterRefresh(t, FALSE)
    /\ UNCHANGED <<Settings, faults, plugged, active, exited, Mesh, Advertiser>>

\* schedule_retry: the radio cannot be looked for, or the router does not start,
\* as on a device that is not there.
RefreshStartFails(t) ==
    /\ Writing(t)
    /\ IF Target(t) \subseteq plugged THEN faults < MaxFaults /\ faults' = faults + 1
                                      ELSE UNCHANGED faults
    /\ backoff' = TRUE /\ available' = FALSE
    /\ AfterRefresh(t, FALSE)
    /\ UNCHANGED <<Settings, plugged, active, exited, healthFailures,
                   Mesh, Advertiser>>

\* A new process of the router has a new address on the mesh.
RefreshStarts(t) ==
    /\ Writing(t)
    /\ \E d \in Target(t) \intersect plugged : active' = d
    /\ exited' = FALSE /\ available' = TRUE /\ healthFailures' = 0 /\ backoff' = FALSE
    /\ scan' = InvalidateScan
    /\ advert' = Superseded(Outdated(advert))
    /\ registration' = Superseded(Outdated(registration))
    /\ AfterRefresh(t, TRUE)
    /\ UNCHANGED <<Settings, faults, plugged, attached>>

-----------------------------------------------------------------------------
\* create_network, import_active_dataset: the scan is dropped before and after.
\* The request looked at the snapshot before it waited for the lock, so the
\* router may have become unavailable since.
ChangeNetwork(t) ==
    /\ call[t] = IdleCall /\ t # Scanner
    /\ CanRead /\ active # None
    /\ scan' = InvalidateScan
    /\ Goto(t, [pc |-> "changing"])
    /\ UNCHANGED <<Settings, faults, Radio, attached, Advertiser>>

\* What was seen of the mesh and of the address on it is of the past.
MeshReplaced(isAttached) ==
    /\ attached' = isAttached
    /\ scan' = [scan EXCEPT !.sources = Past(@), !.seen = Past(@)]
    /\ advert' = Outdated(advert)
    /\ registration' = Outdated(registration)

\* The controller forms or joins the new network, under its dataset lock.
ControllerChanges(t) ==
    /\ call[t].pc = "changing"
    /\ MeshReplaced(TRUE)
    /\ Goto(t, [pc |-> "changed"])
    /\ UNCHANGED <<Settings, faults, Radio>>

\* rollback_error, restore_dataset: nothing has changed, the old network is
\* back, or restoring it has failed too.
ControllerFails(t) ==
    /\ call[t].pc = "changing"
    /\ UNCHANGED <<Mesh, Advertiser>> \/ \E b \in BOOLEAN : MeshReplaced(b)
    /\ Goto(t, [pc |-> "changed"])
    /\ UNCHANGED <<Settings, faults, Radio>>

ChangeEnds(t) ==
    /\ call[t].pc = "changed"
    /\ MarkNetworkChanged
    /\ Goto(t, IdleCall)
    /\ UNCHANGED <<Settings, faults, Radio, attached>>

-----------------------------------------------------------------------------
\* refresh_scan: one thread scans, the others wait for its result.
ScanRequested(t) ==
    /\ CanRead
    /\ \/ call[t].pc = "scan"
       \/ call[t] = IdleCall /\ t # Scanner /\ active # None
    /\ Goto(t, IF active = None THEN IdleCall ELSE [pc |-> "asked", answered |-> FALSE])
    /\ UNCHANGED <<Settings, faults, Radio, Mesh, Advertiser>>

\* The scanner does not force a scan while the last one is fresh.
ScanAnswered(t) ==
    /\ call[t].pc = "asked"
    /\ call[t].answered \/ (t = Scanner /\ scan.fresh)
    /\ Goto(t, IdleCall)
    /\ UNCHANGED <<Settings, faults, Radio, Mesh, Advertiser>>

ScanUnanswered(t) == call[t].pc = "asked" /\ ~call[t].answered /\ ~(t = Scanner /\ scan.fresh)

ScanStarts(t) ==
    /\ ScanUnanswered(t) /\ ~scan.scanning
    /\ scan' = [scan EXCEPT !.scanning = TRUE, !.seen = {}, !.stale = FALSE]
    /\ Goto(t, [pc |-> "scanning"])
    /\ UNCHANGED <<Settings, faults, Radio, attached, Advertiser>>

ScanWaits(t) ==
    /\ ScanUnanswered(t) /\ scan.scanning
    /\ Goto(t, [pc |-> "waiting", answered |-> FALSE])
    /\ UNCHANGED <<Settings, faults, Radio, Mesh, Advertiser>>

\* scan_all: its sources are read under the controller's dataset lock, so they
\* are all of one mesh.
ScanObserves(t) ==
    /\ call[t].pc = "scanning"
    /\ scan.seen = {}
    /\ scan' = [scan EXCEPT !.seen = {"present"}]
    /\ UNCHANGED <<Settings, faults, Radio, attached, call, Advertiser>>

\* Mutant: those who wait are not woken.
WokenNobody(t) == [call EXCEPT ![t] = IdleCall]

\* notify_all: whoever asked before this attempt ended has an answer.
Woken(t) ==
    [u \in Callers |-> IF u = t THEN IdleCall
                       ELSE IF call[u].pc \in {"asked", "waiting"}
                            THEN [pc |-> "asked", answered |-> TRUE]
                            ELSE call[u]]

\* merge_scan_sources keeps what the last scan knew of a source that failed.
Merges(seen, sources) == {seen, seen \union sources}

ScanEnds(t) ==
    /\ call[t].pc = "scanning" /\ scan.seen # {}
    /\ IF scan.stale
       THEN scan' = [scan EXCEPT !.scanning = FALSE, !.seen = {}]
       ELSE \E merged \in Merges(scan.seen, scan.sources) :
            scan' = [scan EXCEPT !.sources = merged, !.scanning = FALSE, !.seen = {},
                                 !.fresh = TRUE]
    /\ call' = Woken(t)
    /\ UNCHANGED <<Settings, faults, Radio, attached, Advertiser>>

\* An error, no source that answers, or a panic.
ScanFails(t) ==
    /\ call[t].pc = "scanning"
    /\ scan' = [scan EXCEPT !.scanning = FALSE, !.seen = {}]
    /\ call' = Woken(t)
    /\ UNCHANGED <<Settings, faults, Radio, attached, Advertiser>>

\* A stored scan grows older than the scanner accepts.
ScanAges ==
    /\ scan.fresh
    /\ scan' = [scan EXCEPT !.fresh = FALSE]
    /\ UNCHANGED <<Settings, faults, Radio, attached, call, Advertiser>>

-----------------------------------------------------------------------------
\* run_thread_dns_sd_advertiser
Advertises == UNCHANGED <<Settings, faults, Radio, Mesh, call>>

AdvertWithdraws ==
    /\ advert = IdleAdvert /\ registration # NotRegistered
    /\ ~available \/ (CanRead /\ active # None /\ ~attached)
    /\ registration' = NotRegistered
    /\ Advertises /\ UNCHANGED advert

AdvertAttached ==
    /\ advert = IdleAdvert /\ available
    /\ CanRead /\ active # None /\ attached
    /\ advert' = [pc |-> "attached"]
    /\ Advertises /\ UNCHANGED registration

AdvertReadsGeneration ==
    /\ advert.pc = "attached"
    /\ advert' = IF registration.current THEN IdleAdvert ELSE [pc |-> "address", current |-> TRUE]
    /\ Advertises /\ UNCHANGED registration

AdvertReadsAddress ==
    /\ advert.pc = "address"
    /\ CanRead /\ active # None
    /\ advert' = [pc |-> "register", current |-> advert.current, present |-> TRUE]
    /\ Advertises /\ UNCHANGED registration

\* There is no address, or Zenoh does not listen on it: what was registered is
\* left as it is.
AdvertGivesUp ==
    /\ advert.pc \in {"address", "register"}
    /\ advert' = IdleAdvert
    /\ Advertises /\ UNCHANGED registration

\* Mutant: the registration counts for the generation of its own time.
AdvertRegistersLate ==
    /\ advert.pc = "register"
    /\ registration' = [current |-> TRUE, present |-> advert.present]
    /\ advert' = IdleAdvert
    /\ Advertises

\* The old registration is withdrawn first; the new one may fail.
AdvertRegisters ==
    /\ advert.pc = "register"
    /\ registration' \in {NotRegistered, [current |-> advert.current, present |-> advert.present]}
    /\ advert' = IdleAdvert
    /\ Advertises

-----------------------------------------------------------------------------
\* The environment: radios come and go, the agent ends, time passes.
Unplug(d) ==
    /\ d \in plugged /\ faults < MaxFaults /\ faults' = faults + 1
    /\ plugged' = plugged \ {d}
    /\ UNCHANGED <<Settings, active, exited, available, healthFailures,
                   backoff, Mesh, call, Advertiser>>

Plug(d) ==
    /\ d \notin plugged
    /\ plugged' = plugged \union {d}
    /\ UNCHANGED <<Settings, faults, active, exited, available,
                   healthFailures, backoff, Mesh, call, Advertiser>>

AgentExits ==
    /\ active # None /\ ~exited /\ faults < MaxFaults /\ faults' = faults + 1
    /\ exited' = TRUE
    /\ UNCHANGED <<Settings, plugged, active, available, healthFailures,
                   backoff, Mesh, call, Advertiser>>

BackoffElapses ==
    /\ backoff
    /\ backoff' = FALSE
    /\ UNCHANGED <<Settings, faults, plugged, active, exited, available,
                   healthFailures, Mesh, call, Advertiser>>

-----------------------------------------------------------------------------
ThreadInit ==
    /\ stored = AutoRcp /\ selected = AutoRcp
    /\ plugged \in (SUBSET Devices) \ {{}}
    /\ active = None /\ exited = FALSE
    /\ available = FALSE /\ healthFailures = 0 /\ backoff = FALSE
    /\ attached \in BOOLEAN
    /\ scan = [sources |-> NoScan, scanning |-> FALSE, seen |-> {}, stale |-> FALSE,
               fresh |-> FALSE]
    /\ call = [t \in Callers |-> IdleCall]
    /\ advert = IdleAdvert /\ registration = NotRegistered
    /\ faults = 0

\* What a thread does next without a new request.
CallStep(t) ==
    \/ ApplySelection(t) \/ RefreshBegins(t) \/ RefreshDeferred(t) \/ RefreshIdle(t)
    \/ RefreshHealthy(t) \/ RefreshDegraded(t) \/ RefreshStops(t) \/ RefreshStopFails(t)
    \/ RefreshWaits(t) \/ RefreshStartFails(t) \/ RefreshStarts(t)
    \/ ControllerChanges(t) \/ ControllerFails(t) \/ ChangeEnds(t)
    \/ (call[t].pc = "scan" /\ ScanRequested(t))
    \/ ScanAnswered(t) \/ ScanStarts(t) \/ ScanWaits(t) \/ ScanObserves(t)
    \/ ScanEnds(t) \/ ScanFails(t)

NewRequest(t) ==
    \/ \E d \in Devices \union {AutoRcp} : SelectRcp(t, d)
    \/ RefreshRequested(t) \/ ChangeNetwork(t)
    \/ (call[t] = IdleCall /\ ScanRequested(t))

AdvertStep ==
    \/ AdvertWithdraws \/ AdvertAttached \/ AdvertReadsGeneration \/ AdvertReadsAddress
    \/ AdvertGivesUp \/ AdvertRegisters

ThreadNext ==
    \/ \E t \in Callers : CallStep(t)
    \/ \E t \in Requests : NewRequest(t)
    \/ AdvertStep
    \/ ScanAges \/ AgentExits \/ BackoffElapses
    \/ \E d \in Devices : Unplug(d) \/ Plug(d)

\* Every thread runs on, a scan ends, and time passes.
ThreadSpec ==
    /\ ThreadInit /\ [][ThreadNext]_threadVars
    /\ \A t \in Callers : WF_threadVars(CallStep(t)) /\ WF_threadVars(ScanEnds(t) \/ ScanFails(t))
    /\ WF_threadVars(BackoffElapses)

-----------------------------------------------------------------------------
\* No thread is between a change of the mesh and the note that it changed.
Settled == \A t \in Callers : call[t].pc \notin {"changing", "changed", "starting"}

\* A stored scan never shows another mesh than the present one, also when the
\* network is replaced while it is scanned or while its parts are merged with
\* an older scan's (runtime.rs refresh_scan_with, invalidate_scan).
ScanIsOfTheNetwork == Settled => scan.sources \subseteq {"present"}

\* A registration that the advertiser takes for current carries the present
\* mesh address, whatever changed between the reads it is made of
\* (workers.rs run_thread_dns_sd_advertiser).
AdvertisedAddressCurrent ==
    Settled /\ active # None /\ registration.current => registration.present

\* The RCP selected last is the one the router ends up on, also when a refresh
\* that read the selection before has yet to run (set_rcp_device, refresh).
SelectionTakesEffect ==
    \A d \in Devices : <>[](selected = d /\ d \in plugged) => <>[](active = d)

\* A caller that waits for another's scan gets an answer, however that scan
\* ends (scan_changed).
ScanRequestsEnd == \A t \in Callers : call[t].pc \in {"asked", "waiting"} ~> call[t].pc = "idle"

=============================================================================
