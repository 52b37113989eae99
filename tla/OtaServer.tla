----------------------------- MODULE OtaServer -----------------------------
(***************************************************************************)
(* Firmware deployments to one device, as the backend keeps them: the      *)
(* table ota_deployments, the device's shadow, and the handlers that       *)
(* change them (backend-turso/firmware.rs and shadows.rs, their PostgreSQL *)
(* twins, application/firmware.rs, application/shadows.rs and the zenoh    *)
(* shadow handlers).  Every repository call is one transaction; a shadow   *)
(* report is two, with anything in between.                                *)
(***************************************************************************)
EXTENDS Shadow, FiniteSets

CONSTANTS
    Firmwares,      \* firmware_updates ids
    Deployable,     \* those that match the device's contract and validate
    MaxDeployments, \* bound: deployments triggered
    Keys,           \* shadow keys other than "ota"
    Values,         \* values of those keys
    VersionMax,     \* i32::MAX of the shadow version (checked_add)
    MaxHandlers     \* bound: reports between their two transactions

ASSUME OtaServerAssumption ==
    /\ Deployable \subseteq Firmwares
    /\ MaxDeployments \in Nat
    /\ "ota" \notin Keys
    /\ VersionMax \in Nat \ {0}
    /\ MaxHandlers \in Nat

VARIABLES
    cascades,       \* the database, chosen once: TRUE if deleting firmware
                    \* deletes its deployments (PostgreSQL), FALSE if it is
                    \* refused (Turso)
    firmware,       \* rows of firmware_updates
    deployments,    \* rows of ota_deployments, by id
    nextId,         \* the id sequence
    shadow,         \* the row of device_shadows
    handlers,       \* OTA parts of reports whose shadow update has committed
    deltas          \* delta objects published so far; the device may receive
                    \* each of them late, repeatedly or never

serverVars == <<cascades, firmware, deployments, nextId, shadow, handlers, deltas>>

-----------------------------------------------------------------------------
DeploymentIds == 1..MaxDeployments

Progress == <<"pending", "downloading", "verifying", "installing", "rebooting">>

Terminal == {"success", "failed"}

Live == {Progress[n] : n \in 1..5}

Rank(status) == IF status \in Terminal THEN 6 ELSE CHOOSE n \in 1..5 : Progress[n] = status

NoOta == [dep |-> 0, firmware |-> 0, status |-> "none"]

\* ota_transition_allowed
TransitionAllowed(previous, next) ==
    /\ previous \notin Terminal
    /\ next \in Live \union Terminal
    /\ Rank(next) >= Rank(previous)

Exists(d) == d \in DeploymentIds /\ deployments[d].status # "absent"

IsLive(d) == Exists(d) /\ deployments[d].status \in Live

\* publish_delta_if_nonempty
Publish(delta) == deltas' = IF delta = EmptyObject THEN deltas ELSE deltas \union {delta}

-----------------------------------------------------------------------------
ServerInit ==
    /\ cascades \in BOOLEAN
    /\ firmware = Firmwares
    /\ deployments = [d \in DeploymentIds |-> [firmware |-> 0, status |-> "absent"]]
    /\ nextId = 1
    /\ shadow = [desired |-> EmptyObject, reported |-> EmptyObject,
                 delta |-> EmptyObject, version |-> 1]
    /\ handlers = {}
    /\ deltas = {}

\* Mutant: the attempt that is still running is not superseded.
NotSuperseded(d) == FALSE

\* UPDATE ... SET status = 'failed' WHERE status NOT IN ('success', 'failed')
Superseded(d) == IsLive(d)

\* trigger_ota: supersede, insert, command through the shadow, publish.
TriggerOta(f) ==
    /\ nextId <= MaxDeployments
    /\ f \in firmware \intersect Deployable
    /\ shadow.version < VersionMax
    /\ deployments' = [d \in DeploymentIds |->
            IF d = nextId THEN [firmware |-> f, status |-> "pending"]
            ELSE IF Superseded(d) THEN [firmware |-> deployments[d].firmware, status |-> "failed"]
            ELSE deployments[d]]
    /\ shadow' = PatchDesired(shadow, [k \in {"ota"} |-> <<"command", nextId>>])
    /\ nextId' = nextId + 1
    /\ Publish(shadow'.delta)
    /\ UNCHANGED <<cascades, firmware, handlers>>

\* Mutant: the key is not reserved.
UpdateDesiredUnreserved(patch) ==
    /\ shadow.version < VersionMax
    /\ shadow' = PatchDesired(shadow, patch)
    /\ Publish(shadow'.delta)
    /\ UNCHANGED <<cascades, firmware, deployments, nextId, handlers>>

\* ShadowApplication::update_desired; the "ota" key is refused.
UpdateDesired(patch) ==
    /\ "ota" \notin DOMAIN patch
    /\ shadow.version < VersionMax
    /\ shadow' = PatchDesired(shadow, patch)
    /\ Publish(shadow'.delta)
    /\ UNCHANGED <<cascades, firmware, deployments, nextId, handlers>>

\* ShadowApplication::update_reported, an operator writing reported state; it
\* may name "ota" and never touches deployments.
UpdateReported(patch) ==
    /\ shadow.version < VersionMax
    /\ shadow' = PatchReported(shadow, patch)
    /\ UNCHANGED <<cascades, firmware, deployments, nextId, handlers, deltas>>

\* ShadowApplication::reset
Reset ==
    /\ shadow.version < VersionMax
    /\ shadow' = ResetShadow(shadow)
    /\ UNCHANGED <<cascades, firmware, deployments, nextId, handlers, deltas>>

\* handle_shadow_get
ShadowGet ==
    /\ shadow.delta # EmptyObject
    /\ Publish(shadow.delta)
    /\ UNCHANGED <<cascades, firmware, deployments, nextId, shadow, handlers>>

\* What a report carries into the reported state.
ReportPatch(r) ==
    IF r.ota = NoOta THEN r.patch
    ELSE [k \in (DOMAIN r.patch) \union {"ota"} |->
            IF k = "ota" THEN <<r.ota.status, r.ota.dep>> ELSE r.patch[k]]

\* DeviceReportApplication::report, first transaction.
ReportShadow(r) ==
    /\ shadow.version < VersionMax
    /\ Cardinality(handlers) < MaxHandlers
    /\ shadow' = PatchReported(shadow, ReportPatch(r))
    /\ handlers' = IF r.ota = NoOta THEN handlers ELSE handlers \union {r.ota}
    /\ UNCHANGED <<cascades, firmware, deployments, nextId, deltas>>

\* The checks of apply_ota_status.
Accepted(u) ==
    /\ Exists(u.dep)
    /\ u.firmware = deployments[u.dep].firmware
    /\ TransitionAllowed(deployments[u.dep].status, u.status)

\* Second transaction: apply_ota_status with the OTA part of this report.
ReportOta(u) ==
    LET clears == u.status \in Terminal /\ CommandsDeployment(shadow, u.dep)
    IN  /\ u \in handlers
        /\ handlers' = handlers \ {u}
        /\ Accepted(u) /\ clears => shadow.version < VersionMax
        /\ IF Accepted(u)
           THEN /\ deployments' = [deployments EXCEPT ![u.dep].status = u.status]
                /\ shadow' = IF u.status \in Terminal THEN ClearOta(shadow, u.dep) ELSE shadow
           ELSE UNCHANGED <<deployments, shadow>>
        /\ UNCHANGED <<cascades, firmware, nextId, deltas>>

\* The second transaction failed, or the backend stopped before it.
ReportOtaLost(u) ==
    /\ u \in handlers
    /\ handlers' = handlers \ {u}
    /\ UNCHANGED <<cascades, firmware, deployments, nextId, shadow, deltas>>

\* FirmwareRepository::delete
DeleteFirmware(f) ==
    LET ofFirmware == {d \in DeploymentIds : Exists(d) /\ deployments[d].firmware = f}
    IN  /\ f \in firmware
        /\ cascades \/ ofFirmware = {}
        /\ firmware' = firmware \ {f}
        /\ deployments' = [d \in DeploymentIds |->
                IF d \in ofFirmware THEN [firmware |-> 0, status |-> "absent"]
                ELSE deployments[d]]
        /\ UNCHANGED <<cascades, nextId, shadow, handlers, deltas>>

-----------------------------------------------------------------------------
(* The backend by itself: a device may report anything at any time. *)

Patches == UNION {[S -> Values \union {Null}] : S \in SUBSET Keys}

ReportedStatuses == Live \union Terminal \union {"unknown"}

OtaReports ==
    {NoOta} \union [dep : DeploymentIds, firmware : Firmwares, status : ReportedStatuses]

OperatorPatches ==
    Patches \union
        {[k \in {"ota"} |-> v] : v \in {Null} \union {<<"command", d>> : d \in DeploymentIds}}

ServerNext ==
    \/ \E f \in Firmwares : TriggerOta(f) \/ DeleteFirmware(f)
    \/ \E patch \in OperatorPatches : UpdateDesired(patch) \/ UpdateReported(patch)
    \/ Reset
    \/ ShadowGet
    \/ \E patch \in Patches, u \in OtaReports : ReportShadow([patch |-> patch, ota |-> u])
    \/ \E u \in handlers : ReportOta(u) \/ ReportOtaLost(u)

ServerSpec == ServerInit /\ [][ServerNext]_serverVars

-----------------------------------------------------------------------------
(* Properties. *)

\* At most one deployment is under way, and it is the last one triggered.
OnlyNewestLive == \A d \in DeploymentIds : IsLive(d) => d = nextId - 1

\* The command in the shadow is that of the deployment under way, or of one
\* whose row was deleted with its firmware; it never outlives its deployment.
CommandIsLive ==
    \A d \in DeploymentIds :
        CommandsDeployment(shadow, d) =>
            /\ Exists(d) => IsLive(d)
            /\ ~cascades => Exists(d)
            /\ d = nextId - 1

\* A command leaves the shadow only by an operator's reset, by a newer command,
\* or in the very step that ends its deployment.
CommandKeptWhileLive ==
    [][\A d \in DeploymentIds :
        CommandsDeployment(shadow, d) /\ ~CommandsDeployment(shadow', d) =>
            \/ shadow' = ResetShadow(shadow)
            \/ CommandsDeployment(shadow', d + 1)
            \/ IsLive(d) /\ deployments'[d].status \in Terminal]_serverVars

=============================================================================
