----------------------------- MODULE OtaSystem -----------------------------
(***************************************************************************)
(* A backend and a native device joined by an unreliable network: deltas   *)
(* carry OTA commands down (lib.rs, the delta subscriber), shadow reports  *)
(* carry OTA status up (handlers/shadow.rs).  A message arrives late, out  *)
(* of order, more than once, or never.                                     *)
(***************************************************************************)
EXTENDS OtaServer, NativeOta

ASSUME OtaSystemAssumption == Attempts = DeploymentIds

systemVars == <<serverVars, deviceVars>>

\* Firmware ids are the images themselves.
SystemInit == ServerInit /\ DeviceInit

BackendStep ==
    /\ \/ nextId \in Attempts /\ TriggerOta(ImageOf[nextId])
       \/ Reset
       \/ ShadowGet
       \/ \E u \in handlers : ReportOta(u) \/ ReportOtaLost(u)
    /\ UNCHANGED deviceVars

\* Mutant: the report says nothing of the attempt but its firmware.
ReportOfLatest(r) ==
    [patch |-> EmptyObject,
     ota |-> [dep |-> nextId - 1, firmware |-> ImageOf[nextId - 1], status |-> r.status]]

\* build_status_json: a status names its attempt and its firmware.
ReportOf(r) ==
    [patch |-> EmptyObject,
     ota |-> [dep |-> r.attempt, firmware |-> ImageOf[r.attempt], status |-> r.status]]

ReportArrives ==
    /\ \E r \in reports : ReportShadow(ReportOf(r))
    /\ UNCHANGED deviceVars

CommandArrives ==
    /\ \E m \in deltas : "ota" \in DOMAIN m /\ Command(m["ota"][2])
    /\ UNCHANGED serverVars

SystemNext ==
    \/ BackendStep
    \/ ReportArrives
    \/ CommandArrives
    \/ DeviceStep /\ UNCHANGED serverVars

SystemSpec == SystemInit /\ [][SystemNext]_systemVars

-----------------------------------------------------------------------------
\* The backend records success for an attempt only after the device ran that
\* attempt's image through its health check, however often the attempt was
\* superseded, rolled back, repeated or misreported on the way.
OutcomeTruthful ==
    \A d \in DeploymentIds : deployments[d].status = "success" =>
        d \in confirmed /\ ImageOf[d] \in healthy

=============================================================================
