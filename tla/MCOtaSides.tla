---------------------------- MODULE MCOtaSides -----------------------------
(***************************************************************************)
(* The backend alone, against devices that report anything, a native       *)
(* device alone, against a backend that commands any attempt, and the      *)
(* store of firmware images: one instance of each for TLC, the side chosen *)
(* at start.                                                               *)
(***************************************************************************)
EXTENDS OtaServer, NativeOta, FirmwareStore

VARIABLE side

MCValues == {<<"v", 1>>}
MCImageOf == [a \in Attempts |-> IF a = 2 THEN 12 ELSE 11]

SidesInit ==
    /\ side \in {"backend", "device", "store"}
    /\ ServerInit /\ DeviceInit /\ StoreInit
    /\ side # "store" => adapter = "turso" /\ backend = "local"

SidesNext ==
    \/ side = "backend" /\ ServerNext /\ UNCHANGED <<side, deviceVars, storeVars>>
    \/ side = "device" /\ DeviceNext /\ UNCHANGED <<side, serverVars, storeVars>>
    \/ side = "store" /\ StoreNext /\ UNCHANGED <<side, serverVars, deviceVars>>

\* DeviceFairness, of the side that has a device.
SidesFairness ==
    /\ WF_deviceVars(side = "device" /\ Start)
    /\ WF_deviceVars(side = "device" /\ ClientStep)
    /\ WF_deviceVars(side = "device" /\ WatchdogStep)

SidesSpec == SidesInit /\ [][SidesNext]_<<side, serverVars, deviceVars, storeVars>> /\ SidesFairness

-----------------------------------------------------------------------------
\* TrialEnds and ComesBack of NativeOta, where there is a device: a device that
\* installs an update reaches a verdict on it, and a device that is down comes
\* back (native_ota.rs watchdog, provision.sh supervisor).
DeviceRecovers == side = "device" => TrialEnds /\ ComesBack

=============================================================================
