---------------------------- MODULE MCRuleAlerts ----------------------------
(***************************************************************************)
(* One instance of RuleAlerts and one of Geofence, the kind of the rules   *)
(* chosen at start.                                                        *)
(***************************************************************************)
EXTENDS Geofence, TLC

CONSTANTS
    h1, h2,
    ZoneTime    \* bound: the clock of the geofence instance stops here

VARIABLE kind

HandlerSymmetry == Permutations(Handlers)

AlertsInit ==
    /\ kind \in {"telemetry", "geofence"}
    /\ Init /\ ZoneInit
    /\ kind = "telemetry" => target = [r \in Rules |-> "inside"]

AlertsNext ==
    \/ kind = "telemetry" /\ Next /\ UNCHANGED <<kind, zoneVars>>
    \/ kind = "geofence" /\ ZoneNext /\ clock' <= ZoneTime /\ UNCHANGED kind

AlertsSpec == AlertsInit /\ [][AlertsNext]_<<vars, zoneVars, kind>>

=============================================================================
