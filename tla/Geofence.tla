------------------------------ MODULE Geofence ------------------------------
(***************************************************************************)
(* Geofence rules: the same decision, outbox and alerts as RuleAlerts, on  *)
(* a verdict that depends on the past.  The first position inside the zone *)
(* leaves an entry row, the first one outside removes it, and the row says *)
(* how long the device has been inside and whether it can leave            *)
(* (rule-engine/evaluate.rs, backend-turso/rule_runtime.rs).               *)
(*                                                                         *)
(* Positions commit in any order, rules are disabled and enabled while a   *)
(* device moves, and a decision suppressed by the cooldown moves the entry *)
(* all the same.  Coordinates and the shape of the zone are left out: a    *)
(* position is inside, outside, or missing (no usable location, or a zone  *)
(* that is not in the snapshot).                                           *)
(***************************************************************************)
EXTENDS RuleAlerts

CONSTANT Dwell      \* dwell_seconds of every rule that watches for entries

ASSUME GeofenceAssumption == Dwell \in Nat

VARIABLES
    target,     \* zone_state of each rule: inside (entering), outside (leaving)
    entries,    \* table rule_zone_entries: rule -> entered_at
    last,       \* history: the last position each rule evaluated
    left        \* history: the latest time of an evaluated position outside

zoneVars == <<target, entries, last, left>>

Positions == [Rules -> {"inside", "outside", "missing"}]

ZoneInit ==
    /\ target \in [Rules -> {"inside", "outside"}]
    /\ entries = [r \in Rules |-> NullTime]
    /\ last = [r \in Rules |-> "missing"]
    /\ left = [r \in Rules |-> NullTime]

-----------------------------------------------------------------------------
WasInside(r) == entries[r] # NullTime

InsideLongEnough(r, at) ==
    \/ Dwell = 0
    \/ WasInside(r) /\ at - entries[r] >= Dwell

\* A rule that watches for exits is met by a device that was inside, or whose
\* alert is open.
ConditionsMet(r, at) ==
    IF target[r] = "inside" THEN InsideLongEnough(r, at)
    ELSE WasInside(r) \/ OpenAlerts(r) # {}

\* What RuleAlerts calls an observation.  A device in the state the rule is
\* about, but not long enough, is no reason to resolve an alert.
Verdicts(pos, at) ==
    [r \in Rules |-> IF pos[r] = "missing" THEN "missing"
                     ELSE IF pos[r] # target[r] THEN "unmet"
                     ELSE IF ConditionsMet(r, at) THEN "met"
                     ELSE "missing"]

\* Mutant: a rule in its cooldown is skipped before its entry is moved.
MovedUnlessQuiet(r, p, at) ==
    IF InCooldown(r, at) THEN entries[r]
    ELSE IF p = "inside" /\ ~WasInside(r) THEN at
    ELSE IF p = "outside" THEN NullTime
    ELSE entries[r]

\* UpdateZoneEntry: the entry after position p.
Moved(r, p, at) ==
    IF p = "inside" /\ ~WasInside(r) THEN at
    ELSE IF p = "outside" THEN NullTime
    ELSE entries[r]

\* A position is prepared with the snapshot and the time of its arrival.
PreparePosition(h, pos) ==
    /\ ingress[h] = NoObservation
    /\ ingress' = [ingress EXCEPT ![h] = [at |-> clock, obs |-> pos, rules |-> snapshot]]
    /\ UNCHANGED <<clock, enabled, snapshot, alerts, receipts, cooldowns, actions, quiet>>
    /\ UNCHANGED zoneVars

\* The transaction that stores it evaluates the rules that are still live and
\* moves their entries.
RecordPosition(h) ==
    LET in == ingress[h]
        live == Live(in.rules)
        evaluated(p) == {r \in live : in.obs[r] = p}
    IN  /\ in # NoObservation
        /\ Evaluate(in.rules, Verdicts(in.obs, in.at), in.at)
        /\ entries' = [r \in Rules |-> IF r \in live THEN Moved(r, in.obs[r], in.at)
                                       ELSE entries[r]]
        /\ last' = [r \in Rules |-> IF r \in live \ evaluated("missing") THEN in.obs[r]
                                    ELSE last[r]]
        /\ left' = [r \in Rules |-> IF r \in evaluated("outside") THEN Later(left[r], in.at)
                                    ELSE left[r]]
        /\ ingress' = [ingress EXCEPT ![h] = NoObservation]
        /\ UNCHANGED <<clock, enabled, snapshot, alerts, receipts, target>>

\* Alerts open and close by delivery alone; what operators and retention add
\* to that is RuleAlerts' subject and moves no entry.
Surroundings ==
    \/ \E i \in Ids : DeliverCreate(i) \/ DeliverResolve(i)
    \/ \E r \in Rules : Toggle(r)
    \/ \E h \in Handlers : Abort(h)
    \/ Refresh \/ PruneCooldowns \/ Tick

ZoneNext ==
    \/ \E h \in Handlers, pos \in Positions : PreparePosition(h, pos)
    \/ \E h \in Handlers : RecordPosition(h)
    \/ Surroundings /\ UNCHANGED zoneVars

ZoneSpec == Init /\ ZoneInit /\ [][ZoneNext]_<<vars, zoneVars>>

-----------------------------------------------------------------------------
\* A rule about entering fires only when the device was inside all along: no
\* position outside was evaluated in the last Dwell ticks, except one that an
\* older position overtook in the meantime.  A rule about leaving fires only
\* after a position inside that it had not answered yet, so once per visit
\* (evaluate_geofence_for_tenant_at, rule_zone_entries).
ZoneAlertsDeserved ==
    \A h \in Handlers, r \in Rules :
        LET in == ingress[h]
        IN  /\ in # NoObservation
            /\ r \in Firing(in.rules, Verdicts(in.obs, in.at), in.at)
            => IF target[r] = "inside"
               THEN left[r] = NullTime \/ in.at - left[r] >= Dwell - MaxLag
               ELSE last[r] = "inside"

=============================================================================
