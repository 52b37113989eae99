-------------------------- MODULE RuleAlertsProofs --------------------------
(***************************************************************************)
(* Alerts, quiet periods, geofences and device status for any number of    *)
(* rules, actions and ingestion tasks, and for any cooldown, retention,    *)
(* lag, dwell and timeout.                                                 *)
(*                                                                         *)
(* OneOpenAlert is inductive but for the step from a set without two       *)
(* members to its cardinality.  QuietPeriodKept needs what became of a     *)
(* quiet period that retention forgot: it is older than the retention of   *)
(* the cooldown rows.  ZoneAlertsDeserved needs that an entry is at most   *)
(* the longest wait of an observation older than the last position         *)
(* outside.  StatusEvaluated is inductive; OnlySilentGoOffline needs that  *)
(* last_seen is turned back by no more than that wait.                     *)
(***************************************************************************)
EXTENDS Geofence, DeviceStatus, FiniteSetTheorems, TLAPS

-----------------------------------------------------------------------------
(* One open alert. *)

AlertsTyped ==
    /\ alerts \in [Ids -> Alert]
    /\ receipts = [i \in Ids |-> receipts[i]]

\* No two open alerts belong to one rule.
AtMostOneOpen ==
    \A a, b \in Ids : /\ RuleOf(a) = RuleOf(b)
                      /\ alerts[a].status \in OpenStatuses
                      /\ alerts[b].status \in OpenStatuses
                      => a = b

AlertInv == AlertsTyped /\ AtMostOneOpen

\* There are no alerts at first.
LEMMA AlertInvInit == Init => AlertInv
BY DEF Init, AlertInv, AlertsTyped, AtMostOneOpen, NoAlert, Alert, AlertStatuses, OpenStatuses,
       Time, NullTime

\* Of two ids of one rule, one has the smaller number.
LEMMA IdsOrdered ==
    ASSUME NEW a \in Ids, NEW b \in Ids, RuleOf(a) = RuleOf(b), a # b
    PROVE  a[2] < b[2] \/ b[2] < a[2]
BY RuleAlertsAssumption DEF Ids, RuleOf

\* Alerts that are changed to a status that is not open, or kept, cannot
\* become two.
LEMMA ClosingKeepsAlertInv ==
    ASSUME AlertInv, alerts' \in [Ids -> Alert], receipts' = receipts,
           \A a \in Ids : alerts'[a].status \in OpenStatuses => alerts[a].status \in OpenStatuses
    PROVE  AlertInv'
BY DEF AlertInv, AlertsTyped, AtMostOneOpen

\* A delivered creation opens an alert only where none is open.
LEMMA DeliverCreateKeepsAlertInv ==
    ASSUME AlertInv, NEW i \in Ids, DeliverCreate(i) PROVE AlertInv'
<1> USE DEF AlertInv, AlertsTyped
<1>1. CASE UNCHANGED alerts
  BY <1>1 DEF DeliverCreate, AtMostOneOpen
<1>2. CASE /\ AlertFor(i) = {}
           /\ alerts' = [alerts EXCEPT ![i] = [status |-> "active", resolved_at |-> NullTime]]
           /\ receipts' = [receipts EXCEPT ![i] = i]
  <2>1. alerts' \in [Ids -> Alert]
    BY <1>2 DEF Alert, AlertStatuses, Time
  <2>2. \A b \in Ids : RuleOf(b) = RuleOf(i) => alerts[b].status \notin OpenStatuses
    BY <1>2 DEF AlertFor, OpenAlerts
  <2>3. AtMostOneOpen'
    BY <1>2, <2>2 DEF AtMostOneOpen
  <2>4. QED
    BY <1>2, <2>1, <2>3
<1>3. QED
  BY <1>1, <1>2 DEF DeliverCreate

\* What resolution leaves of the alerts.
LEMMA ResolvedKeepsAlertInv ==
    ASSUME AlertInv, NEW S, Resolved(S), clock \in Nat, receipts' = receipts PROVE AlertInv'
<1>1. \A a \in Ids : \/ alerts'[a] = alerts[a]
                     \/ alerts'[a] = [status |-> "resolved", resolved_at |-> clock]
  BY DEF Resolved
<1>2. alerts' \in [Ids -> Alert]
  BY <1>1 DEF Resolved, AlertInv, AlertsTyped, Alert, AlertStatuses, Time
<1>3. QED
  BY <1>1, <1>2, ClosingKeepsAlertInv DEF OpenStatuses

\* Reactivation takes the free slots, one alert for each.
LEMMA ReactivateKeepsAlertInv ==
    ASSUME AlertInv, receipts' = receipts, NEW S \in SUBSET Ids,
           alerts' = [a \in Ids |-> IF a \in Changed(S, "reactivate")
                                    THEN [status |-> "active", resolved_at |-> NullTime]
                                    ELSE alerts[a]]
    PROVE  AlertInv'
<1> DEFINE C == Changed(S, "reactivate")
<1>1. alerts' \in [Ids -> Alert]
  BY DEF AlertInv, AlertsTyped, Alert, AlertStatuses, Time
<1>2. ASSUME NEW a \in Ids, NEW b \in Ids, RuleOf(a) = RuleOf(b), a # b, a \in C,
             alerts'[b].status \in OpenStatuses
      PROVE  FALSE
  <2>1. SlotFree(a) /\ a \in S /\ Accepts("reactivate", alerts[a].status)
    BY <1>2 DEF Changed
  <2>2. b \in C
    BY <1>2, <2>1 DEF SlotFree, OpenAlerts
  <2>3. SlotFree(b) /\ b \in S /\ Accepts("reactivate", alerts[b].status)
    BY <2>2 DEF Changed
  <2>4. a[2] < b[2] \/ b[2] < a[2]
    BY <1>2, IdsOrdered
  <2>5. QED
    BY <1>2, <2>1, <2>2, <2>3, <2>4 DEF Changed
<1>3. AtMostOneOpen'
  <2> SUFFICES ASSUME NEW a \in Ids, NEW b \in Ids, RuleOf(a) = RuleOf(b), a # b,
                      alerts'[a].status \in OpenStatuses, alerts'[b].status \in OpenStatuses
               PROVE  FALSE
    BY DEF AtMostOneOpen
  <2>1. a \notin C /\ b \notin C
    BY <1>2
  <2>2. QED
    BY <2>1 DEF AlertInv, AtMostOneOpen
<1>4. QED
  BY <1>1, <1>3 DEF AlertInv, AlertsTyped

\* An operator's bulk transition opens at most one alert of a rule.
LEMMA TransitionKeepsAlertInv ==
    ASSUME AlertInv, clock \in Nat, NEW S \in SUBSET Ids,
           NEW tr \in {"acknowledge", "resolve", "reactivate"}, Transition(S, tr)
    PROVE  AlertInv'
<1>1. CASE tr = "acknowledge"
  <2>1. alerts' = [a \in Ids |-> IF a \in Changed(S, tr)
                                 THEN [alerts[a] EXCEPT !.status = "acknowledged"]
                                 ELSE alerts[a]]
    BY <1>1 DEF Transition
  <2>2. \A a \in Changed(S, tr) : alerts[a].status = "active"
    BY <1>1 DEF Changed, Accepts
  <2>3. alerts' \in [Ids -> Alert]
    BY <2>1 DEF AlertInv, AlertsTyped, Alert, AlertStatuses
  <2>4. QED
    BY <2>1, <2>2, <2>3, ClosingKeepsAlertInv DEF Transition, OpenStatuses
<1>2. CASE tr = "resolve"
  BY <1>2, ResolvedKeepsAlertInv DEF Transition
<1>3. CASE tr = "reactivate"
  BY <1>3, ReactivateKeepsAlertInv DEF Transition
<1>4. QED
  BY <1>1, <1>2, <1>3

\* Steps that do not touch the alerts.
LEMMA OthersKeepAlertInv ==
    ASSUME AlertInv, alerts' = alerts, receipts' = receipts PROVE AlertInv'
BY DEF AlertInv, AlertsTyped, AtMostOneOpen

\* Deliveries, operators and retention keep the alerts consistent.
LEMMA AlertNextKeepsAlertInv == ASSUME AlertInv, clock \in Nat, AlertNext PROVE AlertInv'
<1>1. CASE \E i \in Ids : DeliverCreate(i)
  BY <1>1, DeliverCreateKeepsAlertInv
<1>2. CASE \E i \in Ids : DeliverResolve(i)
  BY <1>2, ResolvedKeepsAlertInv, OthersKeepAlertInv DEF DeliverResolve
<1>3. CASE \E S \in SUBSET Ids, tr \in {"acknowledge", "resolve", "reactivate"} : Transition(S, tr)
  BY <1>3, TransitionKeepsAlertInv
<1>4. CASE PruneAlerts
  <2>1. \A a \in Ids : alerts'[a] = alerts[a] \/ alerts'[a] = NoAlert
    BY <1>4 DEF PruneAlerts
  <2>2. alerts' \in [Ids -> Alert]
    BY <1>4, <2>1 DEF PruneAlerts, AlertInv, AlertsTyped, NoAlert, Alert, AlertStatuses, Time
  <2>3. QED
    BY <1>4, <2>1, <2>2, ClosingKeepsAlertInv DEF PruneAlerts, NoAlert, OpenStatuses
<1>5. CASE \/ \E i \in Ids : ReplayAction(i)
           \/ \E r \in Rules : Toggle(r)
           \/ Refresh \/ PruneCooldowns
  BY <1>5, OthersKeepAlertInv DEF ReplayAction, Toggle, Refresh, PruneCooldowns
<1>6. QED
  BY <1>1, <1>2, <1>3, <1>4, <1>5 DEF AlertNext

\* A set without two members has at most one.
LEMMA AtMostOneIsCardinality ==
    ASSUME NEW S, \A a, b \in S : a = b PROVE Cardinality(S) <= 1
<1>1. CASE S = {}
  BY <1>1, FS_EmptySet
<1>2. CASE S # {}
  <2>1. PICK a \in S : TRUE
    BY <1>2
  <2>2. S = {a}
    BY <2>1
  <2>3. QED
    BY <2>2, FS_Singleton
<1>3. QED
  BY <1>1, <1>2

\* The invariant is stronger than the property.
LEMMA AlertInvImplies == AlertInv => OneOpenAlert
BY AtMostOneIsCardinality DEF AlertInv, AtMostOneOpen, OneOpenAlert, OpenAlerts

-----------------------------------------------------------------------------
(* Time. *)

\* An observation was prepared at most MaxLag ticks ago.
TimeInv ==
    /\ clock \in Nat
    /\ ingress = [h \in Handlers |-> ingress[h]]
    /\ \A h \in Handlers : ingress[h] # NoObservation =>
         /\ ingress[h].at \in Nat
         /\ ingress[h].at <= clock
         /\ clock - ingress[h].at <= MaxLag

\* No observation is under way at first.
LEMMA TimeInvInit == Init => TimeInv
BY DEF Init, TimeInv

\* An observation is stamped with the present time.
LEMMA PrepareKeepsTimeInv ==
    ASSUME TimeInv, NEW h \in Handlers, NEW o, clock' = clock,
           ingress' = [ingress EXCEPT ![h] = [at |-> clock, obs |-> o, rules |-> snapshot]]
    PROVE  TimeInv'
BY RuleAlertsAssumption DEF TimeInv

\* An observation that has ended has no time.
LEMMA EndKeepsTimeInv ==
    ASSUME TimeInv, NEW h \in Handlers, clock' = clock,
           ingress' = [ingress EXCEPT ![h] = NoObservation]
    PROVE  TimeInv'
BY DEF TimeInv

\* Time waits for an observation that has reached the allowed age.
LEMMA TickKeepsTimeInv == ASSUME TimeInv, Tick PROVE TimeInv'
BY RuleAlertsAssumption DEF TimeInv, Tick

\* Steps that touch neither the clock nor an observation.
LEMMA OthersKeepTimeInv ==
    ASSUME TimeInv, UNCHANGED <<clock, ingress>> PROVE TimeInv'
BY DEF TimeInv

\* Deliveries, operators and retention take no time and prepare nothing.
LEMMA AlertNextIsTimeless == AlertNext => UNCHANGED <<clock, ingress>>
<1> SUFFICES ASSUME AlertNext PROVE UNCHANGED <<clock, ingress>>
  OBVIOUS
<1>1. CASE \E i \in Ids : DeliverCreate(i) \/ DeliverResolve(i) \/ ReplayAction(i)
  BY <1>1 DEF DeliverCreate, DeliverResolve, ReplayAction
<1>2. CASE \E S \in SUBSET Ids, tr \in {"acknowledge", "resolve", "reactivate"} : Transition(S, tr)
  BY <1>2 DEF Transition
<1>3. CASE (\E r \in Rules : Toggle(r)) \/ Refresh \/ PruneAlerts \/ PruneCooldowns
  BY <1>3 DEF Toggle, Refresh, PruneAlerts, PruneCooldowns
<1>4. QED
  BY <1>1, <1>2, <1>3 DEF AlertNext

\* Every step keeps the ages of observations within their bound.
LEMMA TimeInvInductive == TimeInv /\ [Next]_vars => TimeInv'
<1> SUFFICES ASSUME TimeInv, [Next]_vars PROVE TimeInv'
  OBVIOUS
<1>1. CASE \E h \in Handlers, obs \in Observations : Prepare(h, obs)
  BY <1>1, PrepareKeepsTimeInv DEF Prepare
<1>2. CASE \E h \in Handlers : Record(h) \/ Abort(h)
  BY <1>2, EndKeepsTimeInv DEF Record, Abort
<1>3. CASE AlertNext \/ UNCHANGED vars
  BY <1>3, AlertNextIsTimeless, OthersKeepTimeInv DEF vars
<1>4. QED
  BY <1>1, <1>2, <1>3, TickKeepsTimeInv DEF Next

-----------------------------------------------------------------------------
(* Alerts, as theorems. *)

\* Every step keeps the alerts consistent.
LEMMA AlertInvInductive == AlertInv /\ TimeInv /\ [Next]_vars => AlertInv'
<1> SUFFICES ASSUME AlertInv, clock \in Nat, [Next]_vars PROVE AlertInv'
  BY DEF TimeInv
<1>1. CASE AlertNext
  BY <1>1, AlertNextKeepsAlertInv
<1>2. CASE \/ \E h \in Handlers, obs \in Observations : Prepare(h, obs)
           \/ \E h \in Handlers : Record(h) \/ Abort(h)
           \/ Tick \/ UNCHANGED vars
  BY <1>2, OthersKeepAlertInv DEF Prepare, Record, Abort, Tick, vars
<1>3. QED
  BY <1>1, <1>2 DEF Next

\* However late creations are delivered and whatever is reactivated, a rule
\* has at most one open alert.
THEOREM OneOpenAlertHolds == Spec => []OneOpenAlert
BY AlertInvInit, AlertInvInductive, AlertInvImplies, TimeInvInit, TimeInvInductive, PTL DEF Spec

\* An action that was applied creates nothing when it is delivered again,
\* whatever became of its alert.
THEOREM NoResurrectionHolds == Spec => NoResurrection
<1> DEFINE Keeps == \A i \in Ids : receipts[i] # NoId /\ alerts[i].status = "none"
                                      => alerts'[i].status = "none"
<1>1. AlertInv /\ TimeInv /\ [Next]_vars => Keeps \/ UNCHANGED vars
  <2> SUFFICES ASSUME AlertInv, [Next]_vars,
                      NEW i \in Ids, receipts[i] # NoId, alerts[i].status = "none"
               PROVE  alerts'[i].status = "none"
    OBVIOUS
  <2>1. CASE \E j \in Ids : DeliverCreate(j)
    <3>1. PICK j \in Ids : DeliverCreate(j)
      BY <2>1
    <3>2. UNCHANGED alerts \/ (i # j /\ \E x : alerts' = [alerts EXCEPT ![j] = x])
      BY <3>1 DEF DeliverCreate, Applied
    <3>3. QED
      BY <3>2 DEF AlertInv, AlertsTyped
  <2>2. CASE \E j \in Ids : DeliverResolve(j)
    BY <2>2 DEF DeliverResolve, Resolved, OpenStatuses
  <2>3. CASE \E S \in SUBSET Ids, tr \in {"acknowledge", "resolve", "reactivate"} : Transition(S, tr)
    <3>1. PICK S \in SUBSET Ids, tr \in {"acknowledge", "resolve", "reactivate"} : Transition(S, tr)
      BY <2>3
    <3>2. i \notin Changed(S, tr)
      BY DEF Changed, Accepts, OpenStatuses
    <3>3. QED
      BY <3>1, <3>2 DEF Transition, Resolved
  <2>4. CASE PruneAlerts
    BY <2>4 DEF PruneAlerts, NoAlert
  <2>5. CASE UNCHANGED alerts
    BY <2>5
  <2>6. QED
    BY <2>1, <2>2, <2>3, <2>4, <2>5 DEF Next, AlertNext, vars, Prepare, Record, Abort, Tick,
       ReplayAction, Toggle, Refresh, PruneCooldowns
<1>2. QED
  BY <1>1, AlertInvInit, AlertInvInductive, TimeInvInit, TimeInvInductive, PTL
     DEF Spec, NoResurrection

-----------------------------------------------------------------------------
(* Quiet periods. *)

QuietTyped ==
    /\ cooldowns \in [Rules -> Time]
    /\ quiet \in [Rules -> Time]

\* A quiet period is on record, or over for every observation still to come.
QuietRecorded ==
    \A r \in Rules : quiet[r] # NullTime =>
        \/ cooldowns[r] # NullTime /\ quiet[r] <= cooldowns[r]
        \/ quiet[r] < clock - CooldownRetention

QuietInv == QuietTyped /\ QuietRecorded

\* No rule has fired at first.
LEMMA QuietInvInit == Init => QuietInv
BY DEF Init, QuietInv, QuietTyped, QuietRecorded, Time, NullTime

\* What both tables are set to when rules fire, or are resolved.
LEMMA StampKeepsQuietInv ==
    ASSUME QuietInv, clock \in Nat, clock' = clock, NEW F, NEW at \in Nat,
           cooldowns' = Upserted(cooldowns, F, at),
           quiet' \in [Rules -> Time],
           \A r \in Rules : \/ r \notin F /\ quiet'[r] = quiet[r]
                            \/ r \in F /\ quiet'[r] \in {at, Later(quiet[r], at)}
    PROVE  QuietInv'
<1>1. cooldowns' \in [Rules -> Time]
  BY DEF QuietInv, QuietTyped, Upserted, Later, Time
<1>2. QuietRecorded'
  <2> SUFFICES ASSUME NEW r \in Rules, quiet'[r] # NullTime
               PROVE  \/ cooldowns'[r] # NullTime /\ quiet'[r] <= cooldowns'[r]
                      \/ quiet'[r] < clock - CooldownRetention
    BY DEF QuietRecorded
  <2>1. cooldowns[r] \in Time /\ quiet[r] \in Time
    BY DEF QuietInv, QuietTyped
  <2>2. CASE r \notin F
    BY <2>2 DEF QuietInv, QuietRecorded, Upserted
  <2>3. CASE r \in F
    <3>1. cooldowns'[r] = Later(cooldowns[r], at)
      BY <2>3 DEF Upserted
    <3>2. CASE quiet'[r] = at
      BY <2>1, <3>1, <3>2 DEF Later, Time, NullTime
    <3>3. CASE quiet'[r] = Later(quiet[r], at)
      BY <2>1, <3>1, <3>3, RuleAlertsAssumption
         DEF QuietInv, QuietRecorded, Later, Time, NullTime
    <3>4. QED
      BY <2>3, <3>2, <3>3
  <2>4. QED
    BY <2>2, <2>3
<1>3. QED
  BY <1>1, <1>2 DEF QuietInv, QuietTyped

\* Steps that touch neither the cooldowns nor the clock.
LEMMA OthersKeepQuietInv ==
    ASSUME QuietInv, UNCHANGED <<clock, cooldowns, quiet>> PROVE QuietInv'
BY DEF QuietInv, QuietTyped, QuietRecorded

\* An evaluation stamps the rules that fire with the observation's time.
LEMMA EvaluateKeepsQuietInv ==
    ASSUME QuietInv, clock \in Nat, clock' = clock, NEW rules, NEW obs, NEW at \in Nat,
           Evaluate(rules, obs, at)
    PROVE  QuietInv'
<1>1. /\ cooldowns' = Upserted(cooldowns, Firing(rules, obs, at), at)
      /\ quiet' = [r \in Rules |-> IF r \in Firing(rules, obs, at) THEN Later(quiet[r], at)
                                   ELSE quiet[r]]
  BY DEF Evaluate
<1>2. quiet' \in [Rules -> Time]
  BY <1>1 DEF QuietInv, QuietTyped, Later, Time
<1>3. QED
  BY <1>1, <1>2, StampKeepsQuietInv

\* A resolution starts the quiet period and stamps the cooldown together.
LEMMA ResolvedKeepsQuietInv ==
    ASSUME QuietInv, clock \in Nat, clock' = clock, NEW S, Resolved(S) PROVE QuietInv'
<1> DEFINE F == {RuleOf(a) : a \in S}
<1>1. /\ cooldowns' = Upserted(cooldowns, F, clock)
      /\ quiet' = [r \in Rules |-> IF \E a \in S : RuleOf(a) = r THEN clock ELSE quiet[r]]
  BY DEF Resolved
<1>2. quiet' \in [Rules -> Time]
  BY <1>1 DEF QuietInv, QuietTyped, Time
<1>3. \A r \in Rules : r \in F <=> \E a \in S : RuleOf(a) = r
  OBVIOUS
<1>4. QED
  BY <1>1, <1>2, <1>3, StampKeepsQuietInv

\* Every step keeps each quiet period recorded.
LEMMA QuietInvInductive == QuietInv /\ TimeInv /\ [Next]_vars => QuietInv'
<1> SUFFICES ASSUME QuietInv, TimeInv, [Next]_vars PROVE QuietInv'
  OBVIOUS
<1>1. clock \in Nat
  BY DEF TimeInv
<1>2. CASE \E h \in Handlers : Record(h)
  BY <1>1, <1>2, EvaluateKeepsQuietInv DEF Record, TimeInv
<1>3. CASE \E i \in Ids : DeliverResolve(i)
  BY <1>1, <1>3, ResolvedKeepsQuietInv, OthersKeepQuietInv DEF DeliverResolve
<1>4. CASE \E S \in SUBSET Ids, tr \in {"acknowledge", "resolve", "reactivate"} : Transition(S, tr)
  <2>1. PICK S \in SUBSET Ids, tr \in {"acknowledge", "resolve", "reactivate"} : Transition(S, tr)
    BY <1>4
  <2>2. CASE tr = "acknowledge"
    BY <2>1, <2>2, OthersKeepQuietInv DEF Transition
  <2>3. CASE tr = "resolve"
    BY <1>1, <2>1, <2>3, ResolvedKeepsQuietInv DEF Transition
  <2>4. CASE tr = "reactivate"
    <3> DEFINE Lifted(r) == \E a \in Changed(S, tr) : RuleOf(a) = r
    <3>1. /\ cooldowns' = [r \in Rules |-> IF Lifted(r) THEN NullTime ELSE cooldowns[r]]
          /\ quiet' = [r \in Rules |-> IF Lifted(r) THEN NullTime ELSE quiet[r]]
          /\ clock' = clock
      BY <2>1, <2>4 DEF Transition
    <3> HIDE DEF Lifted
    <3>2. QED
      BY <3>1 DEF QuietInv, QuietTyped, QuietRecorded, Time
  <2>5. QED
    BY <2>2, <2>3, <2>4
<1>5. CASE PruneCooldowns
  BY <1>1, <1>5, RuleAlertsAssumption
     DEF PruneCooldowns, Stale, QuietInv, QuietTyped, QuietRecorded, Time, NullTime
<1>6. CASE Tick
  BY <1>1, <1>6, RuleAlertsAssumption
     DEF Tick, QuietInv, QuietTyped, QuietRecorded, Time, NullTime
<1>7. CASE UNCHANGED <<clock, cooldowns, quiet>>
  BY <1>7, OthersKeepQuietInv
<1>8. QED
  BY <1>2, <1>3, <1>4, <1>5, <1>6, <1>7 DEF Next, AlertNext, vars, Prepare, Abort, DeliverCreate,
     ReplayAction, Toggle, Refresh, PruneAlerts

\* No observation that falls into a quiet period fires, though retention may
\* have deleted the row that records it: for every cooldown and retention, up to
\* the longest wait of an observation before the row may go.
THEOREM QuietPeriodHolds == Spec => []QuietPeriodKept
<1>1. QuietInv /\ TimeInv => QuietPeriodKept
  <2> SUFFICES ASSUME QuietInv, TimeInv, NEW h \in Handlers, NEW r \in Rules,
                      ingress[h] # NoObservation, quiet[r] # NullTime,
                      Cooldown > 0, ingress[h].at - quiet[r] < Cooldown,
                      ingress[h].at - quiet[r] <= CooldownRetention - MaxLag
               PROVE  InCooldown(r, ingress[h].at)
    BY DEF QuietPeriodKept, Firing
  <2>1. /\ quiet[r] \in Nat /\ cooldowns[r] \in Time /\ clock \in Nat
        /\ ingress[h].at \in Nat /\ clock - ingress[h].at <= MaxLag
    BY DEF QuietInv, QuietTyped, TimeInv, Time
  <2>2. ~(quiet[r] < clock - CooldownRetention)
    BY <2>1, RuleAlertsAssumption
  <2>3. cooldowns[r] # NullTime /\ quiet[r] <= cooldowns[r]
    BY <2>2 DEF QuietInv, QuietRecorded
  <2>4. QED
    BY <2>1, <2>3, RuleAlertsAssumption DEF InCooldown, Time
<1>2. QED
  BY <1>1, QuietInvInit, QuietInvInductive, TimeInvInit, TimeInvInductive, PTL DEF Spec

-----------------------------------------------------------------------------
(* Geofences. *)

ZonesTyped ==
    /\ entries \in [Rules -> Time]
    /\ left \in [Rules -> Time]
    /\ last = [r \in Rules |-> last[r]]
    /\ \A h \in Handlers : ingress[h] # NoObservation =>
         \A r \in Rules : ingress[h].obs[r] \in {"inside", "outside", "missing"}

\* Nothing was left in the future.
LeftBefore == \A r \in Rules : left[r] <= clock

\* A rule with an entry saw the device inside last, and its entry is hardly
\* older than the last position outside.
EntryIsStay ==
    \A r \in Rules : entries[r] # NullTime =>
        /\ last[r] = "inside"
        /\ left[r] # NullTime => left[r] - entries[r] <= MaxLag

ZoneInv == TimeInv /\ ZonesTyped /\ LeftBefore /\ EntryIsStay

\* No zone has been entered at first.
LEMMA ZoneInvInit == Init /\ ZoneInit => ZoneInv
BY TimeInvInit DEF Init, ZoneInit, ZoneInv, ZonesTyped, LeftBefore, EntryIsStay, Time, NullTime

\* A position is prepared against the entries of the moment.
LEMMA PreparePositionKeepsZoneInv ==
    ASSUME ZoneInv, NEW h \in Handlers, NEW pos \in Positions, PreparePosition(h, pos)
    PROVE  ZoneInv'
<1>1. TimeInv'
  BY PrepareKeepsTimeInv DEF PreparePosition, ZoneInv
<1>2. ingress' = [ingress EXCEPT ![h] = [at |-> clock, obs |-> pos, rules |-> snapshot]]
  BY DEF PreparePosition
<1>3. ZonesTyped'
  BY <1>2 DEF PreparePosition, ZoneInv, TimeInv, ZonesTyped, Positions, zoneVars
<1>4. QED
  BY <1>1, <1>3 DEF PreparePosition, ZoneInv, LeftBefore, EntryIsStay, zoneVars

\* The entry is made by an observation that is at most MaxLag old, when no
\* position outside is newer than now.
LEMMA RecordPositionKeepsZoneInv ==
    ASSUME ZoneInv, NEW h \in Handlers, RecordPosition(h) PROVE ZoneInv'
<1> DEFINE at == ingress[h].at
           pos == ingress[h].obs
           live == Live(ingress[h].rules)
<1>1. /\ ingress[h] # NoObservation /\ clock \in Nat /\ clock' = clock
      /\ at \in Nat /\ at <= clock /\ clock - at <= MaxLag
      /\ \A r \in Rules : pos[r] \in {"inside", "outside", "missing"}
  BY DEF RecordPosition, ZoneInv, TimeInv, ZonesTyped
<1>2. /\ ingress' = [ingress EXCEPT ![h] = NoObservation]
      /\ entries' = [r \in Rules |-> IF r \in live THEN Moved(r, pos[r], at) ELSE entries[r]]
      /\ last' = [r \in Rules |-> IF r \in live \ {x \in live : pos[x] = "missing"} THEN pos[r]
                                  ELSE last[r]]
      /\ left' = [r \in Rules |-> IF r \in {x \in live : pos[x] = "outside"}
                                  THEN Later(left[r], at) ELSE left[r]]
  BY DEF RecordPosition
<1>3. TimeInv'
  BY <1>1, <1>2, EndKeepsTimeInv DEF ZoneInv
<1> HIDE DEF at, pos, live
<1>4. \A r \in Rules : entries[r] \in Time /\ left[r] \in Time /\ left[r] <= clock
  BY DEF ZoneInv, ZonesTyped, LeftBefore
<1>5. entries' \in [Rules -> Time] /\ left' \in [Rules -> Time]
  BY <1>1, <1>2, <1>4 DEF Moved, Later, Time
<1>6. ZonesTyped'
  BY <1>2, <1>5 DEF ZoneInv, ZonesTyped, TimeInv
<1>7. LeftBefore'
  BY <1>1, <1>2, <1>4 DEF LeftBefore, Later
<1>8. EntryIsStay'
  <2> SUFFICES ASSUME NEW r \in Rules, entries'[r] # NullTime
               PROVE  /\ last'[r] = "inside"
                      /\ left'[r] # NullTime => left'[r] - entries'[r] <= MaxLag
    BY DEF EntryIsStay
  <2>1. CASE r \in live /\ pos[r] = "inside" /\ entries[r] = NullTime
    <3>1. entries'[r] = at /\ last'[r] = "inside" /\ left'[r] = left[r]
      BY <1>2, <2>1 DEF Moved, WasInside
    <3>2. QED
      BY <1>1, <1>4, <3>1, RuleAlertsAssumption DEF Time, NullTime
  <2>2. CASE r \in live /\ pos[r] = "outside"
    BY <1>2, <2>2 DEF Moved
  <2>3. CASE \/ r \notin live \/ pos[r] = "missing"
             \/ pos[r] = "inside" /\ entries[r] # NullTime
    <3>1. entries'[r] = entries[r] /\ left'[r] = left[r]
      BY <1>2, <2>3 DEF Moved, WasInside
    <3>2. last'[r] = "inside"
      BY <1>2, <2>3, <3>1 DEF ZoneInv, EntryIsStay
    <3>3. QED
      BY <3>1, <3>2 DEF ZoneInv, EntryIsStay
  <2>4. QED
    BY <1>1, <2>1, <2>2, <2>3
<1>9. QED
  BY <1>3, <1>6, <1>7, <1>8 DEF ZoneInv

\* Whatever is not a position leaves the entries alone.
LEMMA SurroundingsKeepZoneInv ==
    ASSUME ZoneInv, Surroundings \/ UNCHANGED vars, UNCHANGED zoneVars PROVE ZoneInv'
<1>1. CASE \E h \in Handlers : Abort(h)
  <2>1. PICK h \in Handlers : Abort(h)
    BY <1>1
  <2>2. TimeInv'
    BY <2>1, EndKeepsTimeInv DEF Abort, ZoneInv
  <2>3. QED
    BY <2>1, <2>2 DEF Abort, ZoneInv, TimeInv, ZonesTyped, LeftBefore, EntryIsStay, zoneVars
<1>2. CASE Tick
  <2>1. TimeInv' /\ ingress' = ingress /\ clock' = clock + 1 /\ clock \in Nat
    BY <1>2, TickKeepsTimeInv DEF Tick, ZoneInv, TimeInv
  <2>2. LeftBefore'
    BY <2>1 DEF ZoneInv, ZonesTyped, LeftBefore, zoneVars, Time, NullTime
  <2>3. QED
    BY <2>1, <2>2 DEF ZoneInv, ZonesTyped, EntryIsStay, zoneVars
<1>3. CASE UNCHANGED <<clock, ingress>>
  BY <1>3, OthersKeepTimeInv DEF ZoneInv, ZonesTyped, LeftBefore, EntryIsStay, zoneVars
<1>4. QED
  BY <1>1, <1>2, <1>3 DEF Surroundings, vars, DeliverCreate, DeliverResolve, Toggle, Refresh,
     PruneCooldowns

\* Every step keeps the entries true to the positions committed.
LEMMA ZoneInvInductive == ZoneInv /\ [ZoneNext]_<<vars, zoneVars>> => ZoneInv'
<1> SUFFICES ASSUME ZoneInv, [ZoneNext]_<<vars, zoneVars>> PROVE ZoneInv'
  OBVIOUS
<1>1. CASE \E h \in Handlers, pos \in Positions : PreparePosition(h, pos)
  BY <1>1, PreparePositionKeepsZoneInv
<1>2. CASE \E h \in Handlers : RecordPosition(h)
  BY <1>2, RecordPositionKeepsZoneInv
<1>3. CASE (Surroundings \/ UNCHANGED vars) /\ UNCHANGED zoneVars
  BY <1>3, SurroundingsKeepZoneInv
<1>4. QED
  BY <1>1, <1>2, <1>3 DEF ZoneNext

\* A geofence rule fires for a stay of the required length, up to the lag of
\* observations, and once for each visit that ended.
THEOREM ZoneAlertsAreDeserved == ZoneSpec => []ZoneAlertsDeserved
<1>1. ZoneInv => ZoneAlertsDeserved
  <2> SUFFICES ASSUME ZoneInv, NEW h \in Handlers, NEW r \in Rules,
                      ingress[h] # NoObservation,
                      r \in Firing(ingress[h].rules, Verdicts(ingress[h].obs, ingress[h].at),
                                   ingress[h].at)
               PROVE  IF target[r] = "inside"
                      THEN \/ left[r] = NullTime
                           \/ ingress[h].at - left[r] >= Dwell - MaxLag
                      ELSE last[r] = "inside"
    BY DEF ZoneAlertsDeserved
  <2>1. ConditionsMet(r, ingress[h].at) /\ OpenAlerts(r) = {}
    BY DEF Firing, Verdicts
  <2>2. /\ ingress[h].at \in Nat /\ clock \in Nat /\ clock - ingress[h].at <= MaxLag
        /\ entries[r] \in Time /\ left[r] \in Time /\ left[r] <= clock
    BY DEF ZoneInv, TimeInv, ZonesTyped, LeftBefore
  <2>3. CASE target[r] = "inside"
    <3>1. Dwell = 0 \/ (entries[r] # NullTime /\ ingress[h].at - entries[r] >= Dwell)
      BY <2>1, <2>3 DEF ConditionsMet, InsideLongEnough, WasInside
    <3>2. CASE Dwell = 0
      BY <2>2, <2>3, <3>2, RuleAlertsAssumption DEF Time, NullTime
    <3>3. CASE entries[r] # NullTime /\ ingress[h].at - entries[r] >= Dwell
      <4>1. left[r] # NullTime => left[r] - entries[r] <= MaxLag
        BY <3>3 DEF ZoneInv, EntryIsStay
      <4>2. QED
        BY <2>2, <2>3, <3>3, <4>1, RuleAlertsAssumption, GeofenceAssumption DEF Time, NullTime
    <3>4. QED
      BY <3>1, <3>2, <3>3
  <2>4. CASE target[r] # "inside"
    BY <2>1, <2>4 DEF ConditionsMet, WasInside, ZoneInv, EntryIsStay
  <2>5. QED
    BY <2>3, <2>4
<1>2. QED
  BY <1>1, ZoneInvInit, ZoneInvInductive, PTL DEF ZoneSpec

-----------------------------------------------------------------------------
(* Device status. *)

\* What a heartbeat or a sweep took the time for, it took no later than now.
StatusTimed ==
    /\ clock \in Nat /\ last_seen \in Nat
    /\ beats = [h \in Handlers |-> beats[h]]
    /\ \A h \in Handlers : beats[h].stage = "write" =>
         beats[h].at \in Nat /\ beats[h].at <= clock /\ clock - beats[h].at <= MaxLag
    /\ sweep # NoSweep => /\ sweep.at \in Nat /\ sweep.at <= clock
                          /\ sweep.cutoff = sweep.at - Timeout

\* A heartbeat that commits late turns last_seen back by no more than it waited.
HeardLately == heard \in Nat /\ heard <= clock /\ heard <= last_seen + MaxLag

StatusInv == StatusTimed /\ HeardLately /\ StatusEvaluated

\* The device starts online, seen and evaluated.
LEMMA StatusInvInit == StatusInit => StatusInv
BY RuleAlertsAssumption DEF StatusInit, Init, StatusInv, StatusTimed, HeardLately, StatusEvaluated, NoBeat

\* A heartbeat reads, retries or is lost: its time is the present one or unused.
LEMMA BeatKeepsStatusInv ==
    ASSUME StatusInv, NEW h \in Handlers, NEW b,
           beats' = [beats EXCEPT ![h] = b],
           b.stage = "write" => b.at = clock,
           UNCHANGED <<clock, status, last_seen, sweep, evaluated, heard>>
    PROVE  StatusInv'
<1>1. \A g \in Handlers : beats'[g] = IF g = h THEN b ELSE beats[g]
  BY DEF StatusInv, StatusTimed
<1> QED
  BY <1>1, RuleAlertsAssumption DEF StatusInv, StatusTimed, HeardLately, StatusEvaluated

\* A step that leaves the device alone and does not turn back the clock.
LEMMA OthersKeepStatusInv ==
    ASSUME StatusInv, clock' \in Nat, clock <= clock',
           \A h \in Handlers : beats[h].stage = "write" => clock' - beats[h].at <= MaxLag,
           UNCHANGED <<status, last_seen, beats, evaluated, heard>>, sweep' \in {sweep, NoSweep}
    PROVE  StatusInv'
<1>1. sweep' # NoSweep => sweep' = sweep
  OBVIOUS
<1> QED
  BY <1>1, RuleAlertsAssumption DEF StatusInv, StatusTimed, HeardLately, StatusEvaluated

\* The conditional update finds the status the change was computed from, so
\* that a change is evaluated exactly when there is one.
LEMMA ApplyKeepsStatusInv ==
    ASSUME StatusInv, (\E h \in Handlers : ApplyHeartbeat(h)) \/ ApplyOffline
    PROVE  StatusInv'
<1>1. ASSUME NEW h \in Handlers, ApplyHeartbeat(h) PROVE StatusInv'
  <2>1. beats[h].stage = "write" /\ status = beats[h].expected
        /\ status' = beats[h].to /\ last_seen' = beats[h].at
        /\ heard' = Later(heard, beats[h].at)
        /\ beats' = [beats EXCEPT ![h] = NoBeat] /\ UNCHANGED <<clock, sweep>>
    BY <1>1 DEF ApplyHeartbeat, Matches
  <2>2. evaluated' = status'
    BY <1>1, <2>1 DEF ApplyHeartbeat, EvaluateChange, StatusInv, StatusEvaluated
  <2>3. StatusTimed'
    BY <2>1 DEF StatusInv, StatusTimed, NoBeat
  <2>4. HeardLately'
    BY <2>1, RuleAlertsAssumption DEF StatusInv, StatusTimed, HeardLately, Later
  <2> QED
    BY <2>2, <2>3, <2>4 DEF StatusInv, StatusEvaluated
<1>2. CASE ApplyOffline
  <2>1. sweep' = NoSweep /\ UNCHANGED <<clock, last_seen, beats, heard>>
    BY <1>2 DEF ApplyOffline
  <2>2. evaluated' = status'
    <3>1. CASE StillSilent
      BY <1>2, <3>1 DEF ApplyOffline, EvaluateChange, StillSilent
    <3>2. CASE ~StillSilent
      BY <1>2, <3>2 DEF ApplyOffline, StatusInv, StatusEvaluated
    <3> QED
      BY <3>1, <3>2
  <2>3. StatusTimed' /\ HeardLately'
    BY <2>1 DEF StatusInv, StatusTimed, HeardLately
  <2> QED
    BY <2>2, <2>3 DEF StatusInv, StatusEvaluated
<1> QED
  BY <1>1, <1>2

\* Every step keeps the status evaluated and the times in order.
LEMMA StatusInvInductive == StatusInv /\ [StatusNext]_allVars => StatusInv'
<1> SUFFICES ASSUME StatusInv, [StatusNext]_allVars PROVE StatusInv'
  OBVIOUS
<1>0. /\ clock \in Nat /\ clock <= clock
      /\ \A h \in Handlers : beats[h].stage = "write" => clock - beats[h].at <= MaxLag
  BY DEF StatusInv, StatusTimed
<1>1. ASSUME NEW h \in Handlers, NEW s \in Statuses, Receive(h, s) PROVE StatusInv'
  BY <1>1, BeatKeepsStatusInv DEF Receive, Context, vars
<1>2. ASSUME NEW h \in Handlers, Reread(h) PROVE StatusInv'
  <2>1. beats' = [beats EXCEPT ![h] = Context(beats[h].to, beats[h].tries)]
    BY <1>2 DEF Reread, StatusInv, StatusTimed
  <2> QED
    BY <1>2, <2>1, BeatKeepsStatusInv DEF Reread, Context, vars
<1>3. ASSUME NEW h \in Handlers, Conflict(h) PROVE StatusInv'
  <2> DEFINE b == IF beats[h].tries < Retries
                  THEN [beats[h] EXCEPT !.stage = "read", !.tries = @ + 1] ELSE NoBeat
  <2>1. beats' = [beats EXCEPT ![h] = b]
    BY <1>3 DEF Conflict
  <2>2. b.stage # "write"
    BY <1>3 DEF Conflict, NoBeat
  <2> HIDE DEF b
  <2> QED
    BY <1>3, <2>1, <2>2, BeatKeepsStatusInv DEF Conflict, vars
<1>4. ASSUME NEW h \in Handlers, LoseHeartbeat(h) PROVE StatusInv'
  BY <1>4, BeatKeepsStatusInv DEF LoseHeartbeat, NoBeat, vars
<1>5. CASE (\E h \in Handlers : ApplyHeartbeat(h)) \/ ApplyOffline
  BY <1>5, ApplyKeepsStatusInv
<1>6. CASE FindCandidate
  <2>1. /\ sweep'.at = clock /\ sweep'.cutoff = clock - Timeout
        /\ UNCHANGED <<clock, status, last_seen, beats, evaluated, heard>>
    BY <1>6 DEF FindCandidate, vars
  <2> QED
    BY <1>0, <2>1 DEF StatusInv, StatusTimed, HeardLately, StatusEvaluated
<1>7. CASE AbortSweep
  BY <1>0, <1>7, OthersKeepStatusInv DEF AbortSweep, vars
<1>8. CASE AlertNext /\ UNCHANGED statusVars
  BY <1>0, <1>8, AlertNextIsTimeless, OthersKeepStatusInv DEF statusVars
<1>9. CASE StatusTick
  <2>1. /\ clock' = clock + 1 /\ clock' \in Nat /\ clock <= clock'
        /\ UNCHANGED <<status, last_seen, beats, sweep, evaluated, heard>>
    BY <1>0, <1>9 DEF StatusTick, Tick, statusVars
  <2>2. \A h \in Handlers : beats[h].stage = "write" => clock' - beats[h].at <= MaxLag
    BY <1>0, <1>9, <2>1, RuleAlertsAssumption DEF StatusTick, NoBeat, StatusInv, StatusTimed
  <2> QED
    BY <2>1, <2>2, OthersKeepStatusInv
<1>10. CASE UNCHANGED allVars
  BY <1>0, <1>10, OthersKeepStatusInv DEF allVars, vars, statusVars
<1> QED
  BY <1>1, <1>2, <1>3, <1>4, <1>5, <1>6, <1>7, <1>8, <1>9, <1>10 DEF StatusNext

\* apply_heartbeat and apply_offline_transitions let no status change past the
\* rules, whichever of them wins a race.
THEOREM StatusIsEvaluated == StatusSpec => []StatusEvaluated
<1>1. StatusInv => StatusEvaluated
  BY DEF StatusInv
<1> QED
  BY <1>1, StatusInvInit, StatusInvInductive, PTL DEF StatusSpec

\* The sweep's conditional update spares a device whose heartbeat came after
\* it was listed, and a heartbeat applied out of order hides a later one only
\* for as long as it waited.
THEOREM OnlyTheSilentGoOffline == StatusSpec => OnlySilentGoOffline
<1> DEFINE Silent == sweep # NoSweep /\ sweep' = NoSweep /\ status' # status
                        => clock - heard > Timeout - MaxLag
<1>1. StatusInv /\ [StatusNext]_allVars => [Silent]_allVars
  <2> SUFFICES ASSUME StatusInv, StatusNext, sweep # NoSweep, sweep' = NoSweep, status' # status
               PROVE  clock - heard > Timeout - MaxLag
    OBVIOUS
  <2>1. ApplyOffline
    BY DEF StatusNext, Receive, Reread, ApplyHeartbeat, Conflict, LoseHeartbeat, FindCandidate,
           AbortSweep, StatusTick, statusVars
  <2>2. last_seen < sweep.cutoff
    BY <2>1 DEF ApplyOffline, StillSilent
  <2> QED
    BY <2>2, DeviceStatusAssumption, RuleAlertsAssumption DEF StatusInv, StatusTimed, HeardLately
<1> QED
  BY <1>1, StatusInvInit, StatusInvInductive, PTL DEF StatusSpec, OnlySilentGoOffline

\* Heartbeats and sweeps keep a rule to one open alert as observations do.
THEOREM OneOpenStatusAlert == StatusSpec => []OneOpenAlert
<1>1. StatusInit => AlertInv
  BY AlertInvInit DEF StatusInit
<1>2. StatusInv /\ AlertInv /\ [StatusNext]_allVars => AlertInv'
  <2> SUFFICES ASSUME StatusInv, AlertInv, [StatusNext]_allVars PROVE AlertInv'
    OBVIOUS
  <2>1. CASE AlertNext
    BY <2>1, AlertNextKeepsAlertInv DEF StatusInv, StatusTimed
  <2>2. CASE UNCHANGED <<alerts, receipts>>
    BY <2>2, OthersKeepAlertInv
  <2> QED
    BY <2>1, <2>2
       DEF StatusNext, Receive, Reread, ApplyHeartbeat, Conflict, LoseHeartbeat, FindCandidate,
           ApplyOffline, AbortSweep, StatusTick, Tick, vars, allVars
<1> QED
  BY <1>1, <1>2, AlertInvImplies, StatusInvInit, StatusInvInductive, PTL DEF StatusSpec

=============================================================================
