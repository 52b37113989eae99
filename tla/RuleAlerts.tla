----------------------------- MODULE RuleAlerts -----------------------------
(***************************************************************************)
(* Rules, alerts and cooldowns of one device: the evaluation that runs     *)
(* inside the ingestion transaction (backend-turso/rule_runtime.rs,        *)
(* rule-engine/evaluate.rs), the alert actions it leaves in the outbox,    *)
(* their delivery (application/rule_delivery.rs, backend-turso/alerts.rs), *)
(* the operator's transitions and the retention jobs.                      *)
(*                                                                         *)
(* A decision and its effect are far apart: an observation is prepared     *)
(* against a snapshot of the rules and a time, evaluated in a later        *)
(* transaction against the alerts of that moment, and its action is        *)
(* delivered later still, at least once, possibly after the alert was      *)
(* resolved, reactivated or deleted.                                       *)
(*                                                                         *)
(* The outbox appears as its contract (OutboxLedger): an action is open    *)
(* until it is done or dead, and a worker whose claim was superseded may   *)
(* still execute it.  Displayed values and messages are left out.          *)
(***************************************************************************)
EXTENDS Integers, FiniteSets

CONSTANTS
    Rules,              \* the rules that apply to the device
    MaxActions,         \* bound: outbox actions per rule
    Handlers,           \* ingestion tasks (one per process and subscriber)
    Cooldown,           \* cooldown_seconds of every rule, in clock ticks
    CooldownRetention,  \* age at which cooldown rows are deleted (24 hours)
    AlertRetention,     \* age at which resolved alerts are deleted
    MaxLag,             \* ticks an observation may wait for its transaction
    MaxTime,            \* bound: the clock stops here
    OperatorActs,       \* whether operators transition alerts
    RulesToggle         \* whether rules are disabled and enabled

ASSUME RuleAlertsAssumption ==
    /\ MaxActions \in Nat \ {0}
    /\ Cooldown \in Nat
    /\ CooldownRetention \in Nat
    /\ AlertRetention \in Nat
    /\ MaxLag \in Nat
    /\ MaxTime \in Nat
    /\ OperatorActs \in BOOLEAN
    /\ RulesToggle \in BOOLEAN

VARIABLES
    clock,      \* Utc::now
    enabled,    \* rules whose row has enabled = 1
    snapshot,   \* rules in the compiled snapshot of the process
    ingress,    \* the observation each ingestion task has prepared
    alerts,     \* table alerts: id -> status and resolution time
    receipts,   \* table rule_alert_deliveries: create action -> alert id
    cooldowns,  \* table rule_cooldowns: rule -> last_fired_at
    actions,    \* the alert rows of rule_action_outbox
    quiet       \* history: when the rule last fired or was resolved, as far
                \* as no reactivation lifted its cooldown

vars == <<clock, enabled, snapshot, ingress, alerts, receipts, cooldowns,
          actions, quiet>>

NullTime == -1
Time == Nat \cup {NullTime}
Later(s, t) == IF s < t THEN t ELSE s

\* An action's id is the UUID of its outbox row; here its rule and a number.
\* An alert has the id of the action that created it.
Ids == Rules \X (1 .. MaxActions)
RuleOf(i) == i[1]
NoId == <<>>

Observations == [Rules -> {"met", "unmet", "missing"}]

NoObservation == [at |-> NullTime]
Prepared == [at : Nat, obs : Observations, rules : SUBSET Rules]

AlertStatuses == {"none", "active", "acknowledged", "resolved"}
OpenStatuses == {"active", "acknowledged"}
Alert == [status : AlertStatuses, resolved_at : Time]
NoAlert == [status |-> "none", resolved_at |-> NullTime]

ActionStates == {"none", "open", "done", "dead"}
Action == [kind : {"none", "create", "resolve"}, alert : Ids \cup {NoId},
           state : ActionStates]
NoAction == [kind |-> "none", alert |-> NoId, state |-> "none"]

\* The active or acknowledged alerts of a rule.
OpenAlerts(r) == {a \in Ids : RuleOf(a) = r /\ alerts[a].status \in OpenStatuses}

Init ==
    /\ clock = 0
    /\ enabled = Rules
    /\ snapshot = Rules
    /\ ingress = [h \in Handlers |-> NoObservation]
    /\ alerts = [i \in Ids |-> NoAlert]
    /\ receipts = [i \in Ids |-> NoId]
    /\ cooldowns = [r \in Rules |-> NullTime]
    /\ actions = [i \in Ids |-> NoAction]
    /\ quiet = [r \in Rules |-> NullTime]

-----------------------------------------------------------------------------
(* Evaluation, inside the transaction that stores the observation. *)

\* is_in_cooldown_for_tenant_at: a cooldown of zero suppresses nothing, not even
\* an observation older than the row.
InCooldown(r, at) ==
    /\ Cooldown > 0
    /\ cooldowns[r] # NullTime
    /\ at - cooldowns[r] < Cooldown

\* upsert_cooldown keeps the later of the stored and the new time.
Upserted(table, S, at) ==
    [r \in Rules |-> IF r \in S THEN Later(table[r], at) ELSE table[r]]

\* Rules of the snapshot whose row is still there and enabled.
Live(rules) == rules \cap enabled

\* Conditions met, no open alert, not in cooldown: the rule fires.
Firing(rules, obs, at) ==
    {r \in Live(rules) : /\ obs[r] = "met"
                         /\ OpenAlerts(r) = {}
                         /\ ~InCooldown(r, at)}

\* Conditions no longer met: the open alert is to be resolved.
Resolving(rules, obs) ==
    {r \in Live(rules) : obs[r] = "unmet" /\ OpenAlerts(r) # {}}

\* The idempotency key of an action, without its tenant.
KeyOf(r, action) == <<action.kind, r, action.alert>>

\* The active-row unique index: enqueueing an action twice keeps one row.
IsOpen(r, action) ==
    \E i \in Ids : /\ actions[i].state = "open"
                   /\ KeyOf(RuleOf(i), actions[i]) = KeyOf(r, action)

NewAction(kind, alert) == [kind |-> kind, alert |-> alert, state |-> "open"]

\* What a decision asks for: at most one alert action per rule.
Wanted(rules, obs, at) ==
    [r \in Firing(rules, obs, at) \cup Resolving(rules, obs) |->
        IF r \in Firing(rules, obs, at)
        THEN NewAction("create", NoId)
        ELSE NewAction("resolve", CHOOSE a \in OpenAlerts(r) : TRUE)]

Used(r) == {n \in 1 .. MaxActions : actions[<<r, n>>].kind # "none"}

\* evaluate_rules_in_transaction, then enqueue_actions_in_transaction.  The
\* second guard is the bound on actions.
Evaluate(rules, obs, at) ==
    LET wanted == Wanted(rules, obs, at)
        queued == {r \in DOMAIN wanted : ~IsOpen(r, wanted[r])}
        fired == Firing(rules, obs, at)
    IN  /\ \A r \in queued : Cardinality(Used(r)) < MaxActions
        /\ actions' = [i \in Ids |->
                         IF /\ RuleOf(i) \in queued
                            /\ i[2] = Cardinality(Used(RuleOf(i))) + 1
                         THEN wanted[RuleOf(i)] ELSE actions[i]]
        /\ cooldowns' = Upserted(cooldowns, fired, at)
        /\ quiet' = [r \in Rules |-> IF r \in fired THEN Later(quiet[r], at) ELSE quiet[r]]

\* An ingestion task takes its snapshot and its time, then waits for the
\* writer.
Prepare(h, obs) ==
    /\ ingress[h] = NoObservation
    /\ ingress' = [ingress EXCEPT ![h] = [at |-> clock, obs |-> obs, rules |-> snapshot]]
    /\ UNCHANGED <<clock, enabled, snapshot, alerts, receipts, cooldowns, actions, quiet>>

\* The transaction commits.
Record(h) ==
    /\ ingress[h] # NoObservation
    /\ Evaluate(ingress[h].rules, ingress[h].obs, ingress[h].at)
    /\ ingress' = [ingress EXCEPT ![h] = NoObservation]
    /\ UNCHANGED <<clock, enabled, snapshot, alerts, receipts>>

\* The transaction fails, or the process stops: nothing was written.
Abort(h) ==
    /\ ingress[h] # NoObservation
    /\ ingress' = [ingress EXCEPT ![h] = NoObservation]
    /\ UNCHANGED <<clock, enabled, snapshot, alerts, receipts, cooldowns, actions, quiet>>

-----------------------------------------------------------------------------
(* Delivery of the queued actions, at least once. *)

\* Settling the outbox row after an execution: a success may be recorded or
\* lost, a failure is retried until the budget is spent; a worker whose claim
\* was superseded changes nothing.
Settles(i, ok) ==
    \/ /\ actions[i].state = "open"
       /\ \E s \in (IF ok THEN {"done", "open", "dead"} ELSE {"open", "dead"}) :
            actions' = [actions EXCEPT ![i].state = s]
    \/ /\ actions[i].state # "open"
       /\ UNCHANGED actions

\* The alert an action attaches to instead of creating one.
AlertFor(i) == IF alerts[i].status # "none" THEN {i} ELSE OpenAlerts(RuleOf(i))

\* Mutant: the receipt is only consulted while the alert exists.
AppliedToExisting(i) == receipts[i] # NoId /\ alerts[receipts[i]].status # "none"

\* find_delivery: the action was applied before.
Applied(i) == receipts[i] # NoId

\* create_or_get_active, one transaction.
DeliverCreate(i) ==
    /\ actions[i].kind = "create"
    /\ \/ /\ Applied(i)
          /\ UNCHANGED <<alerts, receipts>>
       \/ /\ ~Applied(i)
          /\ \E a \in AlertFor(i) : receipts' = [receipts EXCEPT ![i] = a]
          /\ UNCHANGED alerts
       \/ /\ ~Applied(i)
          /\ AlertFor(i) = {}
          /\ alerts' = [alerts EXCEPT ![i] = [status |-> "active", resolved_at |-> NullTime]]
          /\ receipts' = [receipts EXCEPT ![i] = i]
    /\ Settles(i, TRUE)
    /\ UNCHANGED <<clock, enabled, snapshot, ingress, cooldowns, quiet>>

\* Resolution, by an action or by an operator: stamp and cooldown in one
\* transaction.
Resolved(S) ==
    /\ alerts' = [a \in Ids |-> IF a \in S THEN [status |-> "resolved", resolved_at |-> clock]
                                ELSE alerts[a]]
    /\ cooldowns' = Upserted(cooldowns, {RuleOf(a) : a \in S}, clock)
    /\ quiet' = [r \in Rules |-> IF \E a \in S : RuleOf(a) = r THEN clock ELSE quiet[r]]

\* resolve_for_action: an alert that is gone or resolved is an error, which
\* the outbox retries.
DeliverResolve(i) ==
    /\ actions[i].kind = "resolve"
    /\ \/ /\ alerts[actions[i].alert].status \in OpenStatuses
          /\ Resolved({actions[i].alert})
          /\ Settles(i, TRUE)
       \/ /\ alerts[actions[i].alert].status \notin OpenStatuses
          /\ Settles(i, FALSE)
          /\ UNCHANGED <<alerts, cooldowns, quiet>>
    /\ UNCHANGED <<clock, enabled, snapshot, ingress, receipts>>

\* An operator replays a dead letter; the index still admits one open row.
ReplayAction(i) ==
    /\ actions[i].state = "dead"
    /\ ~IsOpen(RuleOf(i), actions[i])
    /\ actions' = [actions EXCEPT ![i].state = "open"]
    /\ UNCHANGED <<clock, enabled, snapshot, ingress, alerts, receipts, cooldowns, quiet>>

-----------------------------------------------------------------------------
(* Operators. *)

\* AlertTransition::accepts.
Accepts(tr, status) ==
    \/ tr = "acknowledge" /\ status = "active"
    \/ tr = "resolve" /\ status \in OpenStatuses
    \/ tr = "reactivate" /\ status \in {"acknowledged", "resolved"}

\* Mutant: only active alerts occupy the slot of their rule.
SlotFreeOfActive(a) ==
    \A b \in Ids : b # a /\ RuleOf(b) = RuleOf(a) => alerts[b].status # "active"

\* No other active or acknowledged alert for the rule.
SlotFree(a) == OpenAlerts(RuleOf(a)) \subseteq {a}

\* The alerts a (bulk) transition changes: ids in ascending order, so that of
\* several resolved alerts of one rule only the first is reactivated.
Changed(S, tr) ==
    {a \in S :
        /\ Accepts(tr, alerts[a].status)
        /\ tr = "reactivate" =>
             /\ SlotFree(a)
             /\ ~\E b \in S : /\ RuleOf(b) = RuleOf(a)
                              /\ b[2] < a[2]
                              /\ Accepts(tr, alerts[b].status)
                              /\ SlotFree(b)}

\* transition (one id) and transition_many, one transaction.
Transition(S, tr) ==
    /\ OperatorActs
    /\ Changed(S, tr) # {}
    /\ CASE tr = "acknowledge" ->
              /\ alerts' = [a \in Ids |-> IF a \in Changed(S, tr)
                                          THEN [alerts[a] EXCEPT !.status = "acknowledged"]
                                          ELSE alerts[a]]
              /\ UNCHANGED <<cooldowns, quiet>>
         [] tr = "resolve" -> Resolved(Changed(S, tr))
         [] tr = "reactivate" ->
              /\ alerts' = [a \in Ids |-> IF a \in Changed(S, tr)
                                          THEN [status |-> "active", resolved_at |-> NullTime]
                                          ELSE alerts[a]]
              /\ cooldowns' = [r \in Rules |-> IF \E a \in Changed(S, tr) : RuleOf(a) = r
                                               THEN NullTime ELSE cooldowns[r]]
              /\ quiet' = [r \in Rules |-> IF \E a \in Changed(S, tr) : RuleOf(a) = r
                                           THEN NullTime ELSE quiet[r]]
    /\ UNCHANGED <<clock, enabled, snapshot, ingress, receipts, actions>>

\* An operator disables or enables a rule.
Toggle(r) ==
    /\ RulesToggle
    /\ enabled' = IF r \in enabled THEN enabled \ {r} ELSE enabled \cup {r}
    /\ UNCHANGED <<clock, snapshot, ingress, alerts, receipts, cooldowns, actions, quiet>>

\* The process reloads its snapshot.
Refresh ==
    /\ snapshot # enabled
    /\ snapshot' = enabled
    /\ UNCHANGED <<clock, enabled, ingress, alerts, receipts, cooldowns, actions, quiet>>

-----------------------------------------------------------------------------
(* Retention. *)

Expired(a) ==
    alerts[a].status = "resolved" /\ alerts[a].resolved_at < clock - AlertRetention

\* delete_all_resolved_before.
PruneAlerts ==
    /\ \E a \in Ids : Expired(a)
    /\ alerts' = [a \in Ids |-> IF Expired(a) THEN NoAlert ELSE alerts[a]]
    /\ UNCHANGED <<clock, enabled, snapshot, ingress, receipts, cooldowns, actions, quiet>>

\* Mutant: the cutoff of resolved alerts is used for cooldowns.
StaleByAlertAge(r) ==
    cooldowns[r] # NullTime /\ cooldowns[r] < clock - AlertRetention

Stale(r) == cooldowns[r] # NullTime /\ cooldowns[r] < clock - CooldownRetention

\* delete_stale_cooldowns, a transaction of its own.
PruneCooldowns ==
    /\ \E r \in Rules : Stale(r)
    /\ cooldowns' = [r \in Rules |-> IF Stale(r) THEN NullTime ELSE cooldowns[r]]
    /\ UNCHANGED <<clock, enabled, snapshot, ingress, alerts, receipts, actions, quiet>>

\* Time passes; no observation waits longer than MaxLag.
Tick ==
    /\ clock < MaxTime
    /\ \A h \in Handlers : ingress[h] # NoObservation => clock - ingress[h].at < MaxLag
    /\ clock' = clock + 1
    /\ UNCHANGED <<enabled, snapshot, ingress, alerts, receipts, cooldowns, actions, quiet>>

\* The steps that follow a decision, whatever the observation was.
AlertNext ==
    \/ \E i \in Ids : DeliverCreate(i) \/ DeliverResolve(i) \/ ReplayAction(i)
    \/ \E S \in SUBSET Ids, tr \in {"acknowledge", "resolve", "reactivate"} : Transition(S, tr)
    \/ \E r \in Rules : Toggle(r)
    \/ Refresh
    \/ PruneAlerts
    \/ PruneCooldowns

Next ==
    \/ \E h \in Handlers, obs \in Observations : Prepare(h, obs)
    \/ \E h \in Handlers : Record(h) \/ Abort(h)
    \/ AlertNext
    \/ Tick

Spec == Init /\ [][Next]_vars

-----------------------------------------------------------------------------
(* Properties. *)

\* A rule never has two active or acknowledged alerts for the device, however
\* late creations are delivered and whatever operators reactivate.
OneOpenAlert == \A r \in Rules : Cardinality(OpenAlerts(r)) <= 1

\* An action that was applied never creates an alert again: a redelivery
\* after the alert was resolved, or deleted by retention, finds its receipt.
NoResurrection ==
    [][\A i \in Ids : receipts[i] # NoId /\ alerts[i].status = "none"
                        => alerts'[i].status = "none"]_vars

\* An observation that falls into the quiet period after a firing or a
\* resolution is suppressed, whatever the retention jobs deleted and in
\* whichever order observations commit.  Nothing orders the job that deletes
\* cooldown rows and an observation still waiting for its transaction, so the
\* promise ends MaxLag before the rows may go: a cooldown as long as their
\* retention, the longest accepted, loses its last MaxLag.
QuietPeriodKept ==
    \A h \in Handlers, r \in Rules :
        /\ Cooldown > 0
        /\ ingress[h] # NoObservation
        /\ quiet[r] # NullTime
        /\ ingress[h].at - quiet[r] < Cooldown
        /\ ingress[h].at - quiet[r] <= CooldownRetention - MaxLag
        => r \notin Firing(Rules, ingress[h].obs, ingress[h].at)

=============================================================================
