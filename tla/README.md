# Extrittio: TLA+ models and proofs

Extrittio is a self-hosted IoT platform. Devices talk to a backend over Zenoh;
the backend keeps its state in PostgreSQL or in an embedded Turso database and
serves an HTTP API. This directory holds TLA+ modules for the parts of it in
which several actors work on shared state, the TLC configurations that check
them on small instances, and TLAPS proofs of the results that should hold on
every instance.

Paths in this file are relative to the repository root (`src/` in
`PROJECT.json`).

1. [The system](#1-the-system)
2. [Modules and the code they model](#2-modules-and-the-code-they-model)
3. [Runs](#3-runs)
4. [Fairness](#4-fairness)
5. [Proofs](#5-proofs)
6. [Where code and words disagree](#6-where-code-and-words-disagree)
7. [What is only model-checked, and what is not modelled](#7-limits)
8. [Plan](#8-plan)

## 1. The system

### 1.1 How the parts interact

    device ──event/heartbeat/report/response──► zenoh handlers ──► applications
                                                                 (backend-core)
    device ◄──delta, command────────────────── publisher ◄──┐        │
                                                            │        ▼ transactions
    operator ──HTTP──► applications ────────────────────────┼──► Turso / PostgreSQL
                                                            │        │
                       outbox workers ◄──claim, settle──────┼────────┘
                            │ deliver                       │
                            └── alerts, webhooks, commands ─┘

    every process also runs, under one supervisor: rule snapshot loop, offline
    sweep, command timeout sweep, alert and cooldown retention, metric
    retention; on an edge host also the Thread border router and its advertiser

- *Ingest.* A handler decodes a message, prepares a context (clock, rule
  snapshot) and calls one repository transaction. For events and status
  changes this transaction also evaluates the rules and inserts the actions
  they ask for into the outbox, so that an observation and its actions commit
  together.
- *Delivery.* Workers of every process claim outbox rows in batches under a
  lease, perform the action (alert, webhook, command), and settle the row.
- *Commands down, reports up.* Deployments and desired state reach a device
  as shadow deltas, commands on their own topic. Nothing is acknowledged on
  the bus; a message may be late, repeated or lost.
- *Processes.* Any number of backend processes share a PostgreSQL database.
  They share nothing else: rule definitions are cached per process, clocks and
  configuration can differ during a rolling change.

### 1.2 Components

| Component | State | Operations | What is hard | What makes it correct |
| --- | --- | --- | --- | --- |
| Outbox (`backend-turso/src/outbox.rs`, `backend-postgres/src/outbox_sql.rs`, `rule_engine/actions.rs`) | rows with status, attempts, lease, token | enqueue, claim batch, deliver, mark succeeded / failed, replay | crash after the effect, expired leases, two workers on one row, busy tenants | one live claim per row, stale workers change nothing, bounded attempts, every row settles |
| Firmware and shadows (`backend-turso/src/firmware.rs`, `shadows.rs`, `backend-core/src/shadows.rs`) | deployments, desired / reported / delta, version | trigger, report (two transactions), reset, edit, delete firmware | late and repeated reports, supersession in the middle of a report | one live deployment, the newest; the command in the shadow is that deployment's |
| Native client update (`clients/rust/sdk/src/native_ota.rs`, `runtime/src/lib.rs`) | executable, backup, journal, client, watchdogs | download, install, boot, confirm, roll back | crash or power loss between any two writes, watchdog against confirmation | always a way back to a proven image; success only when proven |
| Rules, alerts, cooldowns (`rule-engine/src/evaluate.rs`, `backend-turso/src/alerts.rs`, `rule_runtime.rs`) | alerts, action receipts, cooldowns, enabled rules | evaluate, create, resolve, acknowledge, reactivate, prune | decision, commit and delivery are three moments; delivery repeats | one open alert per rule and device, no resurrection, quiet period kept |
| Rule snapshots (`backend/src/rule_snapshots.rs`) | snapshot, last success, pending invalidation | notify, tick, load, publish | slow and failing reloads, changes made elsewhere | ready means fresh; every change arrives |
| Device status (`device_ingress.rs`, `background.rs`) | status, last seen | heartbeat, offline sweep | optimistic retries against the sweep, heartbeats out of order | every change is evaluated; only silent devices go offline |
| Metric history (`backend-turso/src/events.rs`, `analytics.rs`, `backend-core/src/analytics.rs`) | receipts, samples, hourly rollups, two watermarks | record, prune, aggregate, list | redelivery after pruning, late events, ranges cut by retention | counted at most once; an accepted range is answered in full |
| Commands (`backend-core/src/application/commands.rs`) | command rows | send, deliver from the outbox, respond, time out | two deliveries of one id, publication failing after the insert, late answers | outcome final, success means published, every command ends |
| Geofence rules (`rule-engine/src/evaluate.rs`, `rule_runtime.rs`) | zone entry rows | move an entry, decide on dwell and exit | positions commit out of order; the quiet period hides a decision and not the move | an alert stands for a stay, or an exit, that took place |
| Firmware objects (`backend-core/src/application/firmware.rs`, both `firmware.rs` adapters) | objects, metadata rows, links held by devices | upload, compensate, delete, download | two stores without a common transaction; ids given out again | what was reported as stored is stored; a link serves its own image |
| Identity (`users.rs` and `roles.rs` of both adapters, `application/users.rs`) | users, roles, epochs and versions, tokens | create, change, delete, assign, change password, log in | concurrent transactions between row locks; reused ids | an owner remains; an accepted token describes the present user; every change ends |
| Worker supervisor (`backend/src/app/workers.rs`, `http.rs`, `service.rs`) | workers, readiness, cancellation, connections | exit, cancel, abort, join, drain, checkpoint | a worker that ends first, tasks aborted and not joined | a dead worker ends the process; the checkpoint comes last |
| OpenThread runtime (`openthread-runtime/src/runtime.rs`, `controller.rs`, `process.rs`) | settings, router process, scan state, generation | select a radio, refresh, change the network, scan, advertise | configuration read before the lock, scans without a lock | the router follows the selection; scans and the advertised address are of the present mesh |
| Provisioning and blueprints | documents, revisions, assignments | create, publish, assign | | not modelled, see the [plan](#8-plan) |
| HTTP API, CLI, build tasks, frontend, mobile app, C / Arduino / ESP32 clients, certificates, contract compiler, rate limiter, maintenance, logs and read models | | | | not modelled, see [section 7](#7-limits) |

The hazards of each part, with the line where they bite and the properties
that watch them, are in `PROJECT.json` under `hazards`.

## 2. Modules and the code they model

`PROJECT.json` maps every definition to its lines. A definition whose
comment begins with "Mutant" is a deliberately wrong variant of one that follows
it; no action uses it. `PROJECT.json` pairs it with a property that fails when
it takes the other's place, which shows that the property says something.

    OutboxLedger ◄──implements── Outbox ◄── OutboxProofs
    Shadow ◄── OtaServer
    OtaServer, NativeOta ◄── OtaSystem
    OtaServer, NativeOta, FirmwareStore ◄── MCOtaSides
    OtaSystem, FirmwareStore ◄── OtaProofs
    RuleAlerts ◄── Geofence
    RuleAlerts ◄── DeviceStatus
    Geofence, DeviceStatus ◄── RuleAlertsProofs
    RuleSnapshots, ThreadRuntime, WorkerSupervisor ◄── MCBackground, BackgroundProofs
    MetricHistory ◄── MetricHistoryProofs
    Commands ◄── CommandsProofs
    Identity ◄── IdentityProofs
    FiniteSums ◄── OutboxProofs, MetricHistoryProofs

(arrows read "is extended by" unless labelled). An `MC…` module gives values to
constants for TLC. Three of them hold several parts that share no state and
would be separate runs otherwise: `MCOtaSides` (`side`: backend, device, store),
`MCRuleAlerts` (`kind`: telemetry, geofence) and `MCBackground` (`part`:
snapshots, thread, advertiser, supervisor). The choice is made in the initial
state and never changes; the parts that were not chosen stay in their initial
states, where their invariants hold trivially, and the one that was chosen
takes the steps of its own specification. (The Thread runtime is taken twice: with
its scans and no advertiser, and with the advertiser and scans that find nothing;
neither looks at the other.) A temporal property is conditional on its part.

### Outbox, OutboxLedger

`outbox[i]` is the row with id `i`; `held[w]` are the claimed events in the
memory of worker `w`, with the copy of the row they were claimed with.
`Enqueue` is the insert of an ingress transaction under the partial unique
index, `ClaimBatch` the whole claim transaction (burying leases that expired
on their last attempt, then stamping a batch), `Deliver` the external effect,
`MarkSucceeded` / `MarkFailed` the two conditional updates, `MarkLost` a
settlement that failed or a task that panicked, `Crash` a worker that stops
with claims in hand, `Replay` the operator's call. The effect of a failed
delivery may have happened (a webhook that answers late): the `effect`
parameter. `SkipLocked` chooses between PostgreSQL, where a claim passes over
rows that others have locked, and Turso, where claims are serialised.
`delivered` and `replays` are history.

`OutboxLedger` is what the rest of the system relies on: entries that are
opened once per action, granted to one owner at a time under a fresh token, at
most `Budget` times, and closed by their owner. `ImplementsLedger` says that
the table with its leases and workers is such a ledger. `RuleAlerts` and
`Commands` use the outbox through this contract only.

### Shadow, OtaServer

`Shadow` holds the JSON algebra of `backend-core/src/shadows.rs`: merge with
null as deletion, delta, patches with their version increment, removal of an
OTA command. Objects are functions on small sets of keys. `OtaServer` is the
backend for one device. A device report is two transactions (`ReportShadow`,
then `ReportOta` or `ReportOtaLost`), with anything in between. `cascades` is
chosen once: PostgreSQL deletes the deployments of a deleted firmware, Turso
refuses the deletion.

### NativeOta, OtaSystem

`exe`, `backup` and `journal` are the three files, each replaced atomically
(write, sync, rename); every write is its own action, with `Crash` and
`PowerLoss` between any two. `client` is the process and its stage,
`watchdogs` the sleeping rollback processes, `undoing` the one that holds the
lock between its two writes. An image is its own digest. The waits of 30 and
120 seconds are waits of arbitrary length, so every race between confirmation
and watchdog is there. `OtaSystem` joins this device with `OtaServer`: deltas
and reports are sets of messages that may be received in any order, repeatedly
or never.

### FirmwareStore

An upload is three calls (`Put`, `CreateRow` or `CreateFails`, `Compensate`), a
deletion two (`DeleteRow`, `DeleteObject`), a download two (`ReadRow`,
`ReadObject`); between any two of them the request may die, another may run, or
the process may restart with another object store (`Restart`). `CreateFails`
covers the insertion that committed and whose answer was lost, so that the
compensation removes the bytes of a row that exists; such a row was never
reported as stored. `Deploy` gives a device a link, which names an id. Turso
hands out ids of deleted rows again but refuses to delete a deployed row;
PostgreSQL cascades but never repeats an id. The links are sound for a
different reason on each.

### RuleAlerts, Geofence, DeviceStatus, RuleSnapshots

`Prepare` takes a clock reading and the rules of the process's snapshot;
`Record` is the transaction that evaluates against the alerts and cooldowns of
that later moment and queues actions; `DeliverCreate` and `DeliverResolve`
execute them later still, at least once, also by workers whose claim was
superseded. An observation is, for each rule, a met condition, an unmet one or
a missing field. `Transition` is the operator's acknowledge, resolve or
reactivate on one alert or on many. `PruneAlerts` and `PruneCooldowns` are the
retention jobs.

`Geofence` extends it with positions. `Verdicts` computes what the rules see
from the entry row; `Moved` is the new entry, which `RecordPosition` writes in
the same transaction, also when the decision is suppressed by the cooldown. A
position is inside, outside or missing; the geometry is left out. `last` and
`left` are history: what was evaluated last, and the latest time outside.

`DeviceStatus` extends it with the heartbeat (read, then optimistic write with
`Retries` attempts) and the two-step offline sweep; both evaluate the rules
in the transaction that changes the status. A heartbeat stores its own time as
`last_seen`, also when a later one is there. `heard` is history: the newest
heartbeat that was applied.

`RuleSnapshots` has one reload loop per process, woken by a tick or by the
notification of a local change, with slow and failing loads. Definitions are a
version number.

### MetricHistory

One device field. `Record` is the ingest transaction: refuse what lies before
the rollup watermark, refuse a known receipt, insert receipt and sample, fold
into the hour's rollup. `StartPrune` and `PruneMetrics` separate the reading of
clock and configuration from the transaction. The two reads are operators:
`Observations` and `Buckets` build an aggregated answer from full hours and
raw edges, `RangeRetained` and `ListRetained` are the checks that refuse a
range; the properties quantify over every range, bucket width and stale query
clock. A listing is what is read before its `LIMIT`. `applied` is history.

### Commands

Every database call and publication of `send` and `deliver_action` is a step.
`AfterFind` is the decision taken on the row a delivery found. Responses are a
set of messages. Time is the age of a command, so no clock bound is needed;
`MaxLag` is how far the clock reading of a sweep may lie behind its update.

### Identity

A change is a transaction of steps: on PostgreSQL each step takes one row lock
and reads what it needs, and its last one checks and writes; on Turso a change
is authorised first and then waits for the writer. Users, the tenant's roles and
the table lock of the seeding are rows that can be locked. The update of a role
finds the users that hold it and then locks them one by one in any order
(`ReadHolders`, `LockHolder`), as `roles.rs` does with an `UPDATE` that has no
order, so that updates of two roles with common holders can wait for each other;
the database then ends one of them (`DeadlockVictim`), which the request reports
as an internal error and does not retry. Tokens carry user id, permission version
and epoch, as the code signs them, and for the property also the password and
permissions they were issued under. A login reads the credentials, verifies
them outside any transaction and issues the token from what it read. `leaked`
records a foreign-key error.

### ThreadRuntime

Callers are threads: the scanner that refreshes every few seconds and HTTP
requests. `RefreshBegins` reads the configuration, the lifecycle lock comes
after it, as in the code. The steps under the lock are the branches of
`refresh`: healthy, degraded, given up, stopped, waiting for a radio or for the
backoff, started, failed to start. Without a selection the router takes the only
radio there is, or the only verified one (`Target`). Operations on the mesh hold the lock shared.
A scan runs outside the scan lock; `InvalidateScan` advances the generation it
is compared with. The advertiser reads generation and address in two steps, and
gives up for this generation when the address cannot be read or the listener is
refused (`AdvertGivesUp`). The
radio, the agent process and its controls are external and fail `MaxFaults`
times.

### WorkerSupervisor

Workers, the monitor, the HTTP server from binding its socket to draining a
connection, and the service around them, each at its await points. Two workers
have tasks of their own (`Spawners`): the subscriber its message handlers, the
outbox worker its deliveries. Both keep them in a private `JoinSet`, which aborts
them when the worker is dropped and does not wait for them, so one that is being
polled runs on to its next await and may write after the checkpoint; the property
allows exactly that. `unsaved` says who has written since the last checkpoint,
which only Turso makes.

## 3. Runs

Distinct states are those TLC finds; every run explores its whole state space.

| Run | Instance | Checks | Distinct states |
| --- | --- | --- | --- |
| `outbox_safety` | 2 rows of one action, 2 workers, 2 attempts, lease 2, clock to 5, 1 replay, rows locked by others skipped | `KeyExclusive`, `ClaimsFenced`, `DeliveryBudget`, `LeaseExclusive`, `ImplementsLedger` | 227 k |
| `outbox_live` | 3 rows of 2 tenants, one undecodable, 1 worker, 2 attempts, batch of 2, sliding clock | `TenantShare`, `EventuallySettled` | 514 k |
| `ota_sides` | *backend*: 2 firmwares, 2 deployments, 1 ordinary key, version limit 5, 2 reports between their transactions, either database; *device*: 3 attempts on 2 images, one of which does not start, 2 crashes, 1 power failure; *store*: 2 uploads, 2 object stores, 2 requests, either database | `OnlyNewestLive`, `CommandIsLive`, `CommandKeptWhileLive`; `AlwaysRecoverable`, `SuccessWasConfirmed`, `ConfirmedNotUndone`, `DeviceRecovers`; `ReportedIsStored`, `LinkServesItsImage` | 1.7 M |
| `native_ota_rpi` | the unit the Raspberry Pi script installs | `ComesBack`, violated | |
| `ota_system` | backend and device, 2 deployments, 1 crash | `OutcomeTruthful` | 1.7 M |
| `alerts` | 1 rule, 2 ingestion tasks, 2 actions, cooldown 2, operators, toggles; telemetry with the clock to 5, geofence (entering or leaving, dwell 2) with the clock to 4 | `OneOpenAlert`, `QuietPeriodKept`, `NoResurrection`, `ZoneAlertsDeserved` | 3.1 M |
| `background` | *snapshots*: 1 process, 2 changes, interval 2; *thread* and *advertiser*: 2 radios, one of them verified, the scanner and 1 request, 1 fault; *supervisor*: 3 workers, 2 of them with a task, 1 connection | `ReadyMeansFresh`, `ChangesReachEveryProcess`; `ScanIsOfTheNetwork`, `AdvertisedAddressCurrent`, `RouterFollowsSelection`, `ScansAreAnswered`; `EndsQuietly`, `WorkerExitEndsProcess` | 404 k |
| `identity` | 3 user ids, 4 roles, 2 handlers, either database; 3 changes from an empty database, 2 in a tenant that is set up | `SessionCurrent`, `OwnerRemains`, `EveryChangeEnds` | 469 k |
| `status_races` | 1 rule, 2 heartbeat tasks and the sweep, 2 tries each, timeout 2, clock to 4 | `StatusEvaluated`, `OnlySilentGoOffline` | 2.8 M |
| `status_recovery` | 1 heartbeat task and the sweep, clock to 4 | `RecoveryResolves`, violated | |
| `metric_history` | 2 events, 3 retention settings (one refused), hours of 2 ticks, clock to 6, bucket widths of half an hour and two hours, 2 prunes in flight | `CountedOnce`, `AnswersComplete`, `ListsComplete` | 275 k |
| `commands` | 1 user command, 1 rule command, 2 delivery tasks, 2 attempts | `SucceededWasPublished`, `OutcomeFinal`, `EveryCommandEnds` | 357 k |

All set `CHECK_DEADLOCK FALSE`: with the clock at its bound and all inputs used
up these models stop, which the system does not do; the supervised process may
really end. Type invariants are not listed as results: those of Outbox, Commands
and MetricHistory are part of the inductive invariants that are proved.

What the less obvious properties say, and why the bounds suffice:

- *Outbox.* Two rows of the same action are what the unique index, the replay
  and the ledger have to cope with, two workers and a lease that runs out
  before the clock's bound are what fencing is about, and two attempts have a
  first, a last and an expired last. `TenantShare` needs three rows: two of a
  busy tenant and one of another. In `outbox_live` the clock does not stop:
  at its bound every timestamp slides one tick into the past (`SlideWindow`).
  Leases and backoffs compare differences, which it keeps up to the length of
  the window; rows older than the window are claimed by id, no longer by age.
- *OTA.* Two deployments give one superseded and one running; reports carry any
  status, also unknown ones, for either deployment and either firmware. The
  version limit is the `i32` bound of the code, reached in the run: at it every
  change of the shadow fails. A third attempt of the device deploys an
  earlier image again, the case in which a watchdog of an older attempt finds
  the image it knows.
- *Alerts.* The code deletes cooldown rows after 24 hours and accepts cooldowns
  up to 86,400 s. Nothing orders the deletion and an observation that still waits
  for its transaction, so near that limit one can fire early. `QuietPeriodKept`
  is therefore stated for every cooldown, and promises the quiet period up to
  `CooldownRetention - MaxLag` after its start; a shorter cooldown is kept in
  full. A rule with cooldown 0 has none (`InCooldown`). The clock bound leaves time for a firing, a prune and an observation that straddles it.
- *Geofences.* `ZoneAlertsDeserved` cannot ask for the full dwell time since the
  last position outside: positions commit out of order, so an entry can be up to
  `MaxLag` older than a position outside that committed before it. It asks for
  the dwell time less that lag, and of an exit that the last evaluated position
  was inside. A rule that skipped moving its entry during the quiet period, the
  mutant, would alert on a stay that ended long ago.
- *Firmware objects.* Two uploads and two requests are what it takes to reuse an
  id, to delete beside an upload and to read a row while its object goes; the
  same run with three uploads also passes.
- *Status.* A heartbeat that commits late turns `last_seen` back by at most
  `MaxLag`, so `OnlySilentGoOffline` measures from `heard`, the newest heartbeat
  applied, and asks for the timeout less that lag. The full timeout is not kept
  ([section 6](#6-where-code-and-words-disagree)).
- *Identity.* Three users are two owners to be removed at once and a third who
  does not count, or an owner and two who hold both custom roles; two handlers are
  enough for every order of two lock requests. A tenant with two owners, or with
  two custom roles held by two users, takes more changes than can be explored from
  the start, so behaviours also begin there (`SetUp`). `EveryChangeEnds` is where
  a wrong lock order would show: updates of two roles with common holders are
  caught in a deadlock, and are the only changes that are; each then ends as the
  victim or as the survivor. Its two mutants take the locks of an assignment's
  roles exclusively, which deadlocks, and not at all, which leaks a foreign-key
  error.
- *Background.* One process is enough for the snapshots because a change made
  elsewhere is `CommitSilently`. Two radios make a selection that differs from
  what runs; one fault is a radio unplugged, an agent that ends or a failing
  control at any point. Three workers are those with a role of their own (the
  store monitor that sets its own readiness, the subscriber and the outbox worker
  with their tasks); the others only write and end, as these do too.
- *Metric history.* Retention settings have to leave two hours between the raw
  and the rollup watermark, or the check on the end edge of a range is never
  the deciding one; clock 6 with hours of 2 does. The third setting is one that
  `retention_cutoffs` refuses.
- *Commands.* `SucceededWasPublished` allows for a command that timed out
  before it could be published: `deliver_action` then reports success to the
  outbox on purpose. Two attempts are enough for "inserted, not published, tried
  again"; two tasks for a worker that lost its lease beside its successor.

Every property is paired with a mutant of a mapped definition (a dropped guard,
a missing reset, a lock that is not respected) under which TLC refutes it.

## 4. Fairness

- `outbox_live`: weak fairness of the clock, of an idle worker's claim, and of
  delivering and settling what a worker holds. `run_rule_action_outbox_worker`
  loops without end, polls at an interval and joins its tasks; webhooks have a
  timeout of 10 seconds. Crashes are not excluded, but each claim uses up an
  attempt.
- `ota_sides`, device: weak fairness of the supervisor's restart, of the client's
  own steps and of the watchdog. The restart is what a `Restart=always` unit or
  a KeepAlive agent does, and the documentation requires it; `native_ota_rpi`
  drops it for successful exits. The number of crashes is bounded.
- `background`, snapshots: weak fairness of time, of waking and of publishing,
  which the `select!` loop gives, and strong fairness of a successful load: the
  database does not fail every reload for ever. Thread: weak fairness of every
  caller's next step, of the end of a scan (the controller's commands have
  timeouts) and of the backoff's passing; faults are bounded, the scanner never
  stops refreshing. Supervisor: weak fairness of the tasks, which the runtime
  polls (binding the socket included, unless it fails), and of the end of an open connection: the code drains without a limit,
  so this one is assumed of clients.
- `identity`: weak fairness of each transaction's next step, whenever its lock
  is free, and of PostgreSQL's deadlock detection, which runs after a second of
  waiting. Nothing is assumed of who gets a lock first or who is the victim.
- `commands`: weak fairness of time and of the timeout sweep
  (`run_command_timeout_checker` never ends). Nothing is assumed of devices,
  workers or publications.

## 5. Proofs

TLAPS proves every safety property that the runs check: all invariants, all
action properties and the refinement. What it proves holds for every value of
the constants that satisfies the modules' assumptions (which TLC evaluates on
each run). Liveness is model-checked only.

Where an invariant is not inductive, the proof module (or, for Outbox and
MetricHistory, the component itself) defines the stronger one that is.

**OutboxProofs.** For any number of rows, workers and tenants:

- `TypeCorrect`, `ClaimsAreFenced` (`ClaimsFenced`), `OneActiveRowPerKey`
  (`KeyExclusive`), `LiveLeaseIsExclusive` (`LeaseExclusive`),
  `DeliveriesWithinBudget` (`DeliveryBudget`),
- `RefinesLedger` (`ImplementsLedger`): initial states map to initial states,
  every step to a ledger step or a stutter.

`ClaimsFenced` is not inductive by itself. The invariant is `IndInv`: types,
*a row is locked exactly while it is processing, by a token already issued*
(`LockedIffProcessing`), *a claim either matches its row as it was handed out
or not at all* (`ClaimsFenced`), and *attempts stay within the budget*
(`AttemptsBounded`). A claim takes a token larger than all issued so far, so no
earlier claim can match afterwards; a settlement clears the token, which the
lock invariant turns into "no claim matches". `DeliveriesWithinBudget` (`DeliveryBudget`) needs the tokens in workers'
hands as well as those already used (`ChancesPaid`): a claim adds one to them and
one to the attempts, a delivery moves a token from the one to the other, a
replay resets the attempts and grants a full allowance. `KeyExclusive` is inductive on
top of it, since only `Enqueue` and `Replay` make a row active and both pass the
index. `LeaseExclusive` follows because only an expired or the owner's own
processing row changes. The refinement needs `AttemptsBounded` for "grants left"
and the lock invariant for "an owner exists".

`TenantsShareBatches` (`TenantShare`) is for Turso (`~SkipLocked`), where a claim
meets no locked row. A batch is a prefix of the available rows in the order of
their rank within their tenant, then age (`BatchIsPrefix`). If a second row of one
tenant is in it, so is every row of rank zero, and a tenant with a row available
has one (`FirstOfTenant`). The existence of that first row is the least-number
principle on the ranks, which are numbers since the ids are finite: the assumption
`IsFiniteSet(Ids)`, true of UUIDs.

**MetricHistoryProofs.** For any number of events, deliveries and prunes, any
retention settings, any bucket widths that are part of an hour or whole hours,
and any order: `NeverCountedTwice` (`CountedOnce`), `ListingsHaveNoGap`
(`ListsComplete`) and `AnswersAreComplete` (`AnswersComplete`). The invariant
`IInv` says:

- `ReceiptsCover`: an event that was counted and that the rollup watermark would
  still accept has its receipt;
- `SamplesExact`: the raw store holds recorded events only, and all from the raw
  watermark on;
- `WatermarksOnTheHour`: the rollup watermark, and every cutoff that a prune has
  computed and not yet used, is a full hour;
- `RollupsExact`: an hourly row has the count, sum, extremes and latest value of
  *every* event ever recorded in its hour, pruned or not, and from the watermark on
  no hour with an event lacks its row.

They survive a prune because watermarks only grow: the code takes the larger of the
stored and the new one. With the watermark simply replaced, an old prune would let
a deleted receipt's event in again; the proof then fails at that step, and TLC
refutes the mutant. `RollupsExact` survives `record` because the watermark is a full
hour: an event that is accepted lies in an hour that is not pruned, so if the hour
has no row it had no event, and the new row is that of one event
(`RecordRollups`).

The answer of a query is then compared with the aggregate of all recorded events
of its range without computing either. A *breakdown* of a set of events is a set of
rows, each of which aggregates its own part of it. Two breakdowns of the same
events have the same buckets (`SameBuckets`): sums may be taken group by group, an
extreme of extremes is the extreme, and the row with the newest event reports it,
ids being unique. The rows that `query` reads are a breakdown (`AcceptedIsDivided`,
`DividedBreakdown`): an event between the first and the last full hour is in exactly
one hourly row, one at the edges is a sample, and this is what the three conditions
of `RangeRetained` are for. Hours and buckets fit since a wide bucket is a multiple
of the hour (`BucketOfHour`).

**FiniteSums.** Sums over finite sets and the induction they need. The induction
theorems of the library take an operator as parameter, so the module states
them with a *set* of good values instead, from the well-foundedness of the natural
numbers: `LeastNumber`, `NumberInduction`, `SubsetInduction`. With these
`SumFunctionOnSet` of the community module is shown to satisfy the laws of a sum
(`SumAdd`, `SumUnion`, `SumGroups`), although its definition removes elements in an
order nobody knows.

**CommandsProofs.** For any number of commands, delivery tasks and attempts:
`DeliveredCommandsWerePublished` (`SucceededWasPublished`) and
`OutcomesAreFinal` (`OutcomeFinal`). The invariant: *only published commands
are answered*, *a command the device reported on was published*, *a delivery
about to report success has nothing left to publish*, and *a user's command has
no row before it is recorded*.

**OtaProofs.** The backend, for any number of deployments, images and shadow keys,
on either database: `OneDeploymentUnderWay` (`OnlyNewestLive`), `NoStaleCommand`
(`CommandIsLive`) and `CommandsAreKept` (`CommandKeptWhileLive`). The two
invariants are inductive together with *no row at or beyond the id sequence*.
Lemmas on `Merge` carry the rest: a patch without the key `ota` keeps the
command, one with it replaces the command, clearing removes exactly the command
of its deployment, reported state does not matter.

The device, for any images, attempts, crashes and power failures: `WayBack`
(`AlwaysRecoverable`), `SuccessIsConfirmed` (`SuccessWasConfirmed`) and
`ConfirmedStays` (`ConfirmedNotUndone`). The invariant says stage by stage which
files agree: once the executable is being replaced the backup holds what it
replaces and that had proved itself (`Written`, `ProvedBefore`), what the journal
says of an attempt is true (`JournalTruthful`), and client and watchdog are not both
in the critical section (`LockHeld`).

The two together, over messages that are lost, repeated and reordered:
`OutcomesAreTrue` (`OutcomeTruthful`), since every report under way is true of its
attempt, and `PartsKeepTheirPromises`: each side keeps its own invariants in the
composition, where the other side chooses its inputs.

The images, for any number of uploads, requests and object stores, on either
database: `ReportedStaysStored` (`ReportedIsStored`) and `LinksAreFaithful`
(`LinkServesItsImage`). `StoreInv`: *keys are allocated once*, *no two rows share a
key*, *an upload that has stored its object is alone with it*, *what is compensated
was never reported*, *what a deletion removes no row names any more*. `LinkInv`
adds why an id with a link is not given out again: a deployed row stays (Turso) or
the sequence is beyond it (PostgreSQL).

**RuleAlertsProofs.** For any number of rules, actions and ingestion tasks and
any cooldown, retention, lag and dwell time: `OneOpenAlertHolds`
(`OneOpenAlert`), `NoResurrectionHolds` (`NoResurrection`), `QuietPeriodHolds`
(`QuietPeriodKept`), `ZoneAlertsAreDeserved` (`ZoneAlertsDeserved`); for device
status, with any timeout, `StatusIsEvaluated` (`StatusEvaluated`),
`OnlyTheSilentGoOffline` (`OnlySilentGoOffline`) and `OneOpenStatusAlert`
(`OneOpenAlert` of the status rules).
`AlertInv` says that two open alerts of one rule are the same, and a lemma turns
this into a cardinality. `TimeInv` bounds the age of an observation by `MaxLag`.
`QuietInv` says what became of a quiet period: it is in the cooldown table, or
retention has removed a row that started more than `CooldownRetention` ago, which
an observation under way, at most `MaxLag` old, does not meet in the part of the
period that is promised. `ZoneInv` says that an
entry is at most `MaxLag` older than the last position outside. `StatusEvaluated`
is inductive: heartbeat and sweep evaluate in the transaction that changes the
status, and the optimistic check keeps out the one that read an older status.
`OnlySilentGoOffline` needs that a sweep's cutoff lies a timeout before a time that
has passed, and that `last_seen` is at most `MaxLag` older than `heard`: a
heartbeat is prepared at most `MaxLag` before it commits, and no heartbeat that was
applied before is newer than that commit.

**IdentityProofs.** For any users, roles, handlers and logins, on either database:
`AcceptedSessionIsCurrent` (`SessionCurrent`), `AnOwnerRemains` (`OwnerRemains`) and
`AssignmentsAreComplete` (no assignment ends in a foreign-key error, the safety half
of `EveryChangeEnds`). One invariant, `IdentityInv`, in three parts:

- *the tables*: an epoch is given out once and a version only grows while its epoch
  lasts, so what a login read is the present state or one that was left for good
  (`LoginsCurrent`); whoever holds a role holds one that exists; after the first
  seed there is an owner;
- *the changes*: what a transaction found, it found under a lock that it still
  holds, so it is still so when the transaction writes (`UserFound`, `OwnerSpared`,
  `RolesFound`, `RoleHeld`, `HoldersFound`). The count of owners is safe since every change that
  could remove one holds the owner role exclusively from its first step on;
- *the locks*: two changes hold the same row only when both hold it shared.

**BackgroundProofs.** For any number of processes and changes and any interval:
`ReadyIsFresh` (`ReadyMeansFresh`). `FreshInv` speaks of the reload in progress too:
what it has read contains every change older than its start, and publishing hands
that over together with the start.

For any set of workers: `ShutdownIsQuiet` (`EndsQuietly`). `QuietInv`: *a server
that is down has no connection*, *a monitor that has ended has joined every worker*,
*the service stops after the server and checkpoints after the monitor*, so that none
of them is left to write; and *a write after the checkpoint is one of a task that
was aborted with its worker* (`TasksDropped`, `CheckpointLast`).

For any number of callers, radios and faults: `ScansAreOfTheNetwork`
(`ScanIsOfTheNetwork`) and `AdvertisedAddressIsCurrent`
(`AdvertisedAddressCurrent`). `RuntimeInv` says the same of the scan and the
registration that are under way, whenever no thread still owes the note that it has
changed the network: a scan begun before the change carries the old generation, an
address read before it is superseded by the note.

Proved from the assumptions on the constants only, each named in the module that
declares them. Bounds such as `MaxTime` or `MaxReplays` are arbitrary natural
numbers in the proofs, so they limit nothing.

## 6. Where code and words disagree

Each of the first two is a run that TLC must refute.

1. `native_ota_rpi`. `clients/rust/rpi/provision.sh:80` writes a unit with
   `Restart=on-failure`. The client leaves with code 0 after an installation and
   relies on `Restart=always` (`clients/rust/runtime/src/lib.rs:719`,
   `docs/architecture/ota.md:31`). It stays down; the watchdog then restores
   the previous image, which nobody starts.
2. `status_recovery`. A device that comes back before its offline alert is
   delivered keeps the alert: the recovery resolves only alerts that already
   exist (`crates/rule-engine/src/evaluate.rs:542`), the delivery then creates
   one, and heartbeats that keep the status are not evaluated.
3. Silence. A heartbeat's update sets `last_seen` to its own time, also
   when a later one is stored (`crates/backend-turso/src/device_ingress.rs:114`),
   so a heartbeat that commits late turns it back and the sweep marks a device
   offline that was heard within the timeout. `.env.example:28` calls it "Seconds
   without a heartbeat before a device is marked offline". With the handlers of
   one process the difference is a transaction's wait. `OnlySilentGoOffline` is the
   bound that does hold; with `Timeout` in the place of `Timeout - MaxLag` TLC
   shows the case within seconds.
4. A power failure during a trial. `docs/architecture/ota.md:40` says of a
   candidate that never confirms that the watchdog restores the previous image.
   The watchdog is a child process and `boot` starts no new one, so after a
   power failure between the replacement of the executable and its confirmation
   a candidate that does not start stays. `TrialEnds` and `ComesBack`, of which
   `DeviceRecovers` is made, except this case explicitly; without the exception TLC shows it within seconds.
5. Replaying all dead letters. Two dead letters of one action (an action fired
   again after its first row died) cannot both become active, so a replay
   without ids (`crates/backend-turso/src/outbox.rs:173`) fails as a whole on
   the unique index and replays nothing, whereas
   `docs/design/backend-persistence-contract-inventory.md:320` says that `None`
   means all. `Replay` models the refusal.

Smaller things met on the way, of which no source promises otherwise: an
operator's shadow reset strands a live deployment; a cascading firmware
deletion leaves the shadow's command naming a deleted deployment; an attempt
that was rolled back is installed again when its failure report was lost; the
resolution of an alert is not idempotent, so its retry after a lost settlement
ends as a dead letter; a metric listing without a lower bound is silently
truncated at the raw watermark. Some guards are redundant given the others: the
own-deployment check of `clear_ota_for_deployment`, the maximum in the cooldown
upsert, the check that rollups are kept at least as long as raw samples.

<a id="7-limits"></a>
## 7. What is only model-checked, and what is not modelled

*Model-checked only.* The liveness properties (`EventuallySettled`,
`DeviceRecovers`, `ChangesReachEveryProcess`, `RouterFollowsSelection`,
`ScansAreAnswered`, `WorkerExitEndsProcess`, `EveryCommandEnds` and the leads-to
half of `EveryChangeEnds`), since the prover has no rules for fairness and
`ENABLED`, and the two properties that TLC refutes. That no change but the update
of a role is caught in a deadlock is part of `EveryChangeEnds`: also with TLC only.

*Left out of modelled parts.*

- Outbox: listings, statistics, the wording of errors. All rows have the
  default number of attempts.
- OTA: signature and digest computation (an image is its digest), triggers
  for several devices, which repeat this one. A failing
  file operation fails before its rename; a `sync` that fails after the rename
  is not modelled. A candidate's health check failing is a crash.
- Alerts: displayed values and messages, aggregated conditions,
  deletion of rules and devices. All rules have the same cooldown.
- Geofences: the geometry, the administration of zones. All rules have the same
  dwell time.
- Firmware objects: names, hashes and sizes; a stored object is never damaged.
- Identity: API keys (checked by hash and revoked in one statement), the login
  rate limit, audit entries, password hashing. `is_active` is read at login and
  with every request, and no code clears it: users are active.
- Thread: the texts of control commands, datasets and their encoding,
  commissioning of joiners. `set_rcp_device` writes the settings file and then
  takes the configuration; of two at the same time the file can keep one choice
  and the process the other until it restarts. No property is stated of it.
- Supervisor: what the single workers do. PostgreSQL makes no checkpoint, and a
  statement that runs on a blocking thread there may finish after its task was
  aborted, also one of a worker: `EndsQuietly` is about Turso. The advertiser's withdrawal of its
  record races with `abort_all` on shutdown and may be cut off; nothing promises
  it.
- Status: firmware version and uptime fields.
- Metric history: schema validation, locations, blueprint revisions, series
  with several fields, the `LIMIT` of a listing. The contract check is left out since a device's contract
  is assigned once, at provisioning, and no statement changes it.
- Commands: the conflict check on a durable id that carries another command
  (an id is derived from its action, so it cannot), payload validation.

*Not modelled.* The contract compiler and the geometry of zones (pure functions
on documents and floating-point numbers); certificates (cryptography and
files); HTTP routing, CLI, build tasks, frontend, mobile app (they keep no
state of the system); C, Arduino and ESP32 clients (vendor SDKs with their own
partition rollback); rate limiting (sequential under one lock); migrations and
maintenance (operator-driven); logs, audit, activity, dashboards (append-only
writes and reads).

*Hazards without a property.* The device does not compare the version of a
delta, so that an old one can install a superseded attempt again; a command that
arrives during an installation is dropped; a resolution is not idempotent. These
are in `PROJECT.json` with the reason. Further: the shadow version is an `i32`
with a checked increment, and at its maximum even the removal of a finished
command fails (the runs reach that state); deliveries that refresh an alert's
displayed value carry no order; at the largest cooldown the code accepts, which
equals the retention of cooldown rows, an observation that waits across the
prune can fire early (the bound in `QuietPeriodKept`); a command that timed out
unpublished is taken for delivered; a replay of all dead letters is refused as a
whole when two share a key.

*Extent.* The map covers about 6,600 lines in 64 files. These are the
concurrency- and failure-sensitive paths; most of the rest are routes, data types,
queries, adapters for the second database, tests and clients, which either keep
no state or repeat a modelled transaction for another table. The Turso adapter
is the one translated first; the PostgreSQL adapter is mapped where it behaves
differently (`SkipLocked`, `cascades`, `adapter`, `engine`), and for Identity, whose
row locks only it has, it is the one translated.

## 8. Plan

Done, in this order: Outbox with its ledger and proofs; OtaServer, NativeOta,
OtaSystem; RuleAlerts, RuleSnapshots, DeviceStatus; MetricHistory and Commands
with proofs; Identity; FirmwareStore; Geofence; ThreadRuntime and
WorkerSupervisor; the proofs of OtaServer, FirmwareStore, RuleAlerts with
Geofence, RuleSnapshots and WorkerSupervisor; those of NativeOta and OtaSystem,
DeviceStatus, ThreadRuntime and Identity, of fair batches and of complete answers.

Next modules:

1. *Provisioning*: publication of blueprint revisions and the single assignment
   of a contract, on which MetricHistory relies.
2. *Aggregated conditions* of rules, which read metric history inside the
   evaluation: a composition of RuleAlerts and MetricHistory.
3. *Certificates*: the order of issuance, storage and revocation.

Next proofs:

1. An abstract specification of a token's life (issued, accepted, revoked) that
   Identity implements, and one of a firmware attempt (commanded, installed, on
   trial, confirmed or undone) that OtaSystem implements, as OutboxLedger is for
   Outbox.
2. That only updates of roles are ever caught in a deadlock of Identity's row
   locks: an order on the locks, as an invariant.
