--------------------------- MODULE MetricHistory ---------------------------
(***************************************************************************)
(* The metric history of one device field: ingest of device events with    *)
(* receipts and hourly rollups, hourly retention, and the two reads that   *)
(* are answered from what retention leaves (backend-turso/src/events.rs,   *)
(* backend-turso/src/analytics.rs, backend-core/src/analytics.rs and       *)
(* backend-core/src/application/metric_maintenance.rs).                    *)
(*                                                                         *)
(* An event is delivered any number of times, in any order, with a         *)
(* timestamp the device chose.  An ingest, a prune and a read are          *)
(* transactions; the retention cutoffs and the clock of a read are taken   *)
(* before their transaction.  The contract check is left out (a device's   *)
(* contract is assigned once, at provisioning); RuleAlerts has the rule    *)
(* evaluation of the same transaction.                                     *)
(***************************************************************************)
EXTENDS Integers, FiniteSetsExt, Functions

CONSTANTS
    MaxId,          \* bound: events a device sends
    Values,         \* metric values
    HourLen,        \* clock ticks in an hour
    MaxTime,        \* bound: the clock and the device timestamps
    Retentions,     \* configured <<raw, rollup>> retention, one per process
    BucketLens,     \* bucket widths a read may ask for
    MaxPruners      \* bound: prunes between clock reading and transaction

ASSUME MetricHistoryAssumption ==
    /\ MaxId \in Nat /\ MaxTime \in Nat /\ MaxPruners \in Nat
    /\ HourLen \in Nat \ {0}
    /\ Values \subseteq Int
    /\ Retentions \subseteq Nat \X Nat
    /\ BucketLens \subseteq Nat \ {0}
    \* ALLOWED_BUCKET_SECONDS: the wide buckets are whole hours
    /\ \A b \in BucketLens : b >= HourLen => b % HourLen = 0

VARIABLES
    now,            \* the server clock
    sent,           \* events the device has sent
    receipts,       \* device_event_receipts
    samples,        \* device_events with their metric samples
    rollups,        \* device_metric_rollups_hourly, by bucket_start
    rawSince,       \* raw_retained_since
    rollupSince,    \* rollup_retained_since
    pruning,        \* cutoffs computed by prunes that have not run yet
    applied         \* history: how often each event was recorded

store == <<receipts, samples, rollups, rawSince, rollupSince>>
vars == <<now, sent, store, pruning, applied>>

Ids == 1 .. MaxId
Times == 0 .. MaxTime
Events == [id : Ids, at : Times, value : Values]

\* div_euclid(3_600_000_000) * 3_600_000_000
HourOf(t) == t - (t % HourLen)

Larger(a, b) == IF a > b THEN a ELSE b
Smaller(a, b) == IF a < b THEN a ELSE b

---------------------------------------------------------------------------
(* Ingest *)

Init ==
    /\ now = 0
    /\ sent = {}
    /\ receipts = {}
    /\ samples = {}
    /\ rollups = <<>>
    /\ rawSince = 0
    /\ rollupSince = 0
    /\ pruning = {}
    /\ applied = [i \in Ids |-> 0]

\* The device produces an event; its clock need not agree with the server's.
Send(e) ==
    /\ \A f \in sent : f.id # e.id
    /\ sent' = sent \cup {e}
    /\ UNCHANGED <<now, store, pruning, applied>>

\* What one sample contributes to an aggregate.
SampleRow(e) ==
    [count |-> 1, sum |-> e.value, min |-> e.value, max |-> e.value,
     latest |-> e.value, latestAt |-> e.at, latestId |-> e.id]

Later(r, q) ==
    \/ r.latestAt > q.latestAt
    \/ r.latestAt = q.latestAt /\ r.latestId > q.latestId

\* ON CONFLICT DO UPDATE of the hourly row
Merged(old, new) ==
    [count |-> old.count + 1,
     sum |-> old.sum + new.sum,
     min |-> Smaller(old.min, new.min),
     max |-> Larger(old.max, new.max),
     latest |-> IF Later(new, old) THEN new.latest ELSE old.latest,
     latestAt |-> Larger(old.latestAt, new.latestAt),
     latestId |-> IF Later(new, old) THEN new.latestId ELSE old.latestId]

RolledUp(e) ==
    LET hour == HourOf(e.at)
        row == IF hour \in DOMAIN rollups
               THEN Merged(rollups[hour], SampleRow(e))
               ELSE SampleRow(e)
    IN  [h \in DOMAIN rollups \cup {hour} |-> IF h = hour THEN row ELSE rollups[h]]

Retained(e) == e.at >= rollupSince

\* A receipt with this id: ON CONFLICT (id) DO NOTHING inserts no row.
Duplicate(e) == \E r \in receipts : r.id = e.id

\* One delivery that is recorded.  A delivery of an expired event and a
\* duplicate delivery roll back and change nothing.
Record(e) ==
    /\ Retained(e)
    /\ ~Duplicate(e)
    /\ receipts' = receipts \cup {[id |-> e.id, at |-> e.at]}
    /\ samples' = samples \cup {e}
    /\ rollups' = RolledUp(e)
    /\ applied' = [applied EXCEPT ![e.id] = @ + 1]
    /\ UNCHANGED <<now, sent, rawSince, rollupSince, pruning>>

---------------------------------------------------------------------------
(* Retention *)

ValidRetention(ret) == ret[1] # 0 /\ ret[2] >= ret[1]

\* retention_cutoffs: each period counts back from now, floored to the hour.
Cutoffs(ret) ==
    [raw |-> HourOf(now - ret[1]), rollup |-> HourOf(now - ret[2])]

\* The hourly loop of a process reads the clock; the writer lock comes later.
StartPrune(ret) ==
    /\ Cardinality(pruning) < MaxPruners
    /\ ValidRetention(ret)
    /\ pruning' = pruning \cup {Cutoffs(ret)}
    /\ UNCHANGED <<now, sent, store, applied>>

\* Mutants: the cutoff computed last replaces the watermark
RawWatermarkReplaced(c) == c.raw
RollupWatermarkReplaced(c) == c.rollup

RawWatermark(c) == Larger(rawSince, c.raw)
RollupWatermark(c) == Larger(rollupSince, c.rollup)

PruneMetrics(c) ==
    /\ rawSince' = RawWatermark(c)
    /\ rollupSince' = RollupWatermark(c)
    /\ samples' = {e \in samples : e.at >= rawSince'}
    /\ rollups' = Restrict(rollups, {h \in DOMAIN rollups : h >= rollupSince'})
    /\ receipts' = {r \in receipts : r.at >= rollupSince'}
    /\ pruning' = pruning \ {c}
    /\ UNCHANGED <<now, sent, applied>>

Tick ==
    /\ now < MaxTime
    /\ now' = now + 1
    /\ UNCHANGED <<sent, store, pruning, applied>>

Next ==
    \/ \E e \in Events : Send(e)
    \/ \E e \in sent : Record(e)
    \/ \E ret \in Retentions : StartPrune(ret)
    \/ \E c \in pruning : PruneMetrics(c)
    \/ Tick

Spec == Init /\ [][Next]_vars

---------------------------------------------------------------------------
(* Reads *)

\* full_hour_rollup_window; empty when first >= last.  Buckets narrower than
\* an hour never use rollups.
RollupWindow(start, end, len, clock) ==
    LET first == HourOf(start) + (IF start % HourLen = 0 THEN 0 ELSE HourLen)
        last == HourOf(Smaller(end, clock))
    IN  IF len >= HourLen /\ first < last
        THEN [first |-> first, last |-> last]
        ELSE [first |-> start, last |-> start]

UsesRollups(w) == w.first < w.last

\* Mutant: the raw edge after the last full hour is not checked
RangeRetainedOpenEnd(start, end, w) ==
    IF UsesRollups(w)
    THEN start >= rollupSince /\ (start = w.first \/ start >= rawSince)
    ELSE start >= rawSince

RangeRetained(start, end, w) ==
    IF UsesRollups(w)
    THEN /\ start >= rollupSince
         /\ start = w.first \/ start >= rawSince
         /\ w.last = end \/ w.last >= rawSince
    ELSE start >= rawSince

\* The rows of the UNION ALL: raw samples outside the window of full hours,
\* and the hourly rows inside it.  A row keeps its source, so that none is lost.
Observations(start, end, w) ==
    LET edges == {e \in samples : /\ start <= e.at /\ e.at < end
                                  /\ ~(w.first <= e.at /\ e.at < w.last)}
        hours == {h \in DOMAIN rollups : w.first <= h /\ h < w.last}
    IN  {[from |-> "sample", at |-> e.at, row |-> SampleRow(e)] : e \in edges}
        \cup {[from |-> "hour", at |-> h, row |-> rollups[h]] : h \in hours}

\* GROUP BY bucket_start, with the latest value by (latest_at, latest_event_id)
Aggregate(rows) ==
    LET newest == CHOOSE o \in rows : \A p \in rows : ~Later(p.row, o.row)
    IN  [count |-> SumFunction([o \in rows |-> o.row.count]),
         sum |-> SumFunction([o \in rows |-> o.row.sum]),
         min |-> Min({o.row.min : o \in rows}),
         max |-> Max({o.row.max : o \in rows}),
         latest |-> newest.row.latest]

Buckets(rows, len) ==
    [b \in {o.at - (o.at % len) : o \in rows} |->
        Aggregate({o \in rows : o.at - (o.at % len) = b})]

\* list_metrics with a lower bound; its LIMIT cuts what is returned and is left out
ListRetained(since, before) == since >= rawSince /\ before > rawSince

---------------------------------------------------------------------------
(* Properties *)

Rows == [count : Nat, sum : Int, min : Values, max : Values,
         latest : Values, latestAt : Times, latestId : Ids]

\* Every variable has its type.
TypeOK ==
    /\ now \in Times
    /\ sent \subseteq Events
    /\ receipts \subseteq [id : Ids, at : Times]
    /\ samples \subseteq sent
    /\ DOMAIN rollups \subseteq Times
    /\ \A h \in DOMAIN rollups : rollups[h] \in Rows
    /\ rawSince \in Times
    /\ rollupSince \in Times
    /\ pruning \subseteq [raw : Int, rollup : Int]
    /\ applied \in [Ids -> Nat]

\* However often an event is delivered, and although its receipt is pruned,
\* `record` counts it at most once: what a pruned receipt no longer
\* rejects, the rollup watermark rejects.
CountedOnce == \A i \in Ids : applied[i] <= 1

Recorded == {e \in sent : applied[e.id] > 0}

\* A range that `query` accepts is answered in full: bucket by bucket, the
\* count, sum, minimum, maximum and latest value read from hourly rows and
\* raw edges are those of every event ever recorded in the range, whatever
\* has been pruned, in whatever order events arrived, and however old the
\* clock reading that chose the window of full hours.
AnswersComplete ==
    \A start \in Times : \A end \in start + 1 .. MaxTime + 1 :
        \A len \in BucketLens :
          \A w \in {RollupWindow(start, end, len, clock) : clock \in 0 .. now} :
            LET all == {[from |-> "sample", at |-> e.at, row |-> SampleRow(e)] :
                            e \in {f \in Recorded : start <= f.at /\ f.at < end}}
            IN  RangeRetained(start, end, w) =>
                    Buckets(Observations(start, end, w), len) = Buckets(all, len)

\* `list_metrics` with a lower bound either refuses or reads every event
\* recorded in the range, before its LIMIT: retention never leaves a gap in a
\* listing.
ListsComplete ==
    \A since \in Times : \A before \in since + 1 .. MaxTime + 1 :
        ListRetained(since, before) =>
            {e \in samples : since <= e.at /\ e.at < before}
                = {e \in Recorded : since <= e.at /\ e.at < before}

---------------------------------------------------------------------------
(* The inductive invariant behind the three properties *)

\* The types the argument needs.
HistoryTypes ==
    /\ now \in Int
    /\ sent \subseteq Events
    /\ IsFiniteSet(sent)
    /\ samples \subseteq sent
    /\ rawSince \in Int
    /\ rollupSince \in Int
    /\ pruning \subseteq [raw : Int, rollup : Int]
    /\ applied \in [Ids -> Nat]

\* An event id names one event.
IdsUnique == \A e, f \in sent : e.id = f.id => e = f

\* Only events that were sent are counted.
AppliedSent == \A i \in Ids : applied[i] > 0 => \E e \in sent : e.id = i

\* A counted event that the watermark would still accept has its receipt.
ReceiptsCover ==
    \A e \in sent : applied[e.id] > 0 /\ Retained(e)
                        => [id |-> e.id, at |-> e.at] \in receipts

\* The raw store holds recorded events only, and all from the raw watermark on.
SamplesExact ==
    /\ samples \subseteq Recorded
    /\ \A e \in Recorded : e.at >= rawSince => e \in samples

\* The rollup watermark, and every one still to come, is a full hour.
WatermarksOnTheHour ==
    /\ HourOf(rollupSince) = rollupSince
    /\ \A c \in pruning : HourOf(c.rollup) = c.rollup

\* What is summed over a set of events.
One == [e \in Events |-> 1]
Value == [e \in Events |-> e.value]

\* A row is the aggregate of a set of events: their number and sum, extremes
\* that one of them has, and the value of one that no other is later than.
Summarises(row, events) ==
    /\ row.count = SumFunctionOnSet(One, events)
    /\ row.sum = SumFunctionOnSet(Value, events)
    /\ \E e \in events : row.min = e.value
    /\ \A e \in events : row.min <= e.value
    /\ \E e \in events : row.max = e.value
    /\ \A e \in events : row.max >= e.value
    /\ \E e \in events : /\ row.latest = e.value
                         /\ row.latestAt = e.at
                         /\ row.latestId = e.id
    /\ \A e \in events : ~Later(SampleRow(e), row)

InHour(h) == {e \in Recorded : HourOf(e.at) = h}

\* An hourly row aggregates every event ever recorded in its hour, and from
\* the rollup watermark on no hour with an event lacks its row.
RollupsExact ==
    /\ \A h \in DOMAIN rollups : Summarises(rollups[h], InHour(h))
    /\ \A e \in Recorded : HourOf(e.at) >= rollupSince
                              => HourOf(e.at) \in DOMAIN rollups

IInv ==
    /\ HistoryTypes
    /\ IdsUnique
    /\ AppliedSent
    /\ ReceiptsCover
    /\ SamplesExact
    /\ CountedOnce
    /\ WatermarksOnTheHour
    /\ RollupsExact

=============================================================================
