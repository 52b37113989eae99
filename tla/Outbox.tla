------------------------------- MODULE Outbox -------------------------------
(***************************************************************************)
(* The durable rule-action outbox: table rule_action_outbox, the           *)
(* repository that claims and settles its rows (backend-turso/outbox.rs,   *)
(* backend-postgres/outbox_sql.rs), and the delivery workers that drain it *)
(* (rule_engine/actions.rs, application/rule_delivery.rs).                 *)
(*                                                                         *)
(* A row is claimed by a batch: one transaction stamps it with a fresh     *)
(* token and the time.  The worker then performs the external effect and   *)
(* settles the row with a conditional update that names the token.  Any    *)
(* number of workers run; a worker can stop at any await, a completion can *)
(* be lost, and a delivery can outlive its lease.                          *)
(***************************************************************************)
EXTENDS Naturals, FiniteSets

CONSTANTS
    Ids,            \* outbox row ids (UUIDs; only their order is used)
    Tenants,        \* tenants
    Keys,           \* (tenant_id, event_type, idempotency_key) triples
    TenantOf,       \* the tenant of each key
    KeyOf,          \* the key of the row with each id (a row never changes its key)
    Poison,         \* keys whose persisted payload does not decode
    Workers,        \* delivery worker loops, one or more per process
    MaxAttempts,    \* max_attempts of every row (10 in the code)
    Lease,          \* lease_timeout, in clock ticks
    BatchSize,      \* batch_size of one claim
    Concurrency,    \* deliveries one worker runs at a time
    SkipLocked,     \* TRUE: claims skip locked rows (PostgreSQL); FALSE: Turso
    MaxTime,        \* bound: the clock stops here
    InputHorizon,   \* bound: no enqueue or replay after this time
    MaxReplays      \* bound: number of replay calls

ASSUME OutboxAssumption ==
    /\ Ids \subseteq Nat /\ IsFiniteSet(Ids)
    /\ TenantOf \in [Keys -> Tenants]
    /\ KeyOf \in [Ids -> Keys]
    /\ Poison \subseteq Keys
    /\ MaxAttempts \in Nat \ {0}
    /\ Lease \in Nat \ {0}
    /\ BatchSize \in Nat \ {0}
    /\ Concurrency \in Nat \ {0}
    /\ SkipLocked \in BOOLEAN
    /\ MaxTime \in Nat
    /\ InputHorizon \in Nat
    /\ MaxReplays \in Nat

VARIABLES
    clock,          \* the adapter's clock (Utc::now), one tick per second
    outbox,         \* the table: a row for every id, "absent" before INSERT
    nextToken,      \* source of fresh claim tokens (the UUID of a claim)
    held,           \* the claimed events each worker still has to settle
    delivered,      \* history: the claims under which the effect happened
    replays         \* history: replay calls so far

vars == <<clock, outbox, nextToken, held, delivered, replays>>

-----------------------------------------------------------------------------
(* Rows. *)

NullToken == 0
NullTime == 0

Statuses == {"absent", "pending", "processing", "failed",
             "succeeded", "dead_letter"}

ActiveStatuses == {"pending", "processing", "failed"}

\* OutboxEventRecord and the columns of the table.
Row == [status : Statuses, attempts : Nat, available_at : Nat,
        created_at : Nat, locked_at : Nat, locked_by : Nat]

Stages == {"queued", "ok", "retry", "permanent"}

\* A claimed event in the hands of a worker: the copy of the row it was given
\* and how far its delivery has got.
Claim == [id : Ids, token : Nat \ {NullToken}, attempts : Nat, stage : Stages]

Tenant(i) == TenantOf[KeyOf[i]]

Active(i) == outbox[i].status \in ActiveStatuses

\* 2^clamp(attempts, 1, 8) seconds; the cap of 300 is never reached.
BackoffSeconds == <<2, 4, 8, 16, 32, 64, 128, 256>>

RetryDelay(attempts) ==
    BackoffSeconds[IF attempts < 1 THEN 1 ELSE IF attempts > 8 THEN 8 ELSE attempts]

\* failure_disposition: permanent failures and last attempts are dead letters.
FailedStatus(attempts, stage) ==
    IF stage = "permanent" \/ attempts >= MaxAttempts THEN "dead_letter" ELSE "failed"

\* The column updates of the statements below, on one row r at time now.
Inserted(r, now) ==
    [r EXCEPT !.status = "pending", !.available_at = now, !.created_at = now]

\* Mutant: a claim that does not count as an attempt.
ClaimedUncounted(r, now, token) ==
    [r EXCEPT !.status = "processing", !.locked_at = now, !.locked_by = token]

Claimed(r, now, token) ==
    [r EXCEPT !.status = "processing", !.attempts = @ + 1,
              !.locked_at = now, !.locked_by = token]

Unlocked(r, status) ==
    [r EXCEPT !.status = status, !.locked_at = NullTime, !.locked_by = NullToken]

Failed(r, status, available) ==
    [r EXCEPT !.status = status, !.available_at = available,
              !.locked_at = NullTime, !.locked_by = NullToken]

Replayed(r, now) ==
    [r EXCEPT !.status = "pending", !.attempts = 0, !.available_at = now,
              !.locked_at = NullTime, !.locked_by = NullToken]

-----------------------------------------------------------------------------
(* Choosing a batch. *)

\* Mutant: a claim takes processing rows whatever their lease.
LeaseIgnored(r) == r.status = "processing"

LeaseExpired(r) == r.status = "processing" /\ r.locked_at + Lease <= clock

\* Mutant: leases that ran out during the last attempt are left alone.
ExpiredFinalForgotten == {}

\* Leases that ran out during the last permitted attempt.
ExpiredFinal ==
    {i \in Ids : LeaseExpired(outbox[i]) /\ outbox[i].attempts >= MaxAttempts}

\* Mutant: one attempt too many.
EligibleOnceMore ==
    {i \in Ids :
        /\ outbox[i].attempts <= MaxAttempts
        /\ \/ outbox[i].status \in {"pending", "failed"} /\ outbox[i].available_at <= clock
           \/ LeaseExpired(outbox[i])}

Eligible ==
    {i \in Ids :
        /\ outbox[i].attempts < MaxAttempts
        /\ \/ outbox[i].status \in {"pending", "failed"} /\ outbox[i].available_at <= clock
           \/ LeaseExpired(outbox[i])}

\* ORDER BY available_at, created_at, id
Older(i, j) ==
    \/ outbox[i].available_at < outbox[j].available_at
    \/ /\ outbox[i].available_at = outbox[j].available_at
       /\ \/ outbox[i].created_at < outbox[j].created_at
          \/ outbox[i].created_at = outbox[j].created_at /\ i < j

TenantRank(i) == Cardinality({j \in Eligible : Tenant(j) = Tenant(i) /\ Older(j, i)})

\* Mutant: oldest first, whichever tenant.
ClaimedByAge(i, j) == Older(i, j)

\* ORDER BY tenant_rank, available_at, created_at, id
ClaimedBefore(i, j) ==
    \/ TenantRank(i) < TenantRank(j)
    \/ TenantRank(i) = TenantRank(j) /\ Older(i, j)

\* The rows another transaction may have locked when a claim runs.  PostgreSQL
\* skips them; Turso claims under its one writer lock and never meets any.
LockedRows == IF SkipLocked THEN SUBSET Eligible ELSE {{}}

\* The first BatchSize eligible rows that are not locked.
Batch(locked) ==
    LET free == Eligible \ locked
    IN  {i \in free : Cardinality({j \in free : ClaimedBefore(j, i)}) < BatchSize}

-----------------------------------------------------------------------------
(* Operations. *)

Init ==
    /\ clock = 0
    /\ outbox = [i \in Ids |-> [status |-> "absent", attempts |-> 0,
                               available_at |-> 0, created_at |-> 0,
                               locked_at |-> NullTime, locked_by |-> NullToken]]
    /\ nextToken = 1
    /\ held = [w \in Workers |-> {}]
    /\ delivered = [i \in Ids |-> {}]
    /\ replays = 0

Tick ==
    /\ clock < MaxTime
    /\ clock' = clock + 1
    /\ UNCHANGED <<outbox, nextToken, held, delivered, replays>>

\* Mutant: the index is consulted for the new rows only.
IndexAdmitsAmong(S) == \A i, j \in S : KeyOf[i] = KeyOf[j] => i = j

\* The partial unique index over (tenant_id, event_type, idempotency_key) of
\* active rows lets the rows of S become active together.
IndexAdmits(S) ==
    /\ \A i, j \in S : KeyOf[i] = KeyOf[j] => i = j
    /\ \A i \in S, j \in Ids : KeyOf[i] = KeyOf[j] => ~Active(j)

\* enqueue_actions_in_transaction: S are the rows one ingress transaction
\* inserts.  An action whose key an active row holds is dropped (ON CONFLICT
\* DO NOTHING) and leaves no row.
Enqueue(S) ==
    /\ clock <= InputHorizon
    /\ S # {}
    /\ \A i \in S : outbox[i].status = "absent"
    /\ IndexAdmits(S)
    /\ outbox' = [i \in Ids |-> IF i \in S THEN Inserted(outbox[i], clock) ELSE outbox[i]]
    /\ UNCHANGED <<clock, nextToken, held, delivered, replays>>

\* claim_batch: one transaction that first buries leases which expired on
\* their last attempt and then stamps a batch with a fresh token.
ClaimBatch(w, locked) ==
    LET batch == Batch(locked)
    IN  /\ held[w] = {}
        /\ batch # {} \/ ExpiredFinal # {}
        /\ outbox' = [i \in Ids |->
                        IF i \in ExpiredFinal THEN Unlocked(outbox[i], "dead_letter")
                        ELSE IF i \in batch THEN Claimed(outbox[i], clock, nextToken)
                        ELSE outbox[i]]
        /\ held' = [held EXCEPT ![w] =
                        {[id |-> i, token |-> nextToken,
                          attempts |-> outbox[i].attempts + 1, stage |-> "queued"] : i \in batch}]
        /\ nextToken' = IF batch = {} THEN nextToken ELSE nextToken + 1
        /\ UNCHANGED <<clock, delivered, replays>>

Advance(w, c, stage) ==
    held' = [held EXCEPT ![w] = (@ \ {c}) \union {[c EXCEPT !.stage = stage]}]

\* deliver: decode the row and perform its action.  A failed action may have
\* had its effect all the same (a webhook that answers too late).
Deliver(w, c, stage, effect) ==
    /\ c.stage = "queued"
    /\ Cardinality({d \in held[w] : d.stage # "queued"}) < Concurrency
    /\ (KeyOf[c.id] \in Poison) <=> (stage = "permanent")
    /\ stage = "ok" => effect
    /\ stage = "permanent" => ~effect
    /\ Advance(w, c, stage)
    /\ delivered' = IF effect THEN [delivered EXCEPT ![c.id] = @ \union {c.token}]
                    ELSE delivered
    /\ UNCHANGED <<clock, outbox, nextToken, replays>>

Drop(w, c) == held' = [held EXCEPT ![w] = @ \ {c}]

\* The conditional update of a settlement matches the row.
OwnsRow(c) ==
    /\ outbox[c.id].status = "processing"
    /\ outbox[c.id].locked_by = c.token

\* mark_succeeded; when the row has been claimed by someone else it updates
\* nothing and the worker drops the event.
MarkSucceeded(w, c) ==
    /\ c.stage = "ok"
    /\ outbox' = IF OwnsRow(c)
                 THEN [outbox EXCEPT ![c.id] = Unlocked(@, "succeeded")]
                 ELSE outbox
    /\ Drop(w, c)
    /\ UNCHANGED <<clock, nextToken, delivered, replays>>

\* mark_failed also requires the attempt number of the claim.
MarkFailed(w, c) ==
    /\ c.stage \in {"retry", "permanent"}
    /\ outbox' = IF OwnsRow(c) /\ outbox[c.id].attempts = c.attempts
                 THEN [outbox EXCEPT ![c.id] =
                         Failed(@, FailedStatus(c.attempts, c.stage),
                                clock + RetryDelay(c.attempts))]
                 ELSE outbox
    /\ Drop(w, c)
    /\ UNCHANGED <<clock, nextToken, delivered, replays>>

\* The settlement call itself failed or the delivery task panicked: the worker
\* logs it and goes on, the row stays as it was.
MarkLost(w, c) ==
    /\ c.stage # "queued"
    /\ Drop(w, c)
    /\ UNCHANGED <<clock, outbox, nextToken, delivered, replays>>

\* The worker is cancelled or its process stops; its claims stay in the table.
Crash(w) ==
    /\ held[w] # {}
    /\ held' = [held EXCEPT ![w] = {}]
    /\ UNCHANGED <<clock, outbox, nextToken, delivered, replays>>

\* Mutant: a replay also picks up rows that succeeded.
DeadLettersAndSucceeded(t) ==
    {i \in Ids : outbox[i].status \in {"dead_letter", "succeeded"} /\ Tenant(i) = t}

DeadLetters(t) == {i \in Ids : outbox[i].status = "dead_letter" /\ Tenant(i) = t}

\* replay_dead_letters for the rows S of a tenant, all of its dead letters or
\* the ones an operator names.  A duplicate key aborts the whole call.
Replay(t, S) ==
    /\ clock <= InputHorizon
    /\ replays < MaxReplays
    /\ S # {}
    /\ S \subseteq DeadLetters(t)
    /\ IndexAdmits(S)
    /\ outbox' = [i \in Ids |-> IF i \in S THEN Replayed(outbox[i], clock) ELSE outbox[i]]
    /\ replays' = replays + 1
    /\ UNCHANGED <<clock, nextToken, held, delivered>>

WorkerStep(w) ==
    \/ \E locked \in LockedRows : ClaimBatch(w, locked)
    \/ \E c \in held[w] :
        \/ \E stage \in Stages \ {"queued"}, effect \in BOOLEAN : Deliver(w, c, stage, effect)
        \/ MarkSucceeded(w, c)
        \/ MarkFailed(w, c)
        \/ MarkLost(w, c)
    \/ Crash(w)

Next ==
    \/ Tick
    \/ \E S \in SUBSET Ids : Enqueue(S)
    \/ \E w \in Workers : WorkerStep(w)
    \/ \E t \in Tenants, S \in SUBSET Ids : Replay(t, S)

\* Time passes, an idle worker claims again, and a worker that keeps running
\* delivers and settles what it holds.
Fairness ==
    /\ WF_vars(Tick)
    /\ \A w \in Workers :
        /\ WF_vars(ClaimBatch(w, {}))
        /\ WF_vars(\E c \in held[w], stage \in Stages \ {"queued"}, effect \in BOOLEAN :
                        Deliver(w, c, stage, effect))
        /\ WF_vars(\E c \in held[w] : MarkSucceeded(w, c) \/ MarkFailed(w, c) \/ MarkLost(w, c))

Spec == Init /\ [][Next]_vars

-----------------------------------------------------------------------------
(* Properties. *)

\* Every variable has the type of the column or task state it stands for.
TypeOK ==
    /\ clock \in Nat
    /\ outbox \in [Ids -> Row]
    /\ nextToken \in Nat \ {NullToken}
    /\ held \in [Workers -> SUBSET Claim]
    /\ delivered \in [Ids -> SUBSET Nat]
    /\ replays \in Nat

\* No two active rows of a tenant carry the same action: enqueueing, retrying,
\* lease expiry and replay together never bring a second copy to life.
KeyExclusive ==
    \A i, j \in Ids : Active(i) /\ Active(j) /\ KeyOf[i] = KeyOf[j] => i = j

\* A claim in a worker's hands either owns its row exactly as it was handed
\* out (same attempt, lock taken) or can no longer match it; no two workers
\* hold the same claim of a row.
ClaimsFenced ==
    \A w \in Workers : \A c \in held[w] :
        /\ c.token < nextToken
        /\ OwnsRow(c) => outbox[c.id].attempts = c.attempts
        /\ \A v \in Workers : \A d \in held[v] :
            c.id = d.id /\ c.token = d.token => v = w /\ c = d

\* A row is locked exactly while it is processing, by a token that was issued.
LockedIffProcessing ==
    \A i \in Ids :
        /\ outbox[i].status = "processing" <=> outbox[i].locked_by # NullToken
        /\ outbox[i].locked_by < nextToken
        /\ outbox[i].locked_at <= clock

\* No row is ever claimed more often than its budget allows, and none before
\* it is inserted.
AttemptsBounded ==
    \A i \in Ids :
        /\ outbox[i].attempts <= MaxAttempts
        /\ outbox[i].status = "absent" => outbox[i].attempts = 0

\* The inductive invariant behind the safety properties.
IndInv == TypeOK /\ LockedIffProcessing /\ ClaimsFenced /\ AttemptsBounded

\* A receiver sees an action at most MaxAttempts times per replay, whatever
\* crashes, lost completions and expired leases happen in between.
DeliveryBudget ==
    \A i \in Ids : Cardinality(delivered[i]) <= MaxAttempts * (1 + replays)

\* Until its lease runs out, a claimed row is changed by nobody but the worker
\* that holds the claim, in the step in which it settles the event.
LeaseExclusive ==
    [][\A i \in Ids :
        /\ outbox[i].status = "processing"
        /\ clock < outbox[i].locked_at + Lease
        /\ outbox'[i] # outbox[i]
        => \E w \in Workers : \E c \in held[w] \ held'[w] :
                c.id = i /\ c.token = outbox[i].locked_by]_vars

\* Only a granted claim raises the attempt count, and then by one.
ClaimsNow(i) == outbox'[i].attempts = outbox[i].attempts + 1

\* On Turso a claim that takes two rows of one tenant takes a row of every
\* other tenant that has one available: no tenant fills a batch alone.
TenantShare ==
    [][\A i, j, k \in Ids :
        /\ ClaimsNow(i) /\ ClaimsNow(j) /\ i # j /\ Tenant(i) = Tenant(j)
        /\ k \in Eligible
        /\ Tenant(k) # Tenant(i)
        => \E l \in Eligible : Tenant(l) = Tenant(k) /\ ClaimsNow(l)]_vars

\* Every enqueued or replayed action is settled in the end: it succeeds or it
\* becomes a dead letter, although workers may stop at any await.
EventuallySettled ==
    \A i \in Ids : Active(i) ~> ~Active(i)

-----------------------------------------------------------------------------
(* The ledger this implements. *)

LedgerState(i) ==
    IF Active(i) THEN "open"
    ELSE IF outbox[i].status = "succeeded" THEN "done"
    ELSE IF outbox[i].status = "dead_letter" THEN "dead" ELSE "absent"

Ledger == INSTANCE OutboxLedger WITH
    Budget <- MaxAttempts,
    state <- [i \in Ids |-> LedgerState(i)],
    owner <- [i \in Ids |-> outbox[i].locked_by],
    left <- [i \in Ids |-> MaxAttempts - outbox[i].attempts],
    last <- nextToken - 1

\* The table, driven by any number of workers, is such a ledger: one owner per
\* row, fresh tokens, a bounded number of grants, success is final.
ImplementsLedger == Ledger!LedgerSpec

=============================================================================
