---------------------------- MODULE OutboxProofs ----------------------------
(***************************************************************************)
(* Proofs about Outbox for every set of rows, workers and keys and every   *)
(* lease, batch size and attempt limit.                                    *)
(***************************************************************************)
EXTENDS Outbox, FiniteSums, TLAPS

\* The backoff of a failed attempt is a number of seconds.
LEMMA RetryDelayType ==
    ASSUME NEW a \in Nat
    PROVE  RetryDelay(a) \in Nat
<1>1. CASE a < 1
  BY <1>1 DEF RetryDelay, BackoffSeconds
<1>2. CASE a > 8
  BY <1>2 DEF RetryDelay, BackoffSeconds
<1>3. CASE a \in 1..8
  <2>1. RetryDelay(a) = BackoffSeconds[a]
    BY <1>3 DEF RetryDelay
  <2>2. a = 1 \/ a = 2 \/ a = 3 \/ a = 4 \/ a = 5 \/ a = 6 \/ a = 7 \/ a = 8
    BY <1>3
  <2>. QED
    BY <2>1, <2>2 DEF BackoffSeconds
<1>. QED
  BY <1>1, <1>2, <1>3

\* What each column update does to the columns the invariant is about.
LEMMA InsertedRow ==
    ASSUME NEW r \in Row, NEW now \in Nat
    PROVE  /\ Inserted(r, now) \in Row
           /\ Inserted(r, now).status = "pending"
           /\ Inserted(r, now).attempts = r.attempts
           /\ Inserted(r, now).locked_at = r.locked_at
           /\ Inserted(r, now).locked_by = r.locked_by
BY DEF Inserted, Row, Statuses

\* What a claim leaves of a row.
LEMMA ClaimedRow ==
    ASSUME NEW r \in Row, NEW now \in Nat, NEW token \in Nat
    PROVE  /\ Claimed(r, now, token) \in Row
           /\ Claimed(r, now, token).status = "processing"
           /\ Claimed(r, now, token).attempts = r.attempts + 1
           /\ Claimed(r, now, token).locked_at = now
           /\ Claimed(r, now, token).locked_by = token
<1>1. ASSUME NEW a \in Nat
      PROVE  [r EXCEPT !.status = "processing", !.attempts = a,
                       !.locked_at = now, !.locked_by = token] \in Row
  BY DEF Row, Statuses
<1>2. r.attempts + 1 \in Nat
  BY DEF Row
<1>3. Claimed(r, now, token) \in Row
  BY <1>1, <1>2 DEF Claimed
<1>. QED
  BY <1>3, Zenon DEF Claimed, Row

\* What settling leaves of a row.
LEMMA UnlockedRow ==
    ASSUME NEW r \in Row, NEW s \in Statuses
    PROVE  /\ Unlocked(r, s) \in Row
           /\ Unlocked(r, s).status = s
           /\ Unlocked(r, s).attempts = r.attempts
           /\ Unlocked(r, s).locked_at = NullTime
           /\ Unlocked(r, s).locked_by = NullToken
BY DEF Unlocked, Row, NullTime, NullToken

\* What a failed attempt leaves of a row.
LEMMA FailedRow ==
    ASSUME NEW r \in Row, NEW s \in Statuses, NEW available \in Nat
    PROVE  /\ Failed(r, s, available) \in Row
           /\ Failed(r, s, available).status = s
           /\ Failed(r, s, available).attempts = r.attempts
           /\ Failed(r, s, available).locked_at = NullTime
           /\ Failed(r, s, available).locked_by = NullToken
BY DEF Failed, Row, NullTime, NullToken

\* What a replay leaves of a row.
LEMMA ReplayedRow ==
    ASSUME NEW r \in Row, NEW now \in Nat
    PROVE  /\ Replayed(r, now) \in Row
           /\ Replayed(r, now).status = "pending"
           /\ Replayed(r, now).attempts = 0
           /\ Replayed(r, now).locked_at = NullTime
           /\ Replayed(r, now).locked_by = NullToken
BY DEF Replayed, Row, Statuses, NullTime, NullToken

\* A batch is made of rows, none of which has used up its attempts.
LEMMA BatchFacts ==
    ASSUME NEW locked
    PROVE  /\ Batch(locked) \subseteq Eligible
           /\ Eligible \subseteq Ids
           /\ ExpiredFinal \subseteq Ids
           /\ \A i \in Batch(locked) : outbox[i].attempts < MaxAttempts
BY DEF Batch, Eligible, ExpiredFinal

\* Initially nothing is claimed and nothing is locked.
LEMMA InitInv == Init => IndInv
BY OutboxAssumption
   DEF Init, IndInv, TypeOK, LockedIffProcessing, ClaimsFenced, AttemptsBounded,
       Row, Statuses, NullToken, NullTime, Claim

\* Claiming hands out a fresh token: earlier claims keep their meaning, and a
\* row that is claimed again no longer matches the claim it had before.
LEMMA ClaimBatchInv ==
    ASSUME IndInv, NEW w \in Workers, NEW locked, ClaimBatch(w, locked)
    PROVE  IndInv'
<1>. DEFINE batch == Batch(locked)
            new == {[id |-> i, token |-> nextToken,
                     attempts |-> outbox[i].attempts + 1, stage |-> "queued"] : i \in batch}
<1>0. /\ batch \subseteq Ids
      /\ ExpiredFinal \subseteq Ids
      /\ \A i \in batch : outbox[i].attempts < MaxAttempts
  BY BatchFacts
<1>1. /\ outbox \in [Ids -> Row]
      /\ nextToken \in Nat /\ nextToken # 0
      /\ held \in [Workers -> SUBSET Claim]
      /\ clock \in Nat
  BY DEF IndInv, TypeOK, NullToken
<1>2. /\ \A i \in Ids : outbox'[i] =
                IF i \in ExpiredFinal THEN Unlocked(outbox[i], "dead_letter")
                ELSE IF i \in batch THEN Claimed(outbox[i], clock, nextToken)
                ELSE outbox[i]
      /\ held' = [held EXCEPT ![w] = new]
      /\ held[w] = {}
      /\ clock' = clock /\ delivered' = delivered /\ replays' = replays
      /\ nextToken' = IF batch = {} THEN nextToken ELSE nextToken + 1
  BY DEF ClaimBatch
<1>a. \A i \in Ids :
        /\ outbox[i] \in Row
        /\ i \in ExpiredFinal =>
             /\ outbox'[i] \in Row /\ outbox'[i].status = "dead_letter"
             /\ outbox'[i].attempts = outbox[i].attempts
             /\ outbox'[i].locked_at = NullTime /\ outbox'[i].locked_by = NullToken
        /\ i \notin ExpiredFinal /\ i \in batch =>
             /\ outbox'[i] \in Row /\ outbox'[i].status = "processing"
             /\ outbox'[i].attempts = outbox[i].attempts + 1
             /\ outbox'[i].locked_at = clock /\ outbox'[i].locked_by = nextToken
        /\ i \notin ExpiredFinal /\ i \notin batch => outbox'[i] = outbox[i]
  <2>. TAKE i \in Ids
  <2>1. outbox[i] \in Row
    BY <1>1
  <2>2. CASE i \in ExpiredFinal
    <3>1. outbox'[i] = Unlocked(outbox[i], "dead_letter")
      BY <1>2, <2>2
    <3>2. "dead_letter" \in Statuses
      BY DEF Statuses
    <3>3. /\ outbox'[i] \in Row /\ outbox'[i].status = "dead_letter"
          /\ outbox'[i].attempts = outbox[i].attempts
          /\ outbox'[i].locked_at = NullTime /\ outbox'[i].locked_by = NullToken
      BY <2>1, <3>1, <3>2, UnlockedRow
    <3>. QED
      BY <2>1, <2>2, <3>3
  <2>3. CASE i \notin ExpiredFinal /\ i \in batch
    <3>1. outbox'[i] = Claimed(outbox[i], clock, nextToken)
      BY <1>2, <2>3
    <3>2. /\ outbox'[i] \in Row /\ outbox'[i].status = "processing"
          /\ outbox'[i].attempts = outbox[i].attempts + 1
          /\ outbox'[i].locked_at = clock /\ outbox'[i].locked_by = nextToken
      BY <1>1, <2>1, <3>1, ClaimedRow
    <3>. QED
      BY <2>1, <2>3, <3>2
  <2>4. CASE i \notin ExpiredFinal /\ i \notin batch
    BY <1>2, <2>1, <2>4
  <2>. QED
    BY <2>2, <2>3, <2>4
<1>3. nextToken' \in Nat /\ nextToken' # 0 /\ nextToken <= nextToken'
  BY <1>1, <1>2
<1>4. new \subseteq Claim
  <2>. SUFFICES ASSUME NEW i \in batch
                PROVE  [id |-> i, token |-> nextToken,
                        attempts |-> outbox[i].attempts + 1, stage |-> "queued"] \in Claim
    OBVIOUS
  <2>1. outbox[i].attempts \in Nat
    BY <1>0, <1>1 DEF Row
  <2>. QED
    BY <1>0, <1>1, <2>1 DEF Claim, Stages, NullToken
<1>5. TypeOK'
  <2>1. outbox' \in [Ids -> Row]
    <3>1. outbox' = [i \in Ids |-> outbox'[i]]
      BY DEF ClaimBatch
    <3>2. \A i \in Ids : outbox'[i] \in Row
      BY <1>a
    <3>. QED
      BY <3>1, <3>2
  <2>2. held' \in [Workers -> SUBSET Claim]
    BY <1>1, <1>2, <1>4
  <2>. QED
    BY <1>2, <1>3, <2>1, <2>2 DEF IndInv, TypeOK, NullToken
<1>6. LockedIffProcessing'
  <2>. SUFFICES ASSUME NEW i \in Ids
                PROVE  /\ outbox'[i].status = "processing" <=> outbox'[i].locked_by # NullToken
                       /\ outbox'[i].locked_by < nextToken'
                       /\ outbox'[i].locked_at <= clock'
    BY DEF LockedIffProcessing
  <2>1. /\ outbox[i] \in Row
        /\ outbox[i].status = "processing" <=> outbox[i].locked_by # NullToken
        /\ outbox[i].locked_by < nextToken
        /\ outbox[i].locked_at <= clock
    BY <1>1 DEF IndInv, LockedIffProcessing
  <2>2. CASE i \in ExpiredFinal
    BY <1>1, <1>2, <1>3, <1>a, <2>2 DEF NullToken, NullTime
  <2>3. CASE i \notin ExpiredFinal /\ i \in batch
    BY <1>1, <1>2, <1>a, <2>3 DEF NullToken
  <2>4. CASE i \notin ExpiredFinal /\ i \notin batch
    BY <1>1, <1>2, <1>3, <1>a, <2>1, <2>4 DEF Row
  <2>. QED
    BY <2>2, <2>3, <2>4
<1>7. ClaimsFenced'
  <2>. SUFFICES ASSUME NEW v \in Workers, NEW c \in held'[v]
                PROVE  /\ c.token < nextToken'
                       /\ OwnsRow(c)' => outbox'[c.id].attempts = c.attempts
                       /\ \A u \in Workers : \A d \in held'[u] :
                            c.id = d.id /\ c.token = d.token => u = v /\ c = d
    BY DEF ClaimsFenced
  <2>1. \A u \in Workers : \A d \in held'[u] :
            \/ u = w /\ d \in new /\ d.token = nextToken
            \/ u # w /\ d \in held[u] /\ d.token < nextToken
    BY <1>1, <1>2 DEF IndInv, ClaimsFenced
  <2>2. c \in Claim
    BY <1>5 DEF TypeOK
  <2>3. c.token < nextToken'
    BY <1>1, <1>2, <2>1, <2>2 DEF Claim
  <2>4. ASSUME OwnsRow(c)' PROVE outbox'[c.id].attempts = c.attempts
    <3>1. c.id \in Ids /\ outbox'[c.id].status = "processing" /\ outbox'[c.id].locked_by = c.token
      BY <2>2, <2>4 DEF OwnsRow, Claim
    <3>2. c.id \notin ExpiredFinal
      BY <1>a, <3>1
    <3>3. CASE v = w /\ c \in new
      BY <1>a, <3>1, <3>2, <3>3
    <3>4. CASE v # w /\ c \in held[v] /\ c.token < nextToken
      <4>1. c.id \notin batch
        BY <1>1, <1>a, <2>2, <3>1, <3>2, <3>4 DEF Claim
      <4>2. outbox'[c.id] = outbox[c.id]
        BY <1>a, <3>1, <3>2, <4>1
      <4>3. OwnsRow(c)
        BY <3>1, <4>2 DEF OwnsRow
      <4>. QED
        BY <3>4, <4>2, <4>3 DEF IndInv, ClaimsFenced
    <3>. QED
      BY <2>1, <3>3, <3>4
  <2>5. ASSUME NEW u \in Workers, NEW d \in held'[u], c.id = d.id, c.token = d.token
        PROVE  u = v /\ c = d
    <3>1. CASE u = w
      BY <1>1, <2>1, <2>2, <2>5, <3>1 DEF Claim
    <3>2. CASE u # w
      BY <1>1, <2>1, <2>2, <2>5, <3>2 DEF IndInv, ClaimsFenced, Claim
    <3>. QED
      BY <3>1, <3>2
  <2>. QED
    BY <2>3, <2>4, <2>5
<1>8. AttemptsBounded'
  <2>. SUFFICES ASSUME NEW i \in Ids
                PROVE  /\ outbox'[i].attempts <= MaxAttempts
                       /\ outbox'[i].status = "absent" => outbox'[i].attempts = 0
    BY DEF AttemptsBounded
  <2>1. /\ outbox[i] \in Row
        /\ outbox[i].attempts <= MaxAttempts
        /\ outbox[i].status = "absent" => outbox[i].attempts = 0
    BY <1>1 DEF IndInv, AttemptsBounded
  <2>. QED
    BY <1>0, <1>a, <2>1, OutboxAssumption DEF Row
<1>. QED
  BY <1>5, <1>6, <1>7, <1>8 DEF IndInv

\* Steps that hand out no claim: rows are left alone or unlocked, workers only
\* give claims up.
LEMMA QuietStepInv ==
    ASSUME IndInv,
           outbox' \in [Ids -> Row],
           \A i \in Ids :
              \/ outbox'[i] = outbox[i]
              \/ /\ outbox'[i].status \notin {"absent", "processing"}
                 /\ outbox'[i].locked_by = NullToken
                 /\ outbox'[i].locked_at <= clock
                 /\ outbox'[i].attempts <= MaxAttempts,
           held' \in [Workers -> SUBSET Claim],
           \A w \in Workers : held'[w] \subseteq held[w],
           nextToken' = nextToken,
           clock' \in Nat, clock <= clock',
           delivered' \in [Ids -> SUBSET Nat],
           replays' \in Nat
    PROVE  IndInv'
<1>1. TypeOK /\ LockedIffProcessing /\ ClaimsFenced /\ AttemptsBounded
  BY DEF IndInv
<1>2. TypeOK'
  BY <1>1 DEF TypeOK
<1>3. LockedIffProcessing'
  <2>. SUFFICES ASSUME NEW i \in Ids
                PROVE  /\ outbox'[i].status = "processing" <=> outbox'[i].locked_by # NullToken
                       /\ outbox'[i].locked_by < nextToken'
                       /\ outbox'[i].locked_at <= clock'
    BY DEF LockedIffProcessing
  <2>1. /\ outbox'[i] \in Row
        /\ nextToken \in Nat /\ nextToken # 0 /\ clock \in Nat
    BY <1>1 DEF TypeOK, NullToken
  <2>2. CASE outbox'[i] = outbox[i]
    BY <1>1, <2>1, <2>2 DEF LockedIffProcessing, Row
  <2>3. CASE outbox'[i] # outbox[i]
    BY <1>1, <2>1, <2>3 DEF NullToken, Row
  <2>. QED
    BY <2>2, <2>3
<1>4. ClaimsFenced'
  <2>. SUFFICES ASSUME NEW w \in Workers, NEW c \in held'[w]
                PROVE  /\ c.token < nextToken'
                       /\ OwnsRow(c)' => outbox'[c.id].attempts = c.attempts
                       /\ \A v \in Workers : \A d \in held'[v] :
                            c.id = d.id /\ c.token = d.token => v = w /\ c = d
    BY DEF ClaimsFenced
  <2>1. c \in held[w] /\ c \in Claim
    BY <1>2 DEF TypeOK
  <2>2. c.token < nextToken'
    BY <1>1, <2>1 DEF ClaimsFenced
  <2>3. ASSUME OwnsRow(c)' PROVE outbox'[c.id].attempts = c.attempts
    <3>1. c.id \in Ids /\ outbox'[c.id].status = "processing"
      BY <2>1, <2>3 DEF OwnsRow, Claim
    <3>2. outbox'[c.id] = outbox[c.id]
      BY <3>1
    <3>3. OwnsRow(c)
      BY <2>3, <3>2 DEF OwnsRow
    <3>. QED
      BY <1>1, <2>1, <3>2, <3>3 DEF ClaimsFenced
  <2>4. \A v \in Workers : \A d \in held'[v] :
            c.id = d.id /\ c.token = d.token => v = w /\ c = d
    BY <1>1, <2>1 DEF ClaimsFenced
  <2>. QED
    BY <2>2, <2>3, <2>4
<1>5. AttemptsBounded'
  BY <1>1 DEF AttemptsBounded
<1>. QED
  BY <1>2, <1>3, <1>4, <1>5 DEF IndInv

\* Inserting and replaying rows.
LEMMA EnqueueInv ==
    ASSUME IndInv, NEW S \in SUBSET Ids, Enqueue(S)
    PROVE  IndInv'
<1>1. TypeOK /\ LockedIffProcessing /\ AttemptsBounded
  BY DEF IndInv
<1>2. \A i \in Ids :
        /\ outbox'[i] \in Row
        /\ \/ outbox'[i] = outbox[i]
           \/ /\ outbox'[i].status \notin {"absent", "processing"}
              /\ outbox'[i].locked_by = NullToken
              /\ outbox'[i].locked_at <= clock
              /\ outbox'[i].attempts <= MaxAttempts
  <2>. TAKE i \in Ids
  <2>1. outbox[i] \in Row /\ clock \in Nat
    BY <1>1 DEF TypeOK
  <2>2. CASE i \in S
    <3>1. outbox'[i] = Inserted(outbox[i], clock)
      BY <2>2 DEF Enqueue
    <3>2. outbox[i].status = "absent"
      BY <2>2 DEF Enqueue
    <3>3. /\ outbox[i].locked_by = NullToken
          /\ outbox[i].locked_at <= clock
          /\ outbox[i].attempts <= MaxAttempts
      BY <1>1, <3>2 DEF LockedIffProcessing, AttemptsBounded
    <3>4. /\ outbox'[i] \in Row
          /\ outbox'[i].status = "pending"
          /\ outbox'[i].attempts = outbox[i].attempts
          /\ outbox'[i].locked_at = outbox[i].locked_at
          /\ outbox'[i].locked_by = outbox[i].locked_by
      BY <2>1, <3>1, InsertedRow
    <3>. QED
      BY <3>3, <3>4
  <2>3. CASE i \notin S
    BY <2>1, <2>3 DEF Enqueue
  <2>. QED
    BY <2>2, <2>3
<1>3. outbox' \in [Ids -> Row]
  <2>1. outbox' = [i \in Ids |-> outbox'[i]]
    BY DEF Enqueue
  <2>. QED
    BY <1>2, <2>1
<1>. QED
  BY <1>1, <1>2, <1>3, QuietStepInv DEF Enqueue, TypeOK

\* A replay revives dead letters only, which nobody holds.
LEMMA ReplayInv ==
    ASSUME IndInv, NEW t \in Tenants, NEW S \in SUBSET Ids, Replay(t, S)
    PROVE  IndInv'
<1>1. TypeOK
  BY DEF IndInv
<1>2. \A i \in Ids :
        /\ outbox'[i] \in Row
        /\ \/ outbox'[i] = outbox[i]
           \/ /\ outbox'[i].status \notin {"absent", "processing"}
              /\ outbox'[i].locked_by = NullToken
              /\ outbox'[i].locked_at <= clock
              /\ outbox'[i].attempts <= MaxAttempts
  <2>. TAKE i \in Ids
  <2>1. outbox[i] \in Row /\ clock \in Nat /\ MaxAttempts \in Nat
    BY <1>1, OutboxAssumption DEF TypeOK
  <2>2. CASE i \in S
    <3>1. outbox'[i] = Replayed(outbox[i], clock)
      BY <2>2 DEF Replay
    <3>2. /\ outbox'[i] \in Row
          /\ outbox'[i].status = "pending"
          /\ outbox'[i].attempts = 0
          /\ outbox'[i].locked_at = NullTime
          /\ outbox'[i].locked_by = NullToken
      BY <2>1, <3>1, ReplayedRow
    <3>. QED
      BY <2>1, <3>2 DEF NullTime
  <2>3. CASE i \notin S
    BY <2>1, <2>3 DEF Replay
  <2>. QED
    BY <2>2, <2>3
<1>3. outbox' \in [Ids -> Row]
  <2>1. outbox' = [i \in Ids |-> outbox'[i]]
    BY DEF Replay
  <2>. QED
    BY <1>2, <2>1
<1>. QED
  BY <1>1, <1>2, <1>3, QuietStepInv DEF Replay, TypeOK

\* Settling a claim unlocks at most the row the claim owns.
LEMMA MarkSucceededInv ==
    ASSUME IndInv, NEW w \in Workers, NEW c \in held[w], MarkSucceeded(w, c)
    PROVE  IndInv'
<1>1. TypeOK /\ LockedIffProcessing /\ AttemptsBounded
  BY DEF IndInv
<1>2. c \in Claim /\ c.id \in Ids /\ outbox[c.id] \in Row /\ clock \in Nat
  BY <1>1 DEF TypeOK, Claim
<1>3. /\ held' \in [Workers -> SUBSET Claim]
      /\ \A v \in Workers : held'[v] \subseteq held[v]
  BY <1>1 DEF MarkSucceeded, Drop, TypeOK
<1>4. CASE OwnsRow(c)
  <2>1. outbox' = [outbox EXCEPT ![c.id] = Unlocked(outbox[c.id], "succeeded")]
    BY <1>4 DEF MarkSucceeded
  <2>2. "succeeded" \in Statuses
    BY DEF Statuses
  <2>3. /\ Unlocked(outbox[c.id], "succeeded") \in Row
        /\ Unlocked(outbox[c.id], "succeeded").status = "succeeded"
        /\ Unlocked(outbox[c.id], "succeeded").attempts = outbox[c.id].attempts
        /\ Unlocked(outbox[c.id], "succeeded").locked_at = NullTime
        /\ Unlocked(outbox[c.id], "succeeded").locked_by = NullToken
    BY <1>2, <2>2, UnlockedRow
  <2>4. outbox' \in [Ids -> Row]
    BY <1>1, <2>1, <2>3 DEF TypeOK
  <2>5. \A i \in Ids :
          \/ outbox'[i] = outbox[i]
          \/ /\ outbox'[i].status \notin {"absent", "processing"}
             /\ outbox'[i].locked_by = NullToken
             /\ outbox'[i].locked_at <= clock
             /\ outbox'[i].attempts <= MaxAttempts
    BY <1>1, <1>2, <2>1, <2>3 DEF TypeOK, AttemptsBounded, NullTime
  <2>. QED
    BY <1>1, <1>3, <2>4, <2>5, QuietStepInv DEF MarkSucceeded, TypeOK
<1>5. CASE ~OwnsRow(c)
  BY <1>1, <1>3, <1>5, QuietStepInv DEF MarkSucceeded, TypeOK
<1>. QED
  BY <1>4, <1>5

\* A failure settles the row only under the claim that is current.
LEMMA MarkFailedInv ==
    ASSUME IndInv, NEW w \in Workers, NEW c \in held[w], MarkFailed(w, c)
    PROVE  IndInv'
<1>1. TypeOK /\ LockedIffProcessing /\ AttemptsBounded
  BY DEF IndInv
<1>2. c \in Claim /\ c.id \in Ids /\ c.attempts \in Nat /\ outbox[c.id] \in Row /\ clock \in Nat
  BY <1>1 DEF TypeOK, Claim
<1>3. /\ held' \in [Workers -> SUBSET Claim]
      /\ \A v \in Workers : held'[v] \subseteq held[v]
  BY <1>1 DEF MarkFailed, Drop, TypeOK
<1>4. CASE OwnsRow(c) /\ outbox[c.id].attempts = c.attempts
  <2>. DEFINE status == FailedStatus(c.attempts, c.stage)
              later == clock + RetryDelay(c.attempts)
  <2>1. outbox' = [outbox EXCEPT ![c.id] = Failed(outbox[c.id], status, later)]
    BY <1>4 DEF MarkFailed
  <2>2. status \in Statuses /\ status \notin {"absent", "processing"}
    BY DEF Statuses, FailedStatus
  <2>3. later \in Nat
    BY <1>2, RetryDelayType
  <2>. HIDE DEF status, later
  <2>4. /\ Failed(outbox[c.id], status, later) \in Row
        /\ Failed(outbox[c.id], status, later).status = status
        /\ Failed(outbox[c.id], status, later).attempts = outbox[c.id].attempts
        /\ Failed(outbox[c.id], status, later).locked_at = NullTime
        /\ Failed(outbox[c.id], status, later).locked_by = NullToken
    BY <1>2, <2>2, <2>3, FailedRow
  <2>5. outbox' \in [Ids -> Row]
    BY <1>1, <2>1, <2>4 DEF TypeOK
  <2>6. \A i \in Ids :
          \/ outbox'[i] = outbox[i]
          \/ /\ outbox'[i].status \notin {"absent", "processing"}
             /\ outbox'[i].locked_by = NullToken
             /\ outbox'[i].locked_at <= clock
             /\ outbox'[i].attempts <= MaxAttempts
    BY <1>1, <1>2, <2>1, <2>2, <2>4 DEF TypeOK, AttemptsBounded, NullTime
  <2>. QED
    BY <1>1, <1>3, <2>5, <2>6, QuietStepInv DEF MarkFailed, TypeOK
<1>5. CASE ~(OwnsRow(c) /\ outbox[c.id].attempts = c.attempts)
  BY <1>1, <1>3, <1>5, QuietStepInv DEF MarkFailed, TypeOK
<1>. QED
  BY <1>4, <1>5

\* A delivery changes the stage of one claim and nothing that identifies it.
LEMMA DeliverInv ==
    ASSUME IndInv, NEW w \in Workers, NEW c \in held[w],
           NEW stage \in Stages, NEW effect \in BOOLEAN, Deliver(w, c, stage, effect)
    PROVE  IndInv'
<1>. DEFINE moved == [c EXCEPT !.stage = stage]
<1>1. TypeOK /\ LockedIffProcessing /\ ClaimsFenced /\ AttemptsBounded
  BY DEF IndInv
<1>2. c \in Claim
  BY <1>1 DEF TypeOK
<1>3. /\ moved \in Claim /\ moved.id = c.id /\ moved.token = c.token
      /\ moved.attempts = c.attempts
  BY <1>2 DEF Claim
<1>. HIDE DEF moved
<1>4. held' = [held EXCEPT ![w] = (held[w] \ {c}) \union {moved}]
  BY DEF Deliver, Advance, moved
<1>5. /\ outbox' = outbox /\ clock' = clock /\ nextToken' = nextToken /\ replays' = replays
  BY DEF Deliver
<1>6. TypeOK'
  <2>1. held' \in [Workers -> SUBSET Claim]
    BY <1>1, <1>3, <1>4 DEF TypeOK
  <2>2. c.token \in Nat /\ c.id \in Ids
    BY <1>2 DEF Claim
  <2>3. delivered' \in [Ids -> SUBSET Nat]
    BY <1>1, <2>2 DEF Deliver, TypeOK
  <2>. QED
    BY <1>1, <1>5, <2>1, <2>3 DEF TypeOK
<1>7. ClaimsFenced'
  \* Every claim held now has a counterpart before, with the same identity.
  <2>1. \A v \in Workers : \A d \in held'[v] :
          \/ d \in held[v] /\ ~(v = w /\ d = c)
          \/ v = w /\ d = moved
    BY <1>1, <1>4 DEF TypeOK
  <2>. SUFFICES ASSUME NEW v \in Workers, NEW d \in held'[v]
                PROVE  /\ d.token < nextToken'
                       /\ OwnsRow(d)' => outbox'[d.id].attempts = d.attempts
                       /\ \A u \in Workers : \A e \in held'[u] :
                            d.id = e.id /\ d.token = e.token => u = v /\ d = e
    BY DEF ClaimsFenced
  <2>2. /\ d.token < nextToken'
        /\ OwnsRow(d)' => outbox'[d.id].attempts = d.attempts
    BY <1>1, <1>3, <1>5, <2>1 DEF ClaimsFenced, OwnsRow
  <2>3. ASSUME NEW u \in Workers, NEW e \in held'[u], d.id = e.id, d.token = e.token
        PROVE  u = v /\ d = e
    BY <1>1, <1>3, <2>1, <2>3 DEF ClaimsFenced
  <2>. QED
    BY <2>2, <2>3
<1>. QED
  BY <1>1, <1>5, <1>6, <1>7 DEF IndInv, LockedIffProcessing, AttemptsBounded

\* Every step keeps the invariant.
LEMMA NextInv == IndInv /\ [Next]_vars => IndInv'
<1>. SUFFICES ASSUME IndInv, [Next]_vars PROVE IndInv'
  OBVIOUS
<1>0. TypeOK
  BY DEF IndInv
<1>1. CASE Tick
  BY <1>0, <1>1, QuietStepInv DEF Tick, TypeOK
<1>2. ASSUME NEW S \in SUBSET Ids, Enqueue(S) PROVE IndInv'
  BY <1>2, EnqueueInv
<1>3. ASSUME NEW w \in Workers, WorkerStep(w) PROVE IndInv'
  <2>1. ASSUME NEW locked \in LockedRows, ClaimBatch(w, locked) PROVE IndInv'
    BY <2>1, ClaimBatchInv
  <2>2. ASSUME NEW c \in held[w], NEW stage \in Stages \ {"queued"},
               NEW effect \in BOOLEAN, Deliver(w, c, stage, effect)
        PROVE  IndInv'
    BY <2>2, DeliverInv
  <2>3. ASSUME NEW c \in held[w], MarkSucceeded(w, c) PROVE IndInv'
    BY <2>3, MarkSucceededInv
  <2>4. ASSUME NEW c \in held[w], MarkFailed(w, c) PROVE IndInv'
    BY <2>4, MarkFailedInv
  <2>5. ASSUME NEW c \in held[w], MarkLost(w, c) PROVE IndInv'
    BY <1>0, <2>5, QuietStepInv DEF MarkLost, Drop, TypeOK
  <2>6. CASE Crash(w)
    BY <1>0, <2>6, QuietStepInv DEF Crash, TypeOK
  <2>. QED
    BY <1>3, <2>1, <2>2, <2>3, <2>4, <2>5, <2>6 DEF WorkerStep
<1>4. ASSUME NEW t \in Tenants, NEW S \in SUBSET Ids, Replay(t, S) PROVE IndInv'
  BY <1>4, ReplayInv
<1>5. CASE UNCHANGED vars
  BY <1>0, <1>5, QuietStepInv DEF vars, TypeOK
<1>. QED
  BY <1>1, <1>2, <1>3, <1>4, <1>5 DEF Next

\* Claims are fenced, locks follow the status and no row exceeds its attempts,
\* for any number of rows, workers and tenants.
THEOREM InductiveInvariant == Spec => []IndInv
<1>1. Init => IndInv
  BY InitInv
<1>2. IndInv /\ [Next]_vars => IndInv'
  BY NextInv
<1>. QED
  BY <1>1, <1>2, PTL DEF Spec

\* Rows, leases, claims and budgets keep their shape through every handler.
THEOREM TypeCorrect == Spec => []TypeOK
<1>1. IndInv => TypeOK
  BY DEF IndInv
<1>. QED
  BY <1>1, InductiveInvariant, PTL

\* mark_completed and mark_failed never settle a row that another worker holds.
THEOREM ClaimsAreFenced == Spec => []ClaimsFenced
<1>1. IndInv => ClaimsFenced
  BY DEF IndInv
<1>. QED
  BY <1>1, InductiveInvariant, PTL

-----------------------------------------------------------------------------
(* One active row per action. *)

\* Rows become active only by an insert or a replay that the index admits.
LEMMA ActivationStep ==
    ASSUME IndInv, [Next]_vars
    PROVE  \E S \in SUBSET Ids :
             /\ IndexAdmits(S)
             /\ \A i \in Ids : Active(i)' => Active(i) \/ i \in S
<1>. DEFINE Goal == \E S \in SUBSET Ids :
                      /\ IndexAdmits(S)
                      /\ \A i \in Ids : Active(i)' => Active(i) \/ i \in S
<1>0. TypeOK
  BY DEF IndInv
<1>1. ASSUME \A i \in Ids : Active(i)' => Active(i) PROVE Goal
  <2>1. IndexAdmits({})
    BY DEF IndexAdmits
  <2>. QED
    BY <1>1, <2>1
<1>2. ASSUME outbox' = outbox PROVE Goal
  BY <1>1, <1>2 DEF Active
<1>3. ASSUME NEW S \in SUBSET Ids, Enqueue(S) PROVE Goal
  <2>1. IndexAdmits(S) /\ \A i \in Ids : i \notin S => outbox'[i] = outbox[i]
    BY <1>3 DEF Enqueue
  <2>2. \A i \in Ids : Active(i)' => Active(i) \/ i \in S
    BY <2>1 DEF Active
  <2>. QED
    BY <2>1, <2>2
<1>4. ASSUME NEW t \in Tenants, NEW S \in SUBSET Ids, Replay(t, S) PROVE Goal
  <2>1. IndexAdmits(S) /\ \A i \in Ids : i \notin S => outbox'[i] = outbox[i]
    BY <1>4 DEF Replay
  <2>2. \A i \in Ids : Active(i)' => Active(i) \/ i \in S
    BY <2>1 DEF Active
  <2>. QED
    BY <2>1, <2>2
<1>5. ASSUME NEW w \in Workers, NEW locked, ClaimBatch(w, locked) PROVE Goal
  <2>1. \A i \in Ids : outbox'[i] # outbox[i] => i \in ExpiredFinal \/ i \in Batch(locked)
    BY <1>5 DEF ClaimBatch
  <2>2. \A i \in ExpiredFinal \union Batch(locked) : Active(i)
    BY BatchFacts DEF ExpiredFinal, Eligible, LeaseExpired, Active, ActiveStatuses
  <2>3. \A i \in Ids : Active(i)' => Active(i)
    BY <2>1, <2>2 DEF Active
  <2>. QED
    BY <1>1, <2>3
<1>6. ASSUME NEW w \in Workers, NEW c \in held[w], MarkSucceeded(w, c) \/ MarkFailed(w, c)
      PROVE  Goal
  <2>1. c.id \in Ids
    BY <1>0 DEF TypeOK, Claim
  <2>2. \A i \in Ids : outbox'[i] # outbox[i] => i = c.id /\ OwnsRow(c)
    BY <1>0, <1>6, <2>1 DEF MarkSucceeded, MarkFailed, TypeOK
  <2>3. \A i \in Ids : Active(i)' => Active(i)
    BY <2>2 DEF Active, ActiveStatuses, OwnsRow
  <2>. QED
    BY <1>1, <2>3
<1>7. ASSUME NEW w \in Workers, WorkerStep(w) PROVE Goal
  <2>. USE DEF Deliver, MarkLost, Crash
  <2>. QED
    BY <1>2, <1>5, <1>6, <1>7 DEF WorkerStep
<1>8. CASE Tick
  BY <1>2, <1>8 DEF Tick
<1>9. CASE UNCHANGED vars
  BY <1>2, <1>9 DEF vars
<1>. QED
  BY <1>3, <1>4, <1>7, <1>8, <1>9 DEF Next

\* At most one active row per tenant, event type and idempotency key.
THEOREM OneActiveRowPerKey == Spec => []KeyExclusive
<1>1. Init => KeyExclusive
  BY DEF Init, KeyExclusive, Active, ActiveStatuses
<1>2. KeyExclusive /\ IndInv /\ [Next]_vars => KeyExclusive'
  <2>. SUFFICES ASSUME KeyExclusive, IndInv, [Next]_vars,
                       NEW i \in Ids, NEW j \in Ids,
                       Active(i)', Active(j)', KeyOf[i] = KeyOf[j]
                PROVE  i = j
    BY DEF KeyExclusive
  <2>1. PICK S \in SUBSET Ids :
          /\ IndexAdmits(S)
          /\ \A k \in Ids : Active(k)' => Active(k) \/ k \in S
    BY ActivationStep
  <2>2. CASE i \in S
    BY <2>1, <2>2 DEF IndexAdmits
  <2>3. CASE j \in S
    BY <2>1, <2>3 DEF IndexAdmits
  <2>4. CASE i \notin S /\ j \notin S
    BY <2>1, <2>4 DEF KeyExclusive
  <2>. QED
    BY <2>2, <2>3, <2>4
<1>. QED
  BY <1>1, <1>2, InductiveInvariant, PTL DEF Spec

-----------------------------------------------------------------------------
(* A live lease belongs to its holder. *)

\* A step that changes a claimed row before its lease runs out is the holder
\* settling that very claim.
THEOREM LiveLeaseIsExclusive == Spec => LeaseExclusive
<1>. DEFINE Step == \A i \in Ids :
                      /\ outbox[i].status = "processing"
                      /\ clock < outbox[i].locked_at + Lease
                      /\ outbox'[i] # outbox[i]
                      => \E w \in Workers : \E c \in held[w] \ held'[w] :
                              c.id = i /\ c.token = outbox[i].locked_by
<1>1. ASSUME IndInv, [Next]_vars PROVE Step
  <2>. SUFFICES ASSUME NEW i \in Ids,
                       outbox[i].status = "processing",
                       clock < outbox[i].locked_at + Lease,
                       outbox'[i] # outbox[i]
                PROVE  \E w \in Workers : \E c \in held[w] \ held'[w] :
                          c.id = i /\ c.token = outbox[i].locked_by
    OBVIOUS
  <2>0. TypeOK
    BY <1>1 DEF IndInv
  <2>. clock \in Nat /\ Lease \in Nat /\ outbox[i].locked_at \in Nat
    BY <2>0, OutboxAssumption DEF TypeOK, Row
  <2>. ~LeaseExpired(outbox[i])
    BY DEF LeaseExpired
  <2>1. ASSUME NEW S \in SUBSET Ids, Enqueue(S) PROVE FALSE
    BY <2>1 DEF Enqueue
  <2>2. ASSUME NEW t \in Tenants, NEW S \in SUBSET Ids, Replay(t, S) PROVE FALSE
    BY <2>2 DEF Replay, DeadLetters
  <2>3. ASSUME NEW w \in Workers, NEW locked, ClaimBatch(w, locked) PROVE FALSE
    <3>1. i \in ExpiredFinal \/ i \in Eligible
      BY <2>3, BatchFacts DEF ClaimBatch
    <3>. QED
      BY <3>1 DEF ExpiredFinal, Eligible
  <2>4. ASSUME NEW w \in Workers, NEW c \in held[w], MarkSucceeded(w, c) \/ MarkFailed(w, c)
        PROVE  c \in held[w] \ held'[w] /\ c.id = i /\ c.token = outbox[i].locked_by
    <3>1. c.id \in Ids
      BY <2>0 DEF TypeOK, Claim
    <3>2. c.id = i /\ OwnsRow(c)
      BY <2>0, <2>4, <3>1 DEF MarkSucceeded, MarkFailed, TypeOK
    <3>3. c \notin held'[w]
      BY <2>0, <2>4 DEF MarkSucceeded, MarkFailed, Drop, TypeOK
    <3>. QED
      BY <3>2, <3>3 DEF OwnsRow
  <2>5. ASSUME NEW w \in Workers, WorkerStep(w)
        PROVE  \E c \in held[w] \ held'[w] : c.id = i /\ c.token = outbox[i].locked_by
    BY <2>3, <2>4, <2>5 DEF WorkerStep, Deliver, MarkLost, Crash
  <2>6. ~Tick /\ ~UNCHANGED vars
    BY DEF Tick, vars
  <2>. QED
    BY <1>1, <2>1, <2>2, <2>5, <2>6 DEF Next
<1>2. IndInv /\ [Next]_vars => [Step]_vars
  BY <1>1
<1>. QED
  BY <1>2, InductiveInvariant, PTL DEF Spec, LeaseExclusive

-----------------------------------------------------------------------------
(* The outbox implements the ledger. *)

\* Nothing of the table's clocks, leases, batches and workers shows in the
\* ledger: every step is one ledger step or leaves the ledger as it is.
THEOREM RefinesLedger == Spec => ImplementsLedger
<1>1. Init => Ledger!LedgerInit
  <2>. SUFFICES ASSUME Init PROVE Ledger!LedgerInit
    OBVIOUS
  <2>1. \A i \in Ids : /\ outbox[i].status = "absent"
                       /\ outbox[i].attempts = 0
                       /\ outbox[i].locked_by = 0
    BY DEF Init, NullToken
  <2>2. \A i \in Ids : LedgerState(i) = "absent"
    BY <2>1 DEF LedgerState, Active, ActiveStatuses
  <2>3. \A i \in Ids : MaxAttempts - outbox[i].attempts = MaxAttempts
    BY <2>1, OutboxAssumption
  <2>4. nextToken - 1 = 0
    BY DEF Init
  <2>. QED
    BY <2>1, <2>2, <2>3, <2>4 DEF Ledger!LedgerInit
<1>2. ASSUME IndInv, [Next]_vars
      PROVE  Ledger!LedgerNext \/ UNCHANGED Ledger!ledgerVars
  <2>0. /\ TypeOK /\ LockedIffProcessing /\ ClaimsFenced /\ AttemptsBounded
        /\ \A i \in Ids : outbox[i] \in Row
        /\ nextToken \in Nat /\ nextToken # 0
        /\ MaxAttempts \in Nat /\ clock \in Nat
    BY <1>2, OutboxAssumption DEF IndInv, TypeOK, NullToken
  <2>a. \A i \in Ids :
          /\ outbox[i].status = "absent" => LedgerState(i) = "absent"
          /\ outbox[i].status \in ActiveStatuses => LedgerState(i) = "open"
          /\ outbox[i].status = "dead_letter" => LedgerState(i) = "dead"
          /\ outbox[i].status \notin ActiveStatuses => LedgerState(i) # "open"
          /\ outbox'[i].status \in ActiveStatuses => LedgerState(i)' = "open"
          /\ outbox'[i].status = "succeeded" => LedgerState(i)' = "done"
          /\ outbox'[i].status = "dead_letter" => LedgerState(i)' = "dead"
          /\ outbox'[i] = outbox[i] => LedgerState(i)' = LedgerState(i)
    BY DEF LedgerState, Active, ActiveStatuses
  <2>1. ASSUME outbox' = outbox, nextToken' = nextToken PROVE UNCHANGED Ledger!ledgerVars
    BY <2>1, <2>a DEF Ledger!ledgerVars
  \* Inserted and replayed rows are the entries the ledger opens.
  <2>2. ASSUME NEW S \in SUBSET Ids, IndexAdmits(S), nextToken' = nextToken,
               \A i \in S : outbox[i].status \in {"absent", "dead_letter"},
               \A i \in Ids : IF i \in S
                              THEN /\ outbox'[i].status = "pending"
                                   /\ outbox'[i].attempts = 0
                                   /\ outbox'[i].locked_by = 0
                              ELSE outbox'[i] = outbox[i]
        PROVE  Ledger!LedgerNext
    <3>1. Ledger!Distinct(S)
      BY <2>2, <2>a DEF Ledger!Distinct, IndexAdmits, Active
    <3>2. \A i \in Ids : LedgerState(i)' = IF i \in S THEN "open" ELSE LedgerState(i)
      BY <2>2, <2>a DEF ActiveStatuses
    <3>3. \A i \in Ids : MaxAttempts - outbox'[i].attempts =
                            IF i \in S THEN MaxAttempts ELSE MaxAttempts - outbox[i].attempts
      BY <2>0, <2>2
    <3>4. \A i \in Ids : outbox'[i].locked_by = IF i \in S THEN 0 ELSE outbox[i].locked_by
      BY <2>2
    <3>5. \A i \in S : LedgerState(i) \in {"absent", "dead"}
      BY <2>2, <2>a
    <3>6. Ledger!Open(S)
      BY <2>2, <3>1, <3>2, <3>3, <3>4, <3>5 DEF Ledger!Open
    <3>. QED
      BY <3>6 DEF Ledger!LedgerNext
  <2>3. ASSUME NEW S \in SUBSET Ids, Enqueue(S) PROVE Ledger!LedgerNext
    <3>1. \A i \in S : outbox[i].status = "absent"
      BY <2>3 DEF Enqueue
    <3>2. \A i \in Ids : IF i \in S
                         THEN /\ outbox'[i].status = "pending"
                              /\ outbox'[i].attempts = 0
                              /\ outbox'[i].locked_by = 0
                         ELSE outbox'[i] = outbox[i]
      <4>. TAKE i \in Ids
      <4>1. CASE i \in S
        <5>1. outbox'[i] = Inserted(outbox[i], clock)
          BY <2>3, <4>1 DEF Enqueue
        <5>2. /\ outbox'[i].status = "pending"
              /\ outbox'[i].attempts = outbox[i].attempts
              /\ outbox'[i].locked_by = outbox[i].locked_by
          BY <2>0, <5>1, InsertedRow
        <5>3. outbox[i].attempts = 0 /\ outbox[i].locked_by = 0
          BY <2>0, <3>1, <4>1 DEF AttemptsBounded, LockedIffProcessing, NullToken
        <5>. QED
          BY <4>1, <5>2, <5>3
      <4>2. CASE i \notin S
        BY <2>3, <4>2 DEF Enqueue
      <4>. QED
        BY <4>1, <4>2
    <3>3. IndexAdmits(S) /\ nextToken' = nextToken
      BY <2>3 DEF Enqueue
    <3>. QED
      BY <2>2, <3>1, <3>2, <3>3
  <2>4. ASSUME NEW t \in Tenants, NEW S \in SUBSET Ids, Replay(t, S) PROVE Ledger!LedgerNext
    <3>1. \A i \in S : outbox[i].status = "dead_letter"
      BY <2>4 DEF Replay, DeadLetters
    <3>2. \A i \in Ids : IF i \in S
                         THEN /\ outbox'[i].status = "pending"
                              /\ outbox'[i].attempts = 0
                              /\ outbox'[i].locked_by = 0
                         ELSE outbox'[i] = outbox[i]
      <4>. TAKE i \in Ids
      <4>1. CASE i \in S
        <5>1. outbox'[i] = Replayed(outbox[i], clock)
          BY <2>4, <4>1 DEF Replay
        <5>2. /\ outbox'[i].status = "pending"
              /\ outbox'[i].attempts = 0
              /\ outbox'[i].locked_by = NullToken
          BY <2>0, <5>1, ReplayedRow
        <5>. QED
          BY <4>1, <5>2 DEF NullToken
      <4>2. CASE i \notin S
        BY <2>4, <4>2 DEF Replay
      <4>. QED
        BY <4>1, <4>2
    <3>3. IndexAdmits(S) /\ nextToken' = nextToken
      BY <2>4 DEF Replay
    <3>. QED
      BY <2>2, <3>1, <3>2, <3>3
  \* A claim is a grant; the leases it buries are the entries out of budget.
  <2>5. ASSUME NEW w \in Workers, NEW locked, ClaimBatch(w, locked) PROVE Ledger!LedgerNext
    <3>0. PICK S \in SUBSET Ids, D \in SUBSET Ids : S = Batch(locked) /\ D = ExpiredFinal
      BY BatchFacts, Zenon
    <3>1. S \in SUBSET Ids /\ D \in SUBSET Ids
      OBVIOUS
    <3>2. /\ \A i \in S : outbox[i].status \in ActiveStatuses /\ outbox[i].attempts < MaxAttempts
          /\ \A i \in D : outbox[i].status \in ActiveStatuses /\ outbox[i].attempts >= MaxAttempts
      BY <3>0, BatchFacts DEF ExpiredFinal, Eligible, LeaseExpired, ActiveStatuses
    <3>3. \A i \in Ids :
            /\ i \in D => /\ outbox'[i].status = "dead_letter"
                          /\ outbox'[i].attempts = outbox[i].attempts
                          /\ outbox'[i].locked_by = 0
            /\ i \notin D /\ i \in S => /\ outbox'[i].status = "processing"
                                        /\ outbox'[i].attempts = outbox[i].attempts + 1
                                        /\ outbox'[i].locked_by = nextToken
            /\ i \notin D /\ i \notin S => outbox'[i] = outbox[i]
      <4>. TAKE i \in Ids
      <4>1. CASE i \in D
        <5>1. outbox'[i] = Unlocked(outbox[i], "dead_letter") /\ "dead_letter" \in Statuses
          BY <2>5, <3>0, <4>1 DEF ClaimBatch, Statuses
        <5>2. /\ outbox'[i].status = "dead_letter"
              /\ outbox'[i].attempts = outbox[i].attempts
              /\ outbox'[i].locked_by = NullToken
          BY <2>0, <5>1, UnlockedRow
        <5>. QED
          BY <4>1, <5>2 DEF NullToken
      <4>2. CASE i \notin D /\ i \in S
        <5>1. outbox'[i] = Claimed(outbox[i], clock, nextToken)
          BY <2>5, <3>0, <4>2 DEF ClaimBatch
        <5>2. /\ outbox'[i].status = "processing"
              /\ outbox'[i].attempts = outbox[i].attempts + 1
              /\ outbox'[i].locked_by = nextToken
          BY <2>0, <5>1, ClaimedRow
        <5>. QED
          BY <4>2, <5>2
      <4>3. CASE i \notin D /\ i \notin S
        BY <2>5, <3>0, <4>3 DEF ClaimBatch
      <4>. QED
        BY <4>1, <4>2, <4>3
    <3>4. nextToken' = IF S = {} THEN nextToken ELSE nextToken + 1
      BY <2>5, <3>0 DEF ClaimBatch
    <3>5. \A i \in Ids : outbox[i].attempts \in Nat /\ outbox[i].attempts <= MaxAttempts
      BY <2>0 DEF AttemptsBounded, Row
    <3>6. \A i \in S : i \notin D
      BY <2>0, <3>1, <3>2, <3>5
    <3>7. \A i \in Ids : LedgerState(i)' = IF i \in D THEN "dead" ELSE LedgerState(i)
      BY <2>a, <3>2, <3>3 DEF ActiveStatuses
    <3>8. \A i \in Ids : MaxAttempts - outbox'[i].attempts =
                            IF i \in S THEN MaxAttempts - outbox[i].attempts - 1
                            ELSE MaxAttempts - outbox[i].attempts
      BY <2>0, <3>3, <3>5, <3>6
    <3>9. \A i \in Ids : outbox'[i].locked_by =
                            IF i \in D THEN 0
                            ELSE IF i \in S THEN nextToken - 1 + 1 ELSE outbox[i].locked_by
      BY <2>0, <3>3
    <3>10. nextToken' - 1 = IF S = {} THEN nextToken - 1 ELSE nextToken - 1 + 1
      BY <2>0, <3>4
    <3>11. /\ \A i \in S : LedgerState(i) = "open" /\ MaxAttempts - outbox[i].attempts > 0
           /\ \A i \in D : LedgerState(i) = "open" /\ MaxAttempts - outbox[i].attempts = 0
      BY <2>0, <2>a, <3>1, <3>2, <3>5
    <3>12. Ledger!Grant(S, D)
      BY <3>1, <3>7, <3>8, <3>9, <3>10, <3>11 DEF Ledger!Grant
    <3>. QED
      BY <3>12 DEF Ledger!LedgerNext
  \* A settlement that finds its claim intact ends the grant.
  <2>6. ASSUME NEW w \in Workers, NEW c \in held[w], MarkSucceeded(w, c) \/ MarkFailed(w, c)
        PROVE  Ledger!LedgerNext \/ UNCHANGED Ledger!ledgerVars
    <3>1. c \in Claim /\ c.id \in Ids /\ c.attempts \in Nat /\ nextToken' = nextToken
      BY <2>0, <2>6 DEF TypeOK, Claim, MarkSucceeded, MarkFailed
    <3>2. CASE outbox' = outbox
      BY <2>1, <3>1, <3>2
    <3>3. CASE outbox' # outbox
      <4>1. /\ outbox[c.id].status = "processing" /\ outbox[c.id].locked_by # 0
            /\ outbox[c.id].attempts = c.attempts
        <5>1. OwnsRow(c)
          BY <2>6, <3>3 DEF MarkSucceeded, MarkFailed
        <5>2. outbox[c.id].attempts = c.attempts
          BY <2>0, <5>1 DEF ClaimsFenced
        <5>. QED
          BY <2>0, <3>1, <5>1, <5>2 DEF OwnsRow, LockedIffProcessing, NullToken
      <4>2. PICK s \in {"failed", "succeeded", "dead_letter"} :
              /\ outbox' = [outbox EXCEPT ![c.id] = outbox'[c.id]]
              /\ outbox'[c.id].status = s
              /\ s = "failed" => c.attempts < MaxAttempts
              /\ outbox'[c.id].attempts = outbox[c.id].attempts
              /\ outbox'[c.id].locked_by = 0
        <5>1. CASE MarkSucceeded(w, c)
          <6>1. /\ outbox' = [outbox EXCEPT ![c.id] = Unlocked(outbox[c.id], "succeeded")]
                /\ "succeeded" \in Statuses
            BY <3>3, <5>1 DEF MarkSucceeded, Statuses
          <6>2. outbox'[c.id] = Unlocked(outbox[c.id], "succeeded")
            BY <2>0, <3>1, <6>1 DEF TypeOK
          <6>3. /\ outbox'[c.id].status = "succeeded"
                /\ outbox'[c.id].attempts = outbox[c.id].attempts
                /\ outbox'[c.id].locked_by = NullToken
            BY <2>0, <3>1, <6>1, <6>2, UnlockedRow
          <6>. QED
            BY <6>1, <6>2, <6>3 DEF NullToken
        <5>2. CASE MarkFailed(w, c)
          <6>. DEFINE status == FailedStatus(c.attempts, c.stage)
                      later == clock + RetryDelay(c.attempts)
          <6>1. outbox' = [outbox EXCEPT ![c.id] = Failed(outbox[c.id], status, later)]
            BY <3>3, <5>2 DEF MarkFailed
          <6>2. /\ status \in Statuses /\ status \in {"failed", "dead_letter"}
                /\ status = "failed" => c.attempts < MaxAttempts
            BY <2>0, <3>1 DEF FailedStatus, Statuses
          <6>3. later \in Nat
            BY <2>0, <3>1, RetryDelayType
          <6>. HIDE DEF status, later
          <6>4. outbox'[c.id] = Failed(outbox[c.id], status, later)
            BY <2>0, <3>1, <6>1 DEF TypeOK
          <6>5. /\ outbox'[c.id].status = status
                /\ outbox'[c.id].attempts = outbox[c.id].attempts
                /\ outbox'[c.id].locked_by = NullToken
            BY <2>0, <3>1, <6>2, <6>3, <6>4, FailedRow
          <6>. QED
            BY <6>1, <6>2, <6>4, <6>5 DEF NullToken
        <5>. QED
          BY <2>6, <5>1, <5>2
      <4>. DEFINE entry == IF s = "failed" THEN "open" ELSE IF s = "succeeded" THEN "done" ELSE "dead"
      <4>3. \A i \in Ids : i # c.id => outbox'[i] = outbox[i]
        BY <2>0, <3>1, <4>2 DEF TypeOK
      <4>4. \A i \in Ids : LedgerState(i)' = IF i = c.id THEN entry ELSE LedgerState(i)
        BY <2>a, <3>1, <4>2, <4>3 DEF ActiveStatuses
      <4>5. \A i \in Ids : outbox'[i].locked_by = IF i = c.id THEN 0 ELSE outbox[i].locked_by
        BY <4>2, <4>3
      <4>6. \A i \in Ids : MaxAttempts - outbox'[i].attempts = MaxAttempts - outbox[i].attempts
        BY <3>1, <4>2, <4>3
      <4>7. LedgerState(c.id) = "open"
        BY <2>a, <3>1, <4>1 DEF ActiveStatuses
      <4>8. entry = "open" => MaxAttempts - outbox[c.id].attempts > 0
        BY <2>0, <3>1, <4>1, <4>2
      <4>9. entry \in {"open", "done", "dead"}
        OBVIOUS
      <4>. HIDE DEF entry
      <4>10. Ledger!Settle(c.id, entry)
        BY <3>1, <4>1, <4>4, <4>5, <4>6, <4>7, <4>8 DEF Ledger!Settle
      <4>. QED
        BY <3>1, <4>9, <4>10 DEF Ledger!LedgerNext
    <3>. QED
      BY <3>2, <3>3
  <2>7. ASSUME NEW w \in Workers, WorkerStep(w)
        PROVE  Ledger!LedgerNext \/ UNCHANGED Ledger!ledgerVars
    BY <2>1, <2>5, <2>6, <2>7 DEF WorkerStep, Deliver, MarkLost, Crash
  <2>8. CASE Tick
    BY <2>1, <2>8 DEF Tick
  <2>9. CASE UNCHANGED vars
    BY <2>1, <2>9 DEF vars
  <2>. QED
    BY <1>2, <2>3, <2>4, <2>7, <2>8, <2>9 DEF Next
<1>. QED
  BY <1>1, <1>2, InductiveInvariant, PTL DEF Spec, ImplementsLedger, Ledger!LedgerSpec

-----------------------------------------------------------------------------
(* The delivery budget. *)

\* The claims under which the effect of row i has happened or still may.
Chances(i) == {n \in Nat : n \in delivered[i] \/
                  \E w \in Workers : \E c \in held[w] : c.id = i /\ c.token = n}

\* Every chance was paid for by an attempt of the row, since its last replay
\* or before an earlier one.
ChancesPaid ==
    \A i \in Ids :
        /\ IsFiniteSet(Chances(i))
        /\ Cardinality(Chances(i)) <= MaxAttempts * replays + outbox[i].attempts

\* A step after which every row has the chances it had, or fewer, and an
\* allowance that is not smaller.
LEMMA FewerChances ==
    ASSUME ChancesPaid, TypeOK,
           \A i \in Ids :
              /\ Chances(i)' \subseteq Chances(i)
              /\ MaxAttempts * replays + outbox[i].attempts
                    <= (MaxAttempts * replays + outbox[i].attempts)'
              /\ (MaxAttempts * replays + outbox[i].attempts)' \in Nat
    PROVE  ChancesPaid'
<1>. SUFFICES ASSUME NEW i \in Ids
              PROVE  /\ IsFiniteSet(Chances(i)')
                     /\ Cardinality(Chances(i)') <= (MaxAttempts * replays + outbox[i].attempts)'
  BY DEF ChancesPaid
<1>. DEFINE S == Chances(i)
            T == Chances(i)'
            m == MaxAttempts * replays + outbox[i].attempts
            n == (MaxAttempts * replays + outbox[i].attempts)'
<1>1. IsFiniteSet(S) /\ Cardinality(S) <= m
  BY DEF ChancesPaid
<1>2. T \in SUBSET S /\ m <= n /\ n \in Nat
  OBVIOUS
<1>3. m \in Nat
  BY OutboxAssumption DEF TypeOK, Row
<1>. HIDE DEF S, T, m, n
<1>4. IsFiniteSet(T) /\ Cardinality(T) <= Cardinality(S)
  BY <1>1, <1>2, FS_Subset
<1>5. Cardinality(T) \in Nat /\ Cardinality(S) \in Nat
  BY <1>1, <1>4, FS_CardinalityType
<1>6. IsFiniteSet(T) /\ Cardinality(T) <= n
  BY <1>1, <1>2, <1>3, <1>4, <1>5
<1>. QED
  BY <1>6 DEF T, n

\* A worker that delivers, settles, loses or drops what it holds creates no
\* chance that was not there.
LEMMA WorkersAddNoChance ==
    ASSUME IndInv, ChancesPaid, NEW w \in Workers,
           replays' = replays,
           \A i \in Ids : outbox'[i].attempts = outbox[i].attempts,
           held' = [held EXCEPT ![w] = held'[w]],
           \A d \in held'[w] : \E c \in held[w] : c.id = d.id /\ c.token = d.token,
           \A i \in Ids : \A n \in delivered'[i] :
              n \in delivered[i] \/ \E c \in held[w] : c.id = i /\ c.token = n
    PROVE  ChancesPaid'
<1>1. TypeOK
  BY DEF IndInv
<1>2. ASSUME NEW i \in Ids PROVE Chances(i)' \subseteq Chances(i)
  <2>. SUFFICES ASSUME NEW n \in Nat, n \in Chances(i)' PROVE n \in Chances(i)
    BY DEF Chances
  <2>1. CASE n \in delivered'[i]
    BY <2>1 DEF Chances
  <2>2. CASE \E v \in Workers : \E c \in held'[v] : c.id = i /\ c.token = n
    <3>1. PICK v \in Workers : \E c \in held'[v] : c.id = i /\ c.token = n
      BY <2>2
    <3>2. CASE v = w
      BY <3>1, <3>2 DEF Chances
    <3>3. CASE v # w
      <4>1. held'[v] = held[v]
        BY <1>1, <3>3 DEF TypeOK
      <4>. QED
        BY <3>1, <4>1 DEF Chances
    <3>. QED
      BY <3>2, <3>3
  <2>. QED
    BY <2>1, <2>2 DEF Chances
<1>3. \A i \in Ids : MaxAttempts * replays + outbox[i].attempts \in Nat
  BY <1>1, OutboxAssumption DEF TypeOK, Row
<1>. QED
  BY <1>1, <1>2, <1>3, FewerChances

\* A claim gives each row of its batch one chance more, and takes an attempt.
LEMMA ClaimsArePaid ==
    ASSUME IndInv, ChancesPaid, NEW w \in Workers, NEW locked, ClaimBatch(w, locked)
    PROVE  ChancesPaid'
<1>1. TypeOK
  BY DEF IndInv
<1>2. /\ Batch(locked) \subseteq Ids
      /\ \A i \in Batch(locked) : outbox[i].attempts < MaxAttempts
      /\ \A i \in ExpiredFinal : outbox[i].attempts >= MaxAttempts
  BY BatchFacts DEF ExpiredFinal
<1>3. /\ replays' = replays /\ delivered' = delivered
      /\ \A v \in Workers : v # w => held'[v] = held[v]
      /\ held'[w] = {[id |-> i, token |-> nextToken, attempts |-> outbox[i].attempts + 1,
                      stage |-> "queued"] : i \in Batch(locked)}
  BY <1>1 DEF ClaimBatch, TypeOK
<1>4. ASSUME NEW i \in Ids
      PROVE  /\ outbox[i].attempts \in Nat
             /\ i \in Batch(locked) => outbox'[i].attempts = outbox[i].attempts + 1
             /\ i \notin Batch(locked) => outbox'[i].attempts = outbox[i].attempts
  <2>1. outbox[i] \in Row /\ clock \in Nat /\ nextToken \in Nat
    BY <1>1 DEF TypeOK
  <2>2. outbox[i].attempts \in Nat
    BY <2>1 DEF Row
  <2>3. outbox'[i] = IF i \in ExpiredFinal THEN Unlocked(outbox[i], "dead_letter")
                     ELSE IF i \in Batch(locked) THEN Claimed(outbox[i], clock, nextToken)
                     ELSE outbox[i]
    BY DEF ClaimBatch
  <2>4. CASE i \in ExpiredFinal
    <3>1. i \notin Batch(locked)
      BY <1>2, <2>2, <2>4, OutboxAssumption
    <3>. QED
      BY <2>1, <2>2, <2>3, <2>4, <3>1, UnlockedRow DEF Statuses
  <2>5. CASE i \notin ExpiredFinal /\ i \in Batch(locked)
    <3>1. outbox'[i] = Claimed(outbox[i], clock, nextToken)
      BY <2>3, <2>5
    <3>2. Claimed(outbox[i], clock, nextToken).attempts = outbox[i].attempts + 1
      <4>1. \A r \in Row, now, token \in Nat : Claimed(r, now, token).attempts = r.attempts + 1
        BY ClaimedRow
      <4>. QED
        BY <2>1, <4>1
    <3>. QED
      BY <2>2, <2>5, <3>1, <3>2
  <2>6. CASE i \notin ExpiredFinal /\ i \notin Batch(locked)
    BY <2>2, <2>3, <2>6
  <2>. QED
    BY <2>4, <2>5, <2>6
<1>5. ASSUME NEW i \in Ids
      PROVE  /\ i \in Batch(locked) => Chances(i)' \subseteq Chances(i) \cup {nextToken}
             /\ i \notin Batch(locked) => Chances(i)' \subseteq Chances(i)
  <2>. SUFFICES ASSUME NEW n \in Nat, n \in Chances(i)', n \notin Chances(i)
                PROVE  i \in Batch(locked) /\ n = nextToken
    BY DEF Chances
  <2>1. PICK v \in Workers : \E c \in held'[v] : c.id = i /\ c.token = n
    BY <1>3 DEF Chances
  <2>2. v = w
    BY <1>3, <2>1 DEF Chances
  <2>. QED
    BY <1>3, <2>1, <2>2
<1>. SUFFICES ASSUME NEW i \in Ids
              PROVE  /\ IsFiniteSet(Chances(i)')
                     /\ Cardinality(Chances(i)') <= (MaxAttempts * replays + outbox[i].attempts)'
  BY DEF ChancesPaid
<1>. DEFINE S == Chances(i)
            T == Chances(i)'
            m == MaxAttempts * replays
            a == outbox[i].attempts
            b == outbox'[i].attempts
<1>6. IsFiniteSet(S) /\ Cardinality(S) <= m + a /\ m \in Nat /\ a \in Nat
  BY <1>1, <1>4, OutboxAssumption DEF ChancesPaid, TypeOK
<1>7. /\ i \in Batch(locked) => T \subseteq S \cup {nextToken} /\ b = a + 1
      /\ i \notin Batch(locked) => T \subseteq S /\ b = a
  BY <1>4, <1>5
<1>8. (MaxAttempts * replays + outbox[i].attempts)' = m + b
  BY <1>3
<1>. HIDE DEF S, T, m, a, b
<1>9. CASE i \in Batch(locked)
  <2>1. /\ IsFiniteSet(S \cup {nextToken})
        /\ Cardinality(S \cup {nextToken}) \in {Cardinality(S), Cardinality(S) + 1}
    BY <1>6, FS_AddElement
  <2>2. IsFiniteSet(T) /\ Cardinality(T) <= Cardinality(S \cup {nextToken})
    BY <1>7, <1>9, <2>1, FS_Subset
  <2>3. Cardinality(S) \in Nat /\ Cardinality(T) \in Nat
    BY <1>6, <2>2, FS_CardinalityType
  <2>4. IsFiniteSet(T) /\ Cardinality(T) <= m + b
    BY <1>6, <1>7, <1>9, <2>1, <2>2, <2>3
  <2>. QED
    BY <2>4, <1>8 DEF T
<1>10. CASE i \notin Batch(locked)
  <2>1. IsFiniteSet(T) /\ Cardinality(T) <= Cardinality(S)
    BY <1>6, <1>7, <1>10, FS_Subset
  <2>2. Cardinality(S) \in Nat /\ Cardinality(T) \in Nat
    BY <1>6, <2>1, FS_CardinalityType
  <2>3. IsFiniteSet(T) /\ Cardinality(T) <= m + b
    BY <1>6, <1>7, <1>10, <2>1, <2>2
  <2>. QED
    BY <2>3, <1>8 DEF T
<1>. QED
  BY <1>9, <1>10

\* A replay resets the attempts of a row and grants a full allowance for it.
LEMMA ReplaysArePaid ==
    ASSUME IndInv, ChancesPaid, NEW t \in Tenants, NEW S \in SUBSET Ids, Replay(t, S)
    PROVE  ChancesPaid'
<1>1. TypeOK /\ AttemptsBounded
  BY DEF IndInv
<1>2. replays' = replays + 1 /\ held' = held /\ delivered' = delivered
  BY DEF Replay
<1>3. \A i \in Ids : Chances(i)' = Chances(i)
  BY <1>2 DEF Chances
<1>4. ASSUME NEW i \in Ids
      PROVE  /\ MaxAttempts * replays + outbox[i].attempts
                   <= (MaxAttempts * replays + outbox[i].attempts)'
             /\ (MaxAttempts * replays + outbox[i].attempts)' \in Nat
  <2>1. /\ outbox[i] \in Row /\ clock \in Nat /\ replays \in Nat
        /\ outbox[i].attempts \in Nat /\ outbox[i].attempts <= MaxAttempts
    BY <1>1 DEF TypeOK, Row, AttemptsBounded
  <2>2. outbox'[i] = IF i \in S THEN Replayed(outbox[i], clock) ELSE outbox[i]
    BY DEF Replay
  <2>3. outbox'[i].attempts \in {0, outbox[i].attempts}
    BY <2>1, <2>2, ReplayedRow
  <2>4. MaxAttempts * (replays + 1) = MaxAttempts * replays + MaxAttempts
    BY <2>1, OutboxAssumption
  <2>5. MaxAttempts * replays \in Nat /\ MaxAttempts \in Nat
    BY <2>1, OutboxAssumption
  <2>. DEFINE m == MaxAttempts * replays
              n == MaxAttempts * (replays + 1)
  <2>6. (MaxAttempts * replays + outbox[i].attempts)' = n + outbox'[i].attempts
    BY <1>2
  <2>7. n = m + MaxAttempts /\ m \in Nat
    BY <2>4, <2>5
  <2>. HIDE DEF m, n
  <2>8. m + outbox[i].attempts <= n + outbox'[i].attempts /\ n + outbox'[i].attempts \in Nat
    BY <2>1, <2>3, <2>5, <2>7
  <2>. QED
    BY <2>6, <2>8 DEF m
<1>. QED
  BY <1>1, <1>3, <1>4, FewerChances

\* Whatever steps the budget is kept.
LEMMA ChancesStep == IndInv /\ ChancesPaid /\ [Next]_vars => ChancesPaid'
<1>. SUFFICES ASSUME IndInv, ChancesPaid, [Next]_vars PROVE ChancesPaid'
  OBVIOUS
<1>0. TypeOK
  BY DEF IndInv
<1>1. ASSUME UNCHANGED <<held, delivered, replays>>,
             \A i \in Ids : outbox'[i].attempts = outbox[i].attempts
      PROVE  ChancesPaid'
  <2>1. \A i \in Ids : MaxAttempts * replays + outbox[i].attempts \in Nat
    BY <1>0, OutboxAssumption DEF TypeOK, Row
  <2>2. \A i \in Ids : Chances(i)' = Chances(i)
    BY <1>1 DEF Chances
  <2>. QED
    BY <1>0, <1>1, <2>1, <2>2, FewerChances
<1>2. CASE Tick \/ UNCHANGED vars
  BY <1>1, <1>2 DEF Tick, vars
<1>3. ASSUME NEW S \in SUBSET Ids, Enqueue(S) PROVE ChancesPaid'
  <2>1. \A i \in Ids : outbox'[i] = IF i \in S THEN Inserted(outbox[i], clock) ELSE outbox[i]
    BY <1>3 DEF Enqueue
  <2>2. \A i \in Ids : outbox'[i].attempts = outbox[i].attempts
    BY <1>0, <2>1, InsertedRow DEF TypeOK
  <2>. QED
    BY <1>1, <1>3, <2>2 DEF Enqueue
<1>4. ASSUME NEW t \in Tenants, NEW S \in SUBSET Ids, Replay(t, S) PROVE ChancesPaid'
  BY <1>4, ReplaysArePaid
<1>5. ASSUME NEW w \in Workers, NEW locked, ClaimBatch(w, locked) PROVE ChancesPaid'
  BY <1>5, ClaimsArePaid
<1>6. ASSUME NEW w \in Workers, NEW c \in held[w],
             MarkSucceeded(w, c) \/ MarkFailed(w, c) \/ MarkLost(w, c)
      PROVE  ChancesPaid'
  <2>0. Drop(w, c) /\ UNCHANGED <<delivered, replays>>
    BY <1>6 DEF MarkSucceeded, MarkFailed, MarkLost
  <2>1. held'[w] \subseteq held[w] /\ held' = [held EXCEPT ![w] = held'[w]]
    BY <1>0, <2>0 DEF Drop, TypeOK
  <2>2. c \in Claim /\ clock \in Nat /\ outbox \in [Ids -> Row]
    BY <1>0 DEF TypeOK
  <2>3. \A i \in Ids : outbox'[i].attempts = outbox[i].attempts
    <3>. SUFFICES ASSUME NEW i \in Ids PROVE outbox'[i].attempts = outbox[i].attempts
      OBVIOUS
    <3>1. CASE outbox'[i] = outbox[i]
      BY <3>1
    <3>2. CASE outbox'[i] = Unlocked(outbox[i], "succeeded")
      BY <2>2, <3>2, UnlockedRow DEF Statuses
    <3>3. CASE outbox'[i] = Failed(outbox[i], FailedStatus(c.attempts, c.stage),
                                   clock + RetryDelay(c.attempts))
      <4>1. clock + RetryDelay(c.attempts) \in Nat /\ FailedStatus(c.attempts, c.stage) \in Statuses
        BY <2>2, RetryDelayType DEF Claim, FailedStatus, Statuses
      <4>. QED
        BY <2>2, <3>3, <4>1, FailedRow
    <3>. QED
      BY <1>6, <2>2, <3>1, <3>2, <3>3 DEF MarkSucceeded, MarkFailed, MarkLost
  <2>. QED
    BY <2>0, <2>1, <2>3, WorkersAddNoChance
<1>7. ASSUME NEW w \in Workers, NEW c \in held[w], NEW stage \in Stages, NEW effect \in BOOLEAN,
             Deliver(w, c, stage, effect)
      PROVE  ChancesPaid'
  <2>1. held'[w] = (held[w] \ {c}) \cup {[c EXCEPT !.stage = stage]}
         /\ held' = [held EXCEPT ![w] = held'[w]]
    BY <1>0, <1>7 DEF Deliver, Advance, TypeOK
  <2>2. c \in Claim
    BY <1>0 DEF TypeOK
  <2>3. [c EXCEPT !.stage = stage].id = c.id /\ [c EXCEPT !.stage = stage].token = c.token
    BY <2>2 DEF Claim
  <2>4. \A d \in held'[w] : \E e \in held[w] : e.id = d.id /\ e.token = d.token
    BY <2>1, <2>3
  <2>5. \A i \in Ids : \A n \in delivered'[i] :
           n \in delivered[i] \/ \E e \in held[w] : e.id = i /\ e.token = n
    BY <1>0, <1>7, <2>2 DEF Deliver, TypeOK, Claim
  <2>6. outbox' = outbox /\ replays' = replays
    BY <1>7 DEF Deliver
  <2>. QED
    BY <2>1, <2>4, <2>5, <2>6, WorkersAddNoChance
<1>8. ASSUME NEW w \in Workers, Crash(w) PROVE ChancesPaid'
  <2>1. held'[w] = {} /\ held' = [held EXCEPT ![w] = held'[w]]
         /\ UNCHANGED <<outbox, delivered, replays>>
    BY <1>0, <1>8 DEF Crash, TypeOK
  <2>. QED
    BY <2>1, WorkersAddNoChance
<1>. QED
  BY <1>2, <1>3, <1>4, <1>5, <1>6, <1>7, <1>8 DEF Next, WorkerStep

\* A receiver sees an action at most MaxAttempts times per replay: claim_batch
\* charges the attempt before the delivery, so crashes, lost completions and
\* expired leases cannot add to it.
THEOREM DeliveriesWithinBudget == Spec => []DeliveryBudget
<1>1. Init => ChancesPaid
  <2>. SUFFICES ASSUME Init, NEW i \in Ids
                PROVE  /\ IsFiniteSet(Chances(i))
                       /\ Cardinality(Chances(i)) <= MaxAttempts * replays + outbox[i].attempts
    BY DEF ChancesPaid
  <2>1. Chances(i) = {}
    BY DEF Init, Chances
  <2>2. MaxAttempts * replays + outbox[i].attempts = 0
    BY OutboxAssumption DEF Init
  <2>. QED
    BY <2>1, <2>2, FS_EmptySet
<1>2. IndInv /\ ChancesPaid => DeliveryBudget
  <2>. SUFFICES ASSUME IndInv, ChancesPaid, NEW i \in Ids
                PROVE  Cardinality(delivered[i]) <= MaxAttempts * (1 + replays)
    BY DEF DeliveryBudget
  <2>1. /\ replays \in Nat /\ MaxAttempts \in Nat
        /\ outbox[i].attempts \in Nat /\ outbox[i].attempts <= MaxAttempts
    BY OutboxAssumption DEF IndInv, TypeOK, Row, AttemptsBounded
  <2>2. delivered[i] \in SUBSET Chances(i)
    BY DEF Chances, IndInv, TypeOK
  <2>3. IsFiniteSet(delivered[i]) /\ Cardinality(delivered[i]) <= Cardinality(Chances(i))
    BY <2>2, FS_Subset DEF ChancesPaid
  <2>4. Cardinality(delivered[i]) \in Nat /\ Cardinality(Chances(i)) \in Nat
    BY <2>3, FS_CardinalityType DEF ChancesPaid
  <2>5. Cardinality(Chances(i)) <= MaxAttempts * replays + outbox[i].attempts
    BY DEF ChancesPaid
  <2>6. MaxAttempts * (1 + replays) = MaxAttempts * replays + MaxAttempts
         /\ MaxAttempts * replays \in Nat
    BY <2>1
  <2>. QED
    BY <2>1, <2>3, <2>4, <2>5, <2>6
<1>. QED
  BY <1>1, <1>2, ChancesStep, InductiveInvariant, PTL DEF Spec

-----------------------------------------------------------------------------
(* Tenants share a batch. *)

\* ORDER BY available_at, created_at, id is a strict total order of the rows.
LEMMA OlderIsOrder ==
    ASSUME TypeOK
    PROVE  /\ \A i \in Ids : ~Older(i, i)
           /\ \A i, j \in Ids : i # j => Older(i, j) \/ Older(j, i)
           /\ \A i, j, k \in Ids : Older(i, j) /\ Older(j, k) => Older(i, k)
<1>1. \A i \in Ids : i \in Nat /\ outbox[i].available_at \in Nat /\ outbox[i].created_at \in Nat
  BY OutboxAssumption DEF TypeOK, Row
<1> QED
  BY <1>1 DEF Older

\* The rows of a tenant that come before a row are finitely many.
LEMMA TenantRankIsNat ==
    /\ IsFiniteSet(Eligible)
    /\ \A i \in Ids : /\ IsFiniteSet({j \in Eligible : Tenant(j) = Tenant(i) /\ Older(j, i)})
                      /\ TenantRank(i) \in Nat
<1>1. IsFiniteSet(Eligible)
  BY OutboxAssumption, FS_Subset DEF Eligible
<1>2. ASSUME NEW i \in Ids
      PROVE  IsFiniteSet({j \in Eligible : Tenant(j) = Tenant(i) /\ Older(j, i)})
  BY <1>1, FS_Subset
<1> QED
  BY <1>1, <1>2, FS_CardinalityType DEF TenantRank

\* Within a tenant an older row has the smaller rank.
LEMMA OlderRanksLower ==
    ASSUME TypeOK, NEW i \in Eligible, NEW j \in Eligible, Tenant(i) = Tenant(j), Older(i, j)
    PROVE  TenantRank(i) < TenantRank(j)
<1> DEFINE A(k) == {l \in Eligible : Tenant(l) = Tenant(k) /\ Older(l, k)}
<1>1. i \in Ids /\ j \in Ids /\ Eligible \subseteq Ids
  BY DEF Eligible
<1>2. A(i) \in SUBSET A(j) /\ A(i) # A(j)
  BY <1>1, OlderIsOrder
<1>3. IsFiniteSet(A(j)) /\ TenantRank(i) \in Nat /\ TenantRank(j) \in Nat
  BY <1>1, TenantRankIsNat
<1>4. TenantRank(i) = Cardinality(A(i)) /\ TenantRank(j) = Cardinality(A(j))
  BY DEF TenantRank
<1> HIDE DEF A
<1>5. Cardinality(A(i)) <= Cardinality(A(j)) /\ Cardinality(A(i)) # Cardinality(A(j))
  BY <1>2, <1>3, FS_Subset
<1> QED
  BY <1>3, <1>4, <1>5

\* A tenant with a row to deliver has a first one.
LEMMA FirstOfTenant ==
    ASSUME TypeOK, NEW k \in Eligible
    PROVE  \E l \in Eligible : Tenant(l) = Tenant(k) /\ TenantRank(l) = 0
<1> DEFINE mine == {i \in Eligible : Tenant(i) = Tenant(k)}
<1> DEFINE ranks == {TenantRank(i) : i \in mine}
<1>1. \A i \in mine : i \in Ids /\ TenantRank(i) \in Nat
  BY TenantRankIsNat DEF Eligible
<1>2. ranks \in SUBSET Nat /\ ranks # {}
  BY <1>1
<1>3. PICK m \in ranks : \A r \in ranks : m <= r
  BY <1>2, LeastNumber
<1>4. PICK l \in mine : \A i \in mine : TenantRank(l) <= TenantRank(i)
  BY <1>3
<1>5. ASSUME TenantRank(l) # 0 PROVE FALSE
  <2>1. {j \in Eligible : Tenant(j) = Tenant(l) /\ Older(j, l)} # {}
    BY <1>1, <1>5, FS_EmptySet DEF TenantRank
  <2>2. PICK j \in Eligible : Tenant(j) = Tenant(l) /\ Older(j, l)
    BY <2>1
  <2>3. j \in mine /\ TenantRank(j) < TenantRank(l)
    BY <2>2, OlderRanksLower
  <2>4. TenantRank(l) <= TenantRank(j) /\ TenantRank(j) \in Nat /\ TenantRank(l) \in Nat
    BY <1>1, <1>4, <2>3
  <2> QED
    BY <2>3, <2>4
<1> QED
  BY <1>5

\* Whatever is claimed before a row of the batch is in the batch.
LEMMA BatchIsPrefix ==
    ASSUME TypeOK, NEW j \in Batch({}), NEW l \in Eligible, ClaimedBefore(l, j)
    PROVE  l \in Batch({})
<1> DEFINE B(k) == {x \in Eligible : ClaimedBefore(x, k)}
<1>1. j \in Ids /\ l \in Ids /\ Eligible \subseteq Ids /\ Eligible \ {} = Eligible
  BY DEF Batch, Eligible
<1>2. \A x \in Ids : TenantRank(x) \in Nat
  BY TenantRankIsNat
<1>3. ASSUME NEW x \in Eligible, ClaimedBefore(x, l) PROVE ClaimedBefore(x, j)
  <2>1. x \in Ids
    BY <1>1
  <2>2. Older(x, l) /\ Older(l, j) => Older(x, j)
    BY <1>1, <2>1, OlderIsOrder
  <2>3. /\ TenantRank(x) \in Nat /\ TenantRank(l) \in Nat /\ TenantRank(j) \in Nat
    BY <1>1, <1>2, <2>1
  <2> QED
    BY <1>3, <2>2, <2>3 DEF ClaimedBefore
<1>4. B(l) \in SUBSET B(j)
  BY <1>3
<1>5. IsFiniteSet(B(j)) /\ IsFiniteSet(B(l))
  BY TenantRankIsNat, FS_Subset
<1>6. Cardinality(B(j)) < BatchSize
  BY <1>1 DEF Batch
<1>7. Cardinality(B(l)) <= Cardinality(B(j)) /\ Cardinality(B(l)) \in Nat
      /\ Cardinality(B(j)) \in Nat
  <2> HIDE DEF B
  <2> QED
    BY <1>4, <1>5, FS_Subset, FS_CardinalityType
<1>8. Cardinality(B(l)) < BatchSize
  BY <1>6, <1>7, OutboxAssumption
<1> QED
  BY <1>1, <1>8 DEF Batch

\* Only a claim raises an attempt count, and only of the rows of its batch.
LEMMA OnlyBatchesClaim ==
    ASSUME IndInv, Next, NEW i \in Ids, ClaimsNow(i), ~SkipLocked
    PROVE  \E w \in Workers : ClaimBatch(w, {}) /\ i \in Batch({})
<1>1. TypeOK /\ outbox[i] \in Row /\ outbox[i].attempts \in Nat
  BY DEF IndInv, TypeOK, Row
<1>2. outbox'[i].attempts # outbox[i].attempts /\ outbox'[i].attempts # 0
  BY <1>1 DEF ClaimsNow
<1>3. ASSUME NEW S \in SUBSET Ids, Enqueue(S) PROVE FALSE
  <2>1. outbox'[i] = Inserted(outbox[i], clock) \/ outbox'[i] = outbox[i]
    BY <1>3 DEF Enqueue
  <2> QED
    BY <1>1, <1>2, <2>1, InsertedRow DEF TypeOK
<1>4. ASSUME NEW t \in Tenants, NEW S \in SUBSET Ids, Replay(t, S) PROVE FALSE
  <2>1. outbox'[i] = Replayed(outbox[i], clock) \/ outbox'[i] = outbox[i]
    BY <1>4 DEF Replay
  <2> QED
    BY <1>1, <1>2, <2>1, ReplayedRow DEF TypeOK
<1>5. ASSUME NEW w \in Workers, NEW c \in held[w], MarkSucceeded(w, c) \/ MarkFailed(w, c) PROVE FALSE
  <2>1. c.id \in Ids /\ c.attempts \in Nat
    BY <1>1 DEF TypeOK, Claim
  <2>2. c.id = i
    BY <1>1, <1>2, <1>5, <2>1 DEF MarkSucceeded, MarkFailed, TypeOK
  <2>3. CASE MarkSucceeded(w, c)
    <3>1. outbox'[i] = Unlocked(outbox[i], "succeeded")
      BY <1>1, <1>2, <2>2, <2>3 DEF MarkSucceeded, TypeOK
    <3> QED
      BY <1>1, <1>2, <3>1, UnlockedRow DEF Statuses
  <2>4. CASE MarkFailed(w, c)
    <3>1. PICK s \in Statuses, a \in Nat :
             s = FailedStatus(c.attempts, c.stage) /\ a = clock + RetryDelay(c.attempts)
      BY <1>1, <2>1, RetryDelayType DEF FailedStatus, Statuses, TypeOK
    <3>2. outbox'[i] = Failed(outbox[i], s, a)
      BY <1>1, <1>2, <2>2, <2>4, <3>1 DEF MarkFailed, TypeOK
    <3> QED
      BY <1>1, <1>2, <3>2, FailedRow
  <2> QED
    BY <1>5, <2>3, <2>4
<1>6. PICK w \in Workers, locked \in LockedRows : ClaimBatch(w, locked)
  BY <1>2, <1>3, <1>4, <1>5 DEF Next, Tick, WorkerStep, Deliver, MarkLost, Crash
<1>7. locked = {}
  BY DEF LockedRows
<1>8. i \in Batch({})
  <2>1. i \in ExpiredFinal => outbox'[i] = Unlocked(outbox[i], "dead_letter")
    BY <1>6 DEF ClaimBatch
  <2>2. i \notin ExpiredFinal
    BY <1>1, <1>2, <2>1, UnlockedRow DEF Statuses
  <2> QED
    BY <1>2, <1>6, <1>7, <2>2 DEF ClaimBatch
<1> QED
  BY <1>6, <1>7, <1>8

\* On Turso, whose claims meet no locked row, a claim takes two rows of a
\* tenant only when it takes one of every tenant that has one.
THEOREM TenantsShareBatches == ASSUME ~SkipLocked PROVE Spec => TenantShare
<1> DEFINE Share == \A i, j, k \in Ids :
                      /\ ClaimsNow(i) /\ ClaimsNow(j) /\ i # j /\ Tenant(i) = Tenant(j)
                      /\ k \in Eligible
                      /\ Tenant(k) # Tenant(i)
                      => \E l \in Eligible : Tenant(l) = Tenant(k) /\ ClaimsNow(l)
<1>1. ASSUME IndInv, Next PROVE Share
  <2> SUFFICES ASSUME NEW i \in Ids, NEW j \in Ids, NEW k \in Eligible,
                      ClaimsNow(i), ClaimsNow(j), i # j, Tenant(i) = Tenant(j)
               PROVE  \E l \in Eligible : Tenant(l) = Tenant(k) /\ ClaimsNow(l)
    OBVIOUS
  <2>1. TypeOK
    BY <1>1 DEF IndInv
  <2>2. PICK w \in Workers : ClaimBatch(w, {}) /\ i \in Batch({}) /\ j \in Batch({})
    BY <1>1, OnlyBatchesClaim
  <2>3. i \in Eligible /\ j \in Eligible
    BY <2>2, BatchFacts
  <2>4. PICK l \in Eligible : Tenant(l) = Tenant(k) /\ TenantRank(l) = 0
    BY <2>1, FirstOfTenant
  <2>5. TenantRank(i) < TenantRank(j) \/ TenantRank(j) < TenantRank(i)
    BY <2>1, <2>3, OlderIsOrder, OlderRanksLower
  <2>6. TenantRank(i) \in Nat /\ TenantRank(j) \in Nat
    BY TenantRankIsNat
  <2>7. ClaimedBefore(l, i) \/ ClaimedBefore(l, j)
    BY <2>4, <2>5, <2>6 DEF ClaimedBefore
  <2>8. l \in Batch({})
    BY <2>1, <2>2, <2>7, BatchIsPrefix
  <2>9. l \in Ids /\ l \notin ExpiredFinal
    BY <2>1, OutboxAssumption DEF Eligible, ExpiredFinal, TypeOK, Row
  <2>10. outbox'[l] = Claimed(outbox[l], clock, nextToken)
    BY <2>2, <2>8, <2>9 DEF ClaimBatch
  <2>11. outbox[l] \in Row /\ clock \in Nat /\ nextToken \in Nat
    BY <2>1, <2>9 DEF TypeOK
  <2>12. Claimed(outbox[l], clock, nextToken).attempts = outbox[l].attempts + 1
    <3>1. \A r \in Row, now, token \in Nat : Claimed(r, now, token).attempts = r.attempts + 1
      BY ClaimedRow
    <3> QED
      BY <2>11, <3>1, Zenon
  <2>13. ClaimsNow(l)
    BY <2>10, <2>12 DEF ClaimsNow
  <2> QED
    BY <2>4, <2>13
<1>2. IndInv /\ [Next]_vars => [Share]_vars
  BY <1>1
<1> QED
  BY <1>2, InductiveInvariant, PTL DEF Spec, TenantShare

=============================================================================
