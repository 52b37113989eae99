------------------------ MODULE MetricHistoryProofs ------------------------
(***************************************************************************)
(* No event is counted twice, no accepted listing has a gap, and every     *)
(* accepted aggregate is that of all the events ever recorded in its       *)
(* range, for every number of events, every clock, every retention setting *)
(* and every bucket width that is a part of an hour or whole hours.        *)
(***************************************************************************)
EXTENDS MetricHistory, FiniteSums, TLAPS

(* Hours and buckets. *)

\* Division with remainder.
LEMMA Division ==
    ASSUME NEW t \in Int, NEW n \in Nat \ {0}
    PROVE  \E q \in Int : t = n * q + (t % n) /\ t % n \in Int /\ 0 <= t % n /\ t % n < n
<1>1. t \div n \in Int /\ t = n * (t \div n) + (t % n) /\ t % n \in Int /\ 0 <= t % n /\ t % n < n
  OBVIOUS
<1> QED
  BY <1>1

\* Two multiples of a number are the same or at least that number apart.
LEMMA MultiplesApart ==
    ASSUME NEW n \in Nat \ {0}, NEW p \in Int, NEW q \in Int, n * p < n * q
    PROVE  n * p + n <= n * q
<1>1. p < q
  <2> SUFFICES ASSUME p >= q PROVE FALSE
    OBVIOUS
  <2>1. PICK d \in Nat : p = q + d
    <3>1. p - q \in Nat /\ p = q + (p - q)
      OBVIOUS
    <3> QED
      BY <3>1
  <2>2. n * p = n * q + n * d /\ n * d >= 0 /\ n * d \in Int /\ n * q \in Int
    BY <2>1
  <2> QED
    BY <2>2
<1>2. PICK d \in Nat : q = p + 1 + d
  <2>1. q - p - 1 \in Nat /\ q = p + 1 + (q - p - 1)
    BY <1>1
  <2> QED
    BY <2>1
<1>3. n * q = n * p + n + n * d /\ n * d >= 0 /\ n * d \in Int /\ n * p \in Int
  BY <1>2
<1> QED
  BY <1>3

\* The remainder is the only one.
LEMMA Remainder ==
    ASSUME NEW n \in Nat \ {0}, NEW q \in Int, NEW r \in Int, 0 <= r, r < n
    PROVE  (n * q + r) % n = r
<1>1. PICK t \in Int : t = n * q + r
  OBVIOUS
<1>2. PICK p \in Int : t = n * p + (t % n) /\ t % n \in Int /\ 0 <= t % n /\ t % n < n
  BY Division
<1>3. n * p \in Int /\ n * q \in Int
  OBVIOUS
<1>4. ~(n * p < n * q)
  <2> SUFFICES ASSUME n * p < n * q PROVE FALSE
    OBVIOUS
  <2>1. n * p + n <= n * q
    BY MultiplesApart
  <2> QED
    BY <1>1, <1>2, <1>3, <2>1
<1>5. ~(n * q < n * p)
  <2> SUFFICES ASSUME n * q < n * p PROVE FALSE
    OBVIOUS
  <2>1. n * q + n <= n * p
    BY MultiplesApart
  <2> QED
    BY <1>1, <1>2, <1>3, <2>1
<1> QED
  BY <1>1, <1>2, <1>3, <1>4, <1>5

\* An instant lies in its hour, which begins at a full hour.
LEMMA HourBounds ==
    ASSUME NEW t \in Int
    PROVE  /\ HourOf(t) \in Int /\ HourOf(t) <= t /\ t < HourOf(t) + HourLen
           /\ \E q \in Int : HourOf(t) = HourLen * q
<1>1. HourLen \in Nat \ {0}
  BY MetricHistoryAssumption
<1>2. PICK q \in Int : t = HourLen * q + (t % HourLen) /\ t % HourLen \in Int
                       /\ 0 <= t % HourLen /\ t % HourLen < HourLen
  BY <1>1, Division
<1>3. HourLen * q \in Int
  BY <1>1
<1>4. HourOf(t) = HourLen * q
  BY <1>2, <1>3 DEF HourOf
<1>5. t < HourLen * q + HourLen /\ HourLen * q <= t
  BY <1>1, <1>2, <1>3
<1> QED
  BY <1>3, <1>4, <1>5

\* A multiple of the hour is a full hour.
LEMMA FullHour ==
    ASSUME NEW q \in Int
    PROVE  HourLen * q \in Int /\ HourOf(HourLen * q) = HourLen * q
<1>1. HourLen \in Nat \ {0} /\ HourLen * q \in Int
  BY MetricHistoryAssumption
<1>2. PICK z : z = 0
  OBVIOUS
<1>3. (HourLen * q + z) % HourLen = z
  BY <1>1, <1>2, Remainder
<1> QED
  BY <1>1, <1>2, <1>3 DEF HourOf

\* The start of an hour is a full hour.
LEMMA HourIsFull ==
    ASSUME NEW t \in Int
    PROVE  HourOf(HourOf(t)) = HourOf(t)
BY HourBounds, FullHour

\* Two full hours are the same or an hour apart.
LEMMA HoursApart ==
    ASSUME NEW a \in Int, NEW b \in Int, HourOf(a) = a, HourOf(b) = b, a < b
    PROVE  a + HourLen <= b
<1>1. HourLen \in Nat \ {0}
  BY MetricHistoryAssumption
<1>2. PICK p \in Int : a = HourLen * p
  BY HourBounds
<1>3. PICK q \in Int : b = HourLen * q
  BY HourBounds
<1> QED
  BY <1>1, <1>2, <1>3, MultiplesApart

\* A full hour is not after an instant iff it is not after its hour.
LEMMA HourOrder ==
    ASSUME NEW t \in Int, NEW m \in Int, HourOf(m) = m
    PROVE  m <= t <=> m <= HourOf(t)
<1>1. HourOf(t) \in Int /\ HourOf(t) <= t /\ t < HourOf(t) + HourLen /\ HourLen \in Int
  BY HourBounds, MetricHistoryAssumption
<1>2. HourOf(t) < m => HourOf(t) + HourLen <= m
  BY <1>1, HourIsFull, HoursApart
<1> QED
  BY <1>1, <1>2

\* The start of the bucket of an instant.
BucketOf(t, len) == t - (t % len)

\* A bucket of whole hours holds an instant iff it holds its hour.
LEMMA BucketOfHour ==
    ASSUME NEW t \in Int, NEW len \in BucketLens, len >= HourLen
    PROVE  BucketOf(HourOf(t), len) = BucketOf(t, len)
<1>1. /\ HourLen \in Nat \ {0} /\ len \in Nat \ {0} /\ len % HourLen = 0
  BY MetricHistoryAssumption
<1>2. PICK k \in Int : len = HourLen * k
  <2>1. PICK k \in Int : len = HourLen * k + (len % HourLen) /\ len % HourLen \in Int
    <3>1. len \in Int
      BY <1>1
    <3> QED
      BY <1>1, <3>1, Division
  <2>2. HourLen * k \in Int
    BY <1>1
  <2> QED
    BY <1>1, <2>1, <2>2
<1>3. PICK q \in Int : t = len * q + (t % len) /\ t % len \in Int /\ 0 <= t % len /\ t % len < len
  BY <1>1, Division
<1>4. PICK b \in Int : b = len * q
  BY <1>1
<1>5. b = HourLen * (k * q) /\ k * q \in Int
  BY <1>1, <1>2, <1>4
<1>6. HourOf(b) = b
  BY <1>5, FullHour
<1>7. b <= t /\ t < b + len
  BY <1>1, <1>3, <1>4
<1>8. PICK h \in Int : h = HourOf(t) /\ h <= t
  BY HourBounds
<1>9. b <= h
  BY <1>6, <1>7, <1>8, HourOrder
<1>10. PICK r \in Int : r = h - b /\ 0 <= r /\ r < len
  BY <1>1, <1>7, <1>8, <1>9
<1>11. h = len * q + r
  BY <1>4, <1>10
<1>12. h % len = r
  BY <1>1, <1>10, <1>11, Remainder
<1> QED
  BY <1>3, <1>4, <1>8, <1>10, <1>12 DEF BucketOf

-----------------------------------------------------------------------------
(* Rows. *)

\* What is summed over events is an integer.
LEMMA EventSums ==
    ASSUME NEW E, E \subseteq Events
    PROVE  /\ IntegersOn(One, E) /\ IntegersOn(Value, E)
           /\ \A e \in E : One[e] = 1 /\ Value[e] = e.value
<1>1. \A e \in E : e \in Events /\ e.value \in Int
  BY MetricHistoryAssumption DEF Events
<1>2. \A e \in E : One[e] = 1 /\ Value[e] = e.value
  BY DEF One, Value
<1>3. \A e \in E : One[e] \in Int /\ Value[e] \in Int
  BY <1>1, <1>2
<1> QED
  BY <1>2, <1>3 DEF IntegersOn

\* One event is aggregated by its own row.
LEMMA SampleSummarises ==
    ASSUME NEW e \in Events
    PROVE  Summarises(SampleRow(e), {e})
<1>1. e.value \in Int /\ e.at \in Int /\ e.id \in Int
  <2>1. e.at \in Int /\ e.id \in Int
    BY MetricHistoryAssumption DEF Events, Times, Ids
  <2>2. e.value \in Int
    BY MetricHistoryAssumption DEF Events
  <2> QED
    BY <2>1, <2>2
<1>2. SumFunctionOnSet(One, {e}) = 1 /\ SumFunctionOnSet(Value, {e}) = e.value
  <2>1. /\ IntegersOn(One, {e}) /\ IntegersOn(Value, {e})
        /\ One[e] = 1 /\ Value[e] = e.value
    BY EventSums
  <2>2. PICK N : N = {}
    OBVIOUS
  <2>3. N \cup {e} = {e} /\ e \notin N /\ IsFiniteSet(N)
    BY <2>2, FS_EmptySet
  <2>4. /\ SumFunctionOnSet(One, N \cup {e}) = SumFunctionOnSet(One, N) + One[e]
        /\ SumFunctionOnSet(Value, N \cup {e}) = SumFunctionOnSet(Value, N) + Value[e]
    BY <2>1, <2>3, SumAdd
  <2>5. SumFunctionOnSet(One, N) = 0 /\ SumFunctionOnSet(Value, N) = 0
    BY <2>2, SumEmpty
  <2> QED
    BY <1>1, <2>1, <2>3, <2>4, <2>5
<1>3. ~Later(SampleRow(e), SampleRow(e))
  BY <1>1 DEF Later, SampleRow
<1> QED
  BY <1>1, <1>2, <1>3 DEF Summarises, SampleRow

\* `ON CONFLICT DO UPDATE` keeps a row the aggregate of its events.
LEMMA MergedSummarises ==
    ASSUME NEW E, E \subseteq Events, IsFiniteSet(E), NEW row, Summarises(row, E),
           NEW e \in Events, e \notin E
    PROVE  Summarises(Merged(row, SampleRow(e)), E \cup {e})
<1>1. PICK F : F = E \cup {e}
  OBVIOUS
<1>2. F \subseteq Events
  BY <1>1
<1>4. PICK m : m = Merged(row, SampleRow(e))
  OBVIOUS
<1>5. /\ m.count = row.count + 1 /\ m.sum = row.sum + e.value
      /\ m.min = Smaller(row.min, e.value) /\ m.max = Larger(row.max, e.value)
      /\ m.latest = IF Later(SampleRow(e), row) THEN e.value ELSE row.latest
      /\ m.latestAt = Larger(row.latestAt, e.at)
      /\ m.latestId = IF Later(SampleRow(e), row) THEN e.id ELSE row.latestId
  BY <1>4 DEF Merged, SampleRow
<1>6. \A f \in F : f.at \in Int /\ f.id \in Int
  BY <1>2, MetricHistoryAssumption DEF Events, Times, Ids
<1>7. \A f \in F : f.value \in Int
  BY <1>2, MetricHistoryAssumption DEF Events
<1>8. m.count = SumFunctionOnSet(One, F) /\ m.sum = SumFunctionOnSet(Value, F)
  <2>1. /\ IntegersOn(One, F) /\ IntegersOn(Value, F)
        /\ One[e] = 1 /\ Value[e] = e.value
    BY <1>1, <1>2, EventSums
  <2>2. /\ SumFunctionOnSet(One, F) = SumFunctionOnSet(One, E) + One[e]
        /\ SumFunctionOnSet(Value, F) = SumFunctionOnSet(Value, E) + Value[e]
    BY <1>1, <2>1, SumAdd
  <2> QED
    BY <1>5, <2>1, <2>2 DEF Summarises
<1>9. /\ \E f \in F : m.min = f.value
      /\ \A f \in F : m.min <= f.value
  <2>1. PICK g \in E : row.min = g.value
    BY DEF Summarises
  <2>2. \A f \in E : row.min <= f.value
    BY DEF Summarises
  <2>3. row.min \in Int /\ e.value \in Int
    BY <1>1, <1>7, <2>1
  <2> QED
    BY <1>1, <1>5, <1>7, <2>1, <2>2, <2>3 DEF Smaller
<1>10. /\ \E f \in F : m.max = f.value
       /\ \A f \in F : m.max >= f.value
  <2>1. PICK g \in E : row.max = g.value
    BY DEF Summarises
  <2>2. \A f \in E : row.max >= f.value
    BY DEF Summarises
  <2>3. row.max \in Int /\ e.value \in Int
    BY <1>1, <1>7, <2>1
  <2> QED
    BY <1>1, <1>5, <1>7, <2>1, <2>2, <2>3 DEF Larger
<1>11. /\ \E f \in F : m.latest = f.value /\ m.latestAt = f.at /\ m.latestId = f.id
       /\ \A f \in F : ~Later(SampleRow(f), m)
  <2>1. PICK g \in E : row.latest = g.value /\ row.latestAt = g.at /\ row.latestId = g.id
    BY DEF Summarises
  <2>2. \A f \in E : ~(f.at > g.at) /\ ~(f.at = g.at /\ f.id > g.id)
    BY <2>1 DEF Summarises, Later, SampleRow
  <2>3. Later(SampleRow(e), row) <=> e.at > g.at \/ (e.at = g.at /\ e.id > g.id)
    BY <2>1 DEF Later, SampleRow
  <2>4. g \in F /\ e \in F /\ g.at \in Int /\ e.at \in Int
    BY <1>1, <1>6
  <2>5. \E f \in F : m.latest = f.value /\ m.latestAt = f.at /\ m.latestId = f.id
    <3>1. CASE Later(SampleRow(e), row)
      BY <1>5, <2>1, <2>3, <2>4, <3>1 DEF Larger
    <3>2. CASE ~Later(SampleRow(e), row)
      BY <1>5, <2>1, <2>3, <2>4, <3>2 DEF Larger
    <3> QED
      BY <3>1, <3>2
  <2>6. \A f \in F : ~(f.at > m.latestAt) /\ ~(f.at = m.latestAt /\ f.id > m.latestId)
    <3>1. CASE Later(SampleRow(e), row)
      BY <1>1, <1>5, <1>6, <2>1, <2>2, <2>3, <2>4, <3>1 DEF Larger
    <3>2. CASE ~Later(SampleRow(e), row)
      BY <1>1, <1>5, <1>6, <2>1, <2>2, <2>3, <2>4, <3>2 DEF Larger
    <3> QED
      BY <3>1, <3>2
  <2> QED
    BY <2>5, <2>6 DEF Later, SampleRow
<1> QED
  BY <1>1, <1>4, <1>8, <1>9, <1>10, <1>11 DEF Summarises

-----------------------------------------------------------------------------
(* The inductive invariant. *)

\* Nothing has been sent or stored initially.
LEMMA InitIInv == Init => IInv
<1> SUFFICES ASSUME Init PROVE IInv
  OBVIOUS
<1>1. HistoryTypes
  BY FS_EmptySet DEF Init, HistoryTypes, Ids
<1>2. IdsUnique /\ AppliedSent /\ ReceiptsCover /\ SamplesExact /\ CountedOnce
  BY DEF Init, IdsUnique, AppliedSent, ReceiptsCover, SamplesExact, CountedOnce, Recorded, Ids
<1>3. WatermarksOnTheHour
  <2>1. PICK z \in Int : z = 0
    OBVIOUS
  <2>2. HourOf(HourLen * z) = HourLen * z
    BY FullHour
  <2>3. HourLen * z = 0
    BY <2>1, MetricHistoryAssumption
  <2> QED
    BY <2>2, <2>3 DEF Init, WatermarksOnTheHour
<1>4. RollupsExact
  BY DEF Init, RollupsExact, Recorded
<1> QED
  BY <1>1, <1>2, <1>3, <1>4 DEF IInv

\* A new event has a new id, so it has not been counted.
LEMMA SendIInv ==
    ASSUME IInv, NEW e \in Events, Send(e)
    PROVE  IInv'
<1> USE DEF IInv
<1>1. applied[e.id] = 0
  BY DEF Send, AppliedSent, HistoryTypes, Events
<1>2. HistoryTypes'
  BY FS_AddElement DEF Send, store, HistoryTypes
<1>3. IdsUnique'
  BY DEF Send, IdsUnique
<1>4. AppliedSent'
  BY DEF Send, AppliedSent
<1>5. ReceiptsCover'
  BY <1>1 DEF Send, store, ReceiptsCover, Retained
<1>6. Recorded' = Recorded
  BY <1>1 DEF Send, Recorded
<1>7. SamplesExact' /\ CountedOnce'
  BY <1>6 DEF Send, store, SamplesExact, CountedOnce
<1>8. WatermarksOnTheHour' /\ RollupsExact'
  BY <1>6 DEF Send, store, WatermarksOnTheHour, RollupsExact, InHour
<1> QED
  BY <1>2, <1>3, <1>4, <1>5, <1>7, <1>8

\* The hourly row of a recorded event aggregates it too.
LEMMA RecordRollups ==
    ASSUME IInv, NEW e \in sent, Record(e), e \notin Recorded,
           Recorded' = Recorded \cup {e}
    PROVE  RollupsExact'
<1> USE DEF IInv
<1>1. /\ sent \subseteq Events /\ e \in Events /\ e.at \in Int /\ rollupSince \in Int
      /\ Recorded \subseteq Events
  BY MetricHistoryAssumption DEF HistoryTypes, Events, Times, Recorded
<1>2. PICK h : h = HourOf(e.at)
  OBVIOUS
<1>3. h \in Int /\ h >= rollupSince
  <2>1. HourOf(rollupSince) = rollupSince /\ rollupSince <= e.at
    BY <1>1 DEF WatermarksOnTheHour, Record, Retained
  <2>2. rollupSince <= HourOf(e.at) /\ HourOf(e.at) \in Int
    BY <1>1, <2>1, HourOrder, HourBounds
  <2> QED
    BY <1>1, <1>2, <2>2
<1>4. /\ InHour(h)' = InHour(h) \cup {e}
      /\ \A k : k # h => InHour(k)' = InHour(k)
  BY <1>2 DEF InHour
<1>5. PICK row : row = IF h \in DOMAIN rollups
                       THEN Merged(rollups[h], SampleRow(e)) ELSE SampleRow(e)
  OBVIOUS
<1>6. /\ DOMAIN rollups' = DOMAIN rollups \cup {h}
      /\ rollups'[h] = row
      /\ \A k \in DOMAIN rollups : k # h => rollups'[k] = rollups[k]
  BY <1>2, <1>5 DEF Record, RolledUp
<1>7. Summarises(row, InHour(h) \cup {e})
  <2>1. CASE h \in DOMAIN rollups
    <3>1. InHour(h) \subseteq Events /\ IsFiniteSet(InHour(h)) /\ e \notin InHour(h)
      <4>1. InHour(h) \subseteq sent /\ InHour(h) \subseteq Recorded
        BY DEF InHour, Recorded
      <4> QED
        BY <1>1, <4>1, FS_Subset DEF HistoryTypes
    <3>2. Summarises(rollups[h], InHour(h))
      BY <2>1 DEF RollupsExact
    <3>3. PICK F, old : F = InHour(h) /\ old = rollups[h]
      OBVIOUS
    <3>4. Summarises(Merged(old, SampleRow(e)), F \cup {e})
      BY <1>1, <3>1, <3>2, <3>3, MergedSummarises
    <3> QED
      BY <1>5, <2>1, <3>3, <3>4
  <2>2. CASE h \notin DOMAIN rollups
    <3>1. InHour(h) = {}
      BY <1>3, <2>2 DEF InHour, RollupsExact
    <3>2. InHour(h) \cup {e} = {e}
      BY <3>1
    <3> QED
      BY <1>1, <1>5, <2>2, <3>2, SampleSummarises
  <2> QED
    BY <2>1, <2>2
<1>8. ASSUME NEW k \in DOMAIN rollups' PROVE Summarises(rollups'[k], InHour(k)')
  <2>1. CASE k = h
    BY <1>4, <1>6, <1>7, <2>1
  <2>2. CASE k # h
    BY <1>4, <1>6, <2>2 DEF RollupsExact
  <2> QED
    BY <2>1, <2>2
<1>9. ASSUME NEW f \in Recorded', HourOf(f.at) >= rollupSince'
      PROVE  HourOf(f.at) \in DOMAIN rollups'
  <2>1. rollupSince' = rollupSince
    BY DEF Record
  <2> QED
    BY <1>2, <1>6, <1>9, <2>1 DEF RollupsExact
<1> QED
  BY <1>8, <1>9 DEF RollupsExact, Summarises, Later, SampleRow

\* An event that is recorded had no receipt although the watermark accepts
\* it: it has not been counted before.
LEMMA RecordIInv ==
    ASSUME IInv, NEW e \in sent, Record(e)
    PROVE  IInv'
<1> USE DEF IInv
<1>1. e \in Events /\ e.id \in Ids /\ e.at \in Int
  BY MetricHistoryAssumption DEF HistoryTypes, Events, Times
<1>2. applied[e.id] = 0
  <2>1. [id |-> e.id, at |-> e.at] \notin receipts
    BY DEF Record, Duplicate
  <2> QED
    BY <1>1, <2>1 DEF Record, ReceiptsCover, HistoryTypes
<1>3. applied' = [applied EXCEPT ![e.id] = 1]
  BY <1>1, <1>2 DEF Record, HistoryTypes
<1>4. HistoryTypes'
  BY <1>1, <1>3 DEF Record, HistoryTypes
<1>5. IdsUnique'
  BY DEF Record, IdsUnique
<1>6. AppliedSent'
  BY <1>1, <1>3 DEF Record, AppliedSent, HistoryTypes
<1>7. ASSUME NEW f \in sent
      PROVE  (applied'[f.id] > 0) <=> (f = e \/ applied[f.id] > 0)
  BY <1>1, <1>3 DEF IdsUnique, HistoryTypes, Events
<1>8. ReceiptsCover'
  BY <1>7 DEF Record, ReceiptsCover, Retained
<1>9. Recorded' = Recorded \cup {e}
  BY <1>7 DEF Record, Recorded
<1>10. SamplesExact'
  BY <1>9 DEF Record, SamplesExact
<1>11. CountedOnce'
  BY <1>1, <1>3 DEF CountedOnce, HistoryTypes
<1>12. WatermarksOnTheHour'
  BY DEF Record, WatermarksOnTheHour
<1>13. e \notin Recorded
  BY <1>2 DEF Recorded
<1>14. RollupsExact'
  BY <1>9, <1>13, RecordRollups
<1> QED
  BY <1>4, <1>5, <1>6, <1>8, <1>10, <1>11, <1>12, <1>14

\* A prune moves the watermarks forward only, and deletes only behind them.
LEMMA PruneIInv ==
    ASSUME IInv, NEW c \in pruning, PruneMetrics(c)
    PROVE  IInv'
<1> USE DEF IInv
<1>1. c.raw \in Int /\ c.rollup \in Int
  BY DEF HistoryTypes
<1>2. /\ rawSince' \in Int /\ rawSince' >= rawSince
      /\ rollupSince' \in Int /\ rollupSince' >= rollupSince
  BY <1>1 DEF PruneMetrics, RawWatermark, RollupWatermark, Larger, HistoryTypes
<1>3. \A e \in sent : e.at \in Int
  BY MetricHistoryAssumption DEF HistoryTypes, Events, Times
<1>4. HistoryTypes'
  BY <1>2 DEF PruneMetrics, HistoryTypes
<1>5. IdsUnique' /\ AppliedSent' /\ CountedOnce'
  BY DEF PruneMetrics, IdsUnique, AppliedSent, CountedOnce
<1>6. ReceiptsCover'
  <2> SUFFICES ASSUME NEW e \in sent, applied[e.id] > 0, e.at >= rollupSince'
               PROVE  [id |-> e.id, at |-> e.at] \in receipts'
    BY DEF PruneMetrics, ReceiptsCover, Retained
  <2>1. e.at >= rollupSince
    BY <1>2, <1>3 DEF HistoryTypes
  <2>2. [id |-> e.id, at |-> e.at] \in receipts
    BY <2>1 DEF ReceiptsCover, Retained
  <2> QED
    BY <2>2 DEF PruneMetrics
<1>7. Recorded' = Recorded
  BY DEF PruneMetrics, Recorded
<1>8. SamplesExact'
  <2>1. samples' \subseteq Recorded
    BY DEF PruneMetrics, SamplesExact
  <2>2. ASSUME NEW e \in Recorded, e.at >= rawSince'
        PROVE  e \in samples'
    <3>1. e.at >= rawSince
      BY <1>2, <1>3, <2>2 DEF Recorded, HistoryTypes
    <3> QED
      BY <3>1, <2>2 DEF PruneMetrics, SamplesExact
  <2> QED
    BY <1>7, <2>1, <2>2 DEF SamplesExact
<1>9. WatermarksOnTheHour'
  BY DEF PruneMetrics, WatermarksOnTheHour, RollupWatermark, Larger
<1>10. RollupsExact'
  <2>1. /\ DOMAIN rollups' = {h \in DOMAIN rollups : h >= rollupSince'}
        /\ \A h \in DOMAIN rollups' : rollups'[h] = rollups[h]
    BY DEF PruneMetrics, Restrict
  <2>2. \A h : InHour(h)' = InHour(h)
    BY <1>7 DEF InHour
  <2>3. ASSUME NEW h \in DOMAIN rollups' PROVE Summarises(rollups'[h], InHour(h)')
    BY <2>1, <2>2 DEF RollupsExact
  <2>4. ASSUME NEW e \in Recorded, HourOf(e.at) >= rollupSince'
        PROVE  HourOf(e.at) \in DOMAIN rollups'
    <3>1. HourOf(e.at) \in Int
      BY <1>3, HourBounds DEF Recorded
    <3>2. HourOf(e.at) >= rollupSince
      BY <1>2, <2>4, <3>1 DEF HistoryTypes
    <3> QED
      BY <2>1, <2>4, <3>2 DEF RollupsExact
  <2> QED
    BY <1>7, <2>3, <2>4 DEF RollupsExact, Summarises, Later, SampleRow
<1> QED
  BY <1>4, <1>5, <1>6, <1>8, <1>9, <1>10

\* Computing cutoffs and the clock leave the store alone.
LEMMA QuietIInv ==
    ASSUME IInv, UNCHANGED <<sent, store, applied>>,
           now' \in Int, pruning' \subseteq [raw : Int, rollup : Int],
           \A c \in pruning' : HourOf(c.rollup) = c.rollup
    PROVE  IInv'
<1> USE DEF IInv, store
<1>1. HistoryTypes' /\ IdsUnique' /\ AppliedSent' /\ ReceiptsCover' /\ CountedOnce'
  BY DEF HistoryTypes, IdsUnique, AppliedSent, ReceiptsCover, Retained, CountedOnce
<1>2. Recorded' = Recorded
  BY DEF Recorded
<1>3. SamplesExact' /\ WatermarksOnTheHour'
  BY <1>2 DEF SamplesExact, WatermarksOnTheHour
<1>4. RollupsExact'
  BY <1>2 DEF RollupsExact, InHour, Summarises, Later, SampleRow
<1> QED
  BY <1>1, <1>3, <1>4

\* Every step preserves the inductive invariant.
LEMMA NextIInv == IInv /\ [Next]_vars => IInv'
<1> SUFFICES ASSUME IInv, [Next]_vars
             PROVE  IInv'
  OBVIOUS
<1>1. CASE \E e \in Events : Send(e)
  BY <1>1, SendIInv
<1>2. CASE \E e \in sent : Record(e)
  BY <1>2, RecordIInv
<1>3. ASSUME NEW ret \in Retentions, StartPrune(ret)
      PROVE  IInv'
  <2>1. now \in Int /\ ret[1] \in Int /\ ret[2] \in Int
    BY MetricHistoryAssumption DEF IInv, HistoryTypes
  <2>2. now - ret[1] \in Int /\ now - ret[2] \in Int
    BY <2>1
  <2>3. Cutoffs(ret) \in [raw : Int, rollup : Int]
    BY <2>2, HourBounds DEF Cutoffs
  <2>4. HourOf(Cutoffs(ret).rollup) = Cutoffs(ret).rollup
    BY <2>2, HourIsFull DEF Cutoffs
  <2> QED
    BY <1>3, <2>1, <2>3, <2>4, QuietIInv DEF StartPrune, IInv, HistoryTypes, WatermarksOnTheHour
<1>4. CASE \E c \in pruning : PruneMetrics(c)
  BY <1>4, PruneIInv
<1>5. CASE Tick
  BY <1>5, QuietIInv DEF Tick, IInv, HistoryTypes, WatermarksOnTheHour
<1>6. CASE UNCHANGED vars
  BY <1>6, QuietIInv DEF vars, IInv, HistoryTypes, WatermarksOnTheHour
<1> QED
  BY <1>1, <1>2, <1>3, <1>4, <1>5, <1>6 DEF Next


-----------------------------------------------------------------------------
(* Two ways of aggregating the same events give the same buckets. *)

\* Events that can be aggregated: finitely many, with different ids.
EventSet(events) ==
    /\ events \subseteq Events
    /\ IsFiniteSet(events)
    /\ \A e, f \in events : e.id = f.id => e = f

\* Rows that aggregate a set of events: each the part of it that it stands for.
Breakdown(rows, part, events) ==
    /\ \A o \in rows : part[o] \in SUBSET events
    /\ \A o, p \in rows : o # p => part[o] \cap part[p] = {}
    /\ \A e \in events : \E o \in rows : e \in part[o]
    /\ \A o \in rows : Summarises(o.row, part[o])

\* No two of the parts share an event and none is empty.
LEMMA BreakdownIsFinite ==
    ASSUME NEW E, IsFiniteSet(E), NEW rows, NEW part, Breakdown(rows, part, E)
    PROVE  IsFiniteSet(rows)
<1> DEFINE f == [e \in E |-> CHOOSE o \in rows : e \in part[o]]
<1>1. \A e \in E : f[e] \in rows /\ e \in part[f[e]]
  BY DEF Breakdown
<1>2. f \in [E -> rows]
  BY <1>1
<1> HIDE DEF f
<1>3. \A o \in rows : \E e \in E : f[e] = o
  <2> TAKE o \in rows
  <2>1. PICK e \in part[o] : TRUE
    BY DEF Breakdown, Summarises
  <2>2. e \in E
    BY DEF Breakdown
  <2>3. f[e] = o
    BY <1>1, <2>1, <2>2 DEF Breakdown
  <2> QED
    BY <2>2, <2>3
<1>4. f \in Surjection(E, rows)
  BY <1>2, <1>3 DEF Surjection
<1> QED
  BY <1>4, FS_Surjection

\* The totals of the rows are the totals of the events.
LEMMA BreakdownTotals ==
    ASSUME NEW E, EventSet(E), NEW rows, NEW part, Breakdown(rows, part, E)
    PROVE  /\ SumFunction([o \in rows |-> o.row.count]) = SumFunctionOnSet(One, E)
           /\ SumFunction([o \in rows |-> o.row.sum]) = SumFunctionOnSet(Value, E)
<1>1. IsFiniteSet(E) /\ IsFiniteSet(rows)
  BY BreakdownIsFinite DEF EventSet
<1>2. IntegersOn(One, E) /\ IntegersOn(Value, E)
  BY EventSums DEF EventSet
<1>3. /\ \A o \in rows : part[o] \in SUBSET E
      /\ \A o, p \in rows : o # p => part[o] \cap part[p] = {}
      /\ \A e \in E : \E o \in rows : e \in part[o]
  BY DEF Breakdown
<1>4. SumFunction([o \in rows |-> o.row.count]) = SumFunctionOnSet(One, E)
  <2>1. PICK w : w = [o \in rows |-> o.row.count]
    OBVIOUS
  <2>2. \A o \in rows : w[o] = SumFunctionOnSet(One, part[o])
    BY <2>1 DEF Breakdown, Summarises
  <2>3. SumFunctionOnSet(w, rows) = SumFunctionOnSet(One, E)
    BY <1>1, <1>2, <1>3, <2>2, SumGroups
  <2>4. DOMAIN w = rows
    BY <2>1
  <2> QED
    BY <2>1, <2>3, <2>4 DEF SumFunction
<1>5. SumFunction([o \in rows |-> o.row.sum]) = SumFunctionOnSet(Value, E)
  <2>1. PICK w : w = [o \in rows |-> o.row.sum]
    OBVIOUS
  <2>2. \A o \in rows : w[o] = SumFunctionOnSet(Value, part[o])
    BY <2>1 DEF Breakdown, Summarises
  <2>3. SumFunctionOnSet(w, rows) = SumFunctionOnSet(Value, E)
    BY <1>1, <1>2, <1>3, <2>2, SumGroups
  <2>4. DOMAIN w = rows
    BY <2>1
  <2> QED
    BY <2>1, <2>3, <2>4 DEF SumFunction
<1> QED
  BY <1>4, <1>5

\* The least of the rows' least values is the least value.
LEMMA BreakdownMin ==
    ASSUME NEW E, EventSet(E), NEW rows, NEW part, Breakdown(rows, part, E),
           NEW lo \in E, \A e \in E : lo.value <= e.value
    PROVE  Min({o.row.min : o \in rows}) = lo.value
<1> DEFINE S == {o.row.min : o \in rows}
<1>1. \A e \in E : e.value \in Int
  BY MetricHistoryAssumption DEF EventSet, Events
<1>2. \A x \in S : x \in Int /\ lo.value <= x
  BY <1>1 DEF Breakdown, Summarises
<1>3. PICK o \in rows : lo \in part[o]
  BY DEF Breakdown
<1>4. o.row.min <= lo.value /\ o.row.min \in S
  BY <1>3 DEF Breakdown, Summarises
<1>5. o.row.min \in Int /\ lo.value <= o.row.min
  BY <1>2, <1>4
<1>6. o.row.min = lo.value
  BY <1>1, <1>4, <1>5
<1>7. lo.value \in S
  BY <1>4, <1>6
<1> HIDE DEF S
<1>8. Min(S) \in S /\ \A y \in S : Min(S) <= y
  BY <1>2, <1>7 DEF Min
<1>9. Min(S) \in Int /\ lo.value <= Min(S) /\ Min(S) <= lo.value
  BY <1>2, <1>7, <1>8
<1>10. Min(S) = lo.value
  BY <1>1, <1>9
<1> QED
  BY <1>10 DEF S

\* The greatest of the rows' greatest values is the greatest value.
LEMMA BreakdownMax ==
    ASSUME NEW E, EventSet(E), NEW rows, NEW part, Breakdown(rows, part, E),
           NEW hi \in E, \A e \in E : hi.value >= e.value
    PROVE  Max({o.row.max : o \in rows}) = hi.value
<1> DEFINE S == {o.row.max : o \in rows}
<1>1. \A e \in E : e.value \in Int
  BY MetricHistoryAssumption DEF EventSet, Events
<1>2. \A x \in S : x \in Int /\ hi.value >= x
  BY <1>1 DEF Breakdown, Summarises
<1>3. PICK o \in rows : hi \in part[o]
  BY DEF Breakdown
<1>4. o.row.max >= hi.value /\ o.row.max \in S
  BY <1>3 DEF Breakdown, Summarises
<1>5. o.row.max \in Int /\ hi.value >= o.row.max
  BY <1>2, <1>4
<1>6. o.row.max = hi.value
  BY <1>1, <1>4, <1>5
<1>7. hi.value \in S
  BY <1>4, <1>6
<1> HIDE DEF S
<1>8. Max(S) \in S /\ \A y \in S : Max(S) >= y
  BY <1>2, <1>7 DEF Max
<1>9. Max(S) \in Int /\ hi.value >= Max(S) /\ Max(S) >= hi.value
  BY <1>2, <1>7, <1>8
<1>10. Max(S) = hi.value
  BY <1>1, <1>9
<1> QED
  BY <1>10 DEF S

\* The row with the newest event reports its value.
LEMMA BreakdownLatest ==
    ASSUME NEW E, EventSet(E), NEW rows, NEW part, Breakdown(rows, part, E),
           NEW last \in E, \A e \in E : ~Later(SampleRow(e), SampleRow(last)),
           NEW newest, newest = CHOOSE o \in rows : \A p \in rows : ~Later(p.row, o.row)
    PROVE  newest.row.latest = last.value
<1>1. \A e \in E : e.at \in Int /\ e.id \in Int
  BY MetricHistoryAssumption DEF EventSet, Events, Times, Ids
<1>2. ASSUME NEW o \in rows
      PROVE  \E g \in E : /\ g \in part[o] /\ o.row.latest = g.value
                          /\ o.row.latestAt = g.at /\ o.row.latestId = g.id
  BY DEF Breakdown, Summarises
<1>3. \A e \in E : ~(e.at > last.at) /\ ~(e.at = last.at /\ e.id > last.id)
  BY DEF Later, SampleRow
<1>4. PICK o \in rows : last \in part[o]
  BY DEF Breakdown
<1>5. ~(last.at > o.row.latestAt) /\ ~(last.at = o.row.latestAt /\ last.id > o.row.latestId)
  BY <1>4 DEF Breakdown, Summarises, Later, SampleRow
<1>6. o.row.latestAt = last.at /\ o.row.latestId = last.id
  <2>1. PICK g \in E : o.row.latestAt = g.at /\ o.row.latestId = g.id
    BY <1>2
  <2> QED
    BY <1>1, <1>3, <1>5, <2>1
<1>7. \A p \in rows : ~Later(p.row, o.row)
  <2> TAKE p \in rows
  <2>1. PICK g \in E : p.row.latestAt = g.at /\ p.row.latestId = g.id
    BY <1>2
  <2> QED
    BY <1>3, <1>6, <2>1 DEF Later
<1>8. newest \in rows /\ \A p \in rows : ~Later(p.row, newest.row)
  BY <1>7
<1>9. PICK g \in E : /\ newest.row.latest = g.value
                     /\ newest.row.latestAt = g.at /\ newest.row.latestId = g.id
  BY <1>2, <1>8
<1>10. ~(last.at > g.at) /\ ~(last.at = g.at /\ last.id > g.id)
  BY <1>6, <1>8, <1>9 DEF Later
<1>11. g.id = last.id
  BY <1>1, <1>3, <1>10
<1>12. g = last
  BY <1>11 DEF EventSet
<1> QED
  BY <1>9, <1>12

\* Events have a least, a greatest and a newest one.
LEMMA EventExtremes ==
    ASSUME NEW E, EventSet(E), E # {}
    PROVE  /\ \E lo \in E : \A e \in E : lo.value <= e.value
           /\ \E hi \in E : \A e \in E : hi.value >= e.value
           /\ \E last \in E : \A e \in E : ~Later(SampleRow(e), SampleRow(last))
<1>1. IsFiniteSet(E) /\ \A e \in E : e.at \in Int /\ e.id \in Int /\ e.value \in Int
  <2>1. \A e \in E : e.at \in Int /\ e.id \in Int
    BY MetricHistoryAssumption DEF EventSet, Events, Times, Ids
  <2>2. \A e \in E : e.value \in Int
    BY MetricHistoryAssumption DEF EventSet, Events
  <2> QED
    BY <2>1, <2>2 DEF EventSet
<1>2. \E lo \in E : \A e \in E : lo.value <= e.value
  <2> DEFINE below == {p \in E \X E : p[1].value < p[2].value}
  <2>1. \A x, y \in E : <<x, y>> \in below <=> x.value < y.value
    OBVIOUS
  <2> HIDE DEF below
  <2>2. \A x \in E : <<x, x>> \notin below
    BY <1>1, <2>1
  <2>3. \A x, y, z \in E : <<x, y>> \in below /\ <<y, z>> \in below => <<x, z>> \in below
    BY <1>1, <2>1
  <2>4. PICK m \in E : \A k \in E : <<k, m>> \notin below
    BY <1>1, <2>2, <2>3, Maximal
  <2>5. \A k \in E : ~(k.value < m.value)
    BY <2>1, <2>4
  <2>6. \A k \in E : m.value <= k.value
    BY <1>1, <2>5
  <2> QED
    BY <2>6
<1>3. \E hi \in E : \A e \in E : hi.value >= e.value
  <2> DEFINE above == {p \in E \X E : p[1].value > p[2].value}
  <2>1. \A x, y \in E : <<x, y>> \in above <=> x.value > y.value
    OBVIOUS
  <2> HIDE DEF above
  <2>2. \A x \in E : <<x, x>> \notin above
    BY <1>1, <2>1
  <2>3. \A x, y, z \in E : <<x, y>> \in above /\ <<y, z>> \in above => <<x, z>> \in above
    BY <1>1, <2>1
  <2>4. PICK m \in E : \A k \in E : <<k, m>> \notin above
    BY <1>1, <2>2, <2>3, Maximal
  <2>5. \A k \in E : ~(k.value > m.value)
    BY <2>1, <2>4
  <2>6. \A k \in E : m.value >= k.value
    BY <1>1, <2>5
  <2> QED
    BY <2>6
<1>4. \E last \in E : \A e \in E : ~Later(SampleRow(e), SampleRow(last))
  <2> DEFINE later == {p \in E \X E : Later(SampleRow(p[1]), SampleRow(p[2]))}
  <2>1. \A x, y \in E : <<x, y>> \in later <=> Later(SampleRow(x), SampleRow(y))
    OBVIOUS
  <2> HIDE DEF later
  <2>2. \A x, y \in E : <<x, y>> \in later
                            <=> x.at > y.at \/ (x.at = y.at /\ x.id > y.id)
    BY <2>1 DEF Later, SampleRow
  <2>3. \A x \in E : <<x, x>> \notin later
    BY <1>1, <2>2
  <2>4. \A x, y, z \in E : <<x, y>> \in later /\ <<y, z>> \in later => <<x, z>> \in later
    BY <1>1, <2>2
  <2>5. PICK m \in E : \A k \in E : <<k, m>> \notin later
    BY <1>1, <2>3, <2>4, Maximal
  <2> QED
    BY <2>1, <2>5
<1> QED
  BY <1>2, <1>3, <1>4

\* Two breakdowns of the same events have the same aggregate.
LEMMA SameAggregate ==
    ASSUME NEW E, EventSet(E), E # {}, NEW rows, NEW part, Breakdown(rows, part, E),
           NEW rows2, NEW part2, Breakdown(rows2, part2, E)
    PROVE  Aggregate(rows) = Aggregate(rows2)
<1>1. PICK lo \in E : \A e \in E : lo.value <= e.value
  BY EventExtremes
<1>2. PICK hi \in E : \A e \in E : hi.value >= e.value
  BY EventExtremes
<1>3. PICK last \in E : \A e \in E : ~Later(SampleRow(e), SampleRow(last))
  BY EventExtremes
<1>4. Aggregate(rows) = [count |-> SumFunctionOnSet(One, E), sum |-> SumFunctionOnSet(Value, E),
                         min |-> lo.value, max |-> hi.value, latest |-> last.value]
  <2>1. Min({o.row.min : o \in rows}) = lo.value
    BY <1>1, BreakdownMin
  <2>2. Max({o.row.max : o \in rows}) = hi.value
    BY <1>2, BreakdownMax
  <2>3. PICK newest : newest = CHOOSE o \in rows : \A p \in rows : ~Later(p.row, o.row)
    OBVIOUS
  <2>4. newest.row.latest = last.value
    BY <1>3, <2>3, BreakdownLatest
  <2>5. /\ SumFunction([o \in rows |-> o.row.count]) = SumFunctionOnSet(One, E)
        /\ SumFunction([o \in rows |-> o.row.sum]) = SumFunctionOnSet(Value, E)
    BY BreakdownTotals
  <2> QED
    BY <2>1, <2>2, <2>3, <2>4, <2>5, Zenon DEF Aggregate
<1>5. Aggregate(rows2) = [count |-> SumFunctionOnSet(One, E), sum |-> SumFunctionOnSet(Value, E),
                          min |-> lo.value, max |-> hi.value, latest |-> last.value]
  <2>1. Min({o.row.min : o \in rows2}) = lo.value
    BY <1>1, BreakdownMin
  <2>2. Max({o.row.max : o \in rows2}) = hi.value
    BY <1>2, BreakdownMax
  <2>3. PICK newest : newest = CHOOSE o \in rows2 : \A p \in rows2 : ~Later(p.row, o.row)
    OBVIOUS
  <2>4. newest.row.latest = last.value
    BY <1>3, <2>3, BreakdownLatest
  <2>5. /\ SumFunction([o \in rows2 |-> o.row.count]) = SumFunctionOnSet(One, E)
        /\ SumFunction([o \in rows2 |-> o.row.sum]) = SumFunctionOnSet(Value, E)
    BY BreakdownTotals
  <2> QED
    BY <2>1, <2>2, <2>3, <2>4, <2>5, Zenon DEF Aggregate
<1> QED
  BY <1>4, <1>5

\* Rows report their events in the bucket the events are in.
InBucket(rows, part, len) ==
    \A o \in rows : \A e \in part[o] : BucketOf(e.at, len) = BucketOf(o.at, len)

BucketRows(rows, len, b) == {o \in rows : BucketOf(o.at, len) = b}

\* The rows of a bucket break down the events of the bucket.
LEMMA BucketBreakdown ==
    ASSUME NEW E, NEW rows, NEW part, NEW len, NEW b,
           Breakdown(rows, part, E), InBucket(rows, part, len)
    PROVE  Breakdown(BucketRows(rows, len, b), part, {e \in E : BucketOf(e.at, len) = b})
<1> DEFINE R == BucketRows(rows, len, b)
<1> DEFINE F == {e \in E : BucketOf(e.at, len) = b}
<1>1. \A o \in R : o \in rows /\ BucketOf(o.at, len) = b
  BY DEF BucketRows
<1>2. \A o \in rows : BucketOf(o.at, len) = b => o \in R
  BY DEF BucketRows
<1> HIDE DEF R
<1>3. \A o \in R : part[o] \in SUBSET F
  BY <1>1 DEF Breakdown, InBucket
<1>4. \A o, p \in R : o # p => part[o] \cap part[p] = {}
  BY <1>1 DEF Breakdown
<1>5. \A e \in F : \E o \in R : e \in part[o]
  BY <1>2 DEF Breakdown, InBucket
<1>6. \A o \in R : Summarises(o.row, part[o])
  BY <1>1 DEF Breakdown
<1> QED
  BY <1>3, <1>4, <1>5, <1>6 DEF Breakdown, R

\* A bucket has a row iff it has an event.
LEMMA BucketsWithRows ==
    ASSUME NEW E, NEW rows, NEW part, NEW len,
           Breakdown(rows, part, E), InBucket(rows, part, len)
    PROVE  {BucketOf(o.at, len) : o \in rows} = {BucketOf(e.at, len) : e \in E}
<1>1. \A o \in rows : \E e \in E : e \in part[o]
  BY DEF Breakdown, Summarises
<1>2. \A e \in E : \E o \in rows : e \in part[o]
  BY DEF Breakdown
<1> QED
  BY <1>1, <1>2 DEF InBucket

\* Two breakdowns of the same events give the same buckets.
LEMMA SameBuckets ==
    ASSUME NEW E, EventSet(E), NEW len,
           NEW rows, NEW part, Breakdown(rows, part, E), InBucket(rows, part, len),
           NEW rows2, NEW part2, Breakdown(rows2, part2, E), InBucket(rows2, part2, len)
    PROVE  Buckets(rows, len) = Buckets(rows2, len)
<1>1. /\ Buckets(rows, len) = [b \in {BucketOf(o.at, len) : o \in rows} |->
                                   Aggregate(BucketRows(rows, len, b))]
      /\ Buckets(rows2, len) = [b \in {BucketOf(o.at, len) : o \in rows2} |->
                                    Aggregate(BucketRows(rows2, len, b))]
  BY DEF Buckets, BucketRows, BucketOf
<1>2. PICK B : B = {BucketOf(e.at, len) : e \in E}
  OBVIOUS
<1>3. {BucketOf(o.at, len) : o \in rows} = B
  BY <1>2, BucketsWithRows
<1>4. {BucketOf(o.at, len) : o \in rows2} = B
  BY <1>2, BucketsWithRows
<1>5. ASSUME NEW b \in B
      PROVE  Aggregate(BucketRows(rows, len, b)) = Aggregate(BucketRows(rows2, len, b))
  <2>1. PICK F : F = {e \in E : BucketOf(e.at, len) = b}
    OBVIOUS
  <2>2. F \subseteq E /\ F # {}
    BY <1>2, <2>1
  <2>3. EventSet(F)
    BY <2>2, FS_Subset DEF EventSet
  <2>4. Breakdown(BucketRows(rows, len, b), part, F)
    BY <2>1, BucketBreakdown
  <2>5. Breakdown(BucketRows(rows2, len, b), part2, F)
    BY <2>1, BucketBreakdown
  <2> QED
    BY <2>2, <2>3, <2>4, <2>5, SameAggregate
<1> QED
  BY <1>1, <1>3, <1>4, <1>5

-----------------------------------------------------------------------------
(* What a read finds is a breakdown of the events recorded in its range. *)

SampleObs(e) == [from |-> "sample", at |-> e.at, row |-> SampleRow(e)]
HourObs(h) == [from |-> "hour", at |-> h, row |-> rollups[h]]

\* The rows of a read: samples, and hourly rows.
ReadRows(edges, hours) == {SampleObs(e) : e \in edges} \cup {HourObs(h) : h \in hours}

\* The events an observation stands for.
StandsFor(rows) ==
    [o \in rows |-> IF o.from = "sample" THEN {e \in Recorded : e.id = o.row.latestId}
                                         ELSE InHour(o.at)]

\* Events read one by one or by the hour, none twice and none left out.
Divided(events, edges, hours) ==
    /\ events \subseteq Recorded
    /\ edges \subseteq events
    /\ hours \subseteq DOMAIN rollups
    /\ \A h \in hours : InHour(h) \subseteq events /\ InHour(h) \cap edges = {}
    /\ \A e \in events : e \in edges \/ HourOf(e.at) \in hours

\* Rows that divide the events are a breakdown of them.
LEMMA DividedBreakdown ==
    ASSUME IInv, NEW E, NEW edges, NEW hours, Divided(E, edges, hours),
           NEW rows, rows = ReadRows(edges, hours)
    PROVE  Breakdown(rows, StandsFor(rows), E)
<1>1. PICK part : part = StandsFor(rows)
  OBVIOUS
<1>2. \A e \in edges : e \in Recorded /\ e \in sent /\ e \in Events /\ e \in E
  BY DEF Divided, Recorded, IInv, HistoryTypes
<1>3. \A e \in edges : SampleObs(e) \in rows /\ part[SampleObs(e)] = {e}
  <2> TAKE e \in edges
  <2>1. SampleObs(e) \in rows
    BY DEF ReadRows
  <2>2. /\ SampleObs(e).from = "sample"
        /\ SampleObs(e).row.latestId = e.id
    BY DEF SampleObs, SampleRow
  <2>3. part[SampleObs(e)] = {f \in Recorded : f.id = e.id}
    BY <1>1, <2>1, <2>2 DEF StandsFor
  <2>4. {f \in Recorded : f.id = e.id} = {e}
    BY <1>2 DEF Recorded, IInv, IdsUnique
  <2> QED
    BY <2>1, <2>3, <2>4
<1>4. \A h \in hours : HourObs(h) \in rows /\ part[HourObs(h)] = InHour(h)
  <2> TAKE h \in hours
  <2>1. HourObs(h) \in rows
    BY DEF ReadRows
  <2>2. HourObs(h).from # "sample" /\ HourObs(h).at = h
    BY DEF HourObs
  <2> QED
    BY <1>1, <2>1, <2>2 DEF StandsFor
<1>5. \A o \in rows : \/ \E e \in edges : o = SampleObs(e)
                      \/ \E h \in hours : o = HourObs(h)
  BY DEF ReadRows
<1>6. \A o \in rows : part[o] \in SUBSET E
  BY <1>2, <1>3, <1>4, <1>5 DEF Divided
<1>7. \A o, p \in rows : o # p => part[o] \cap part[p] = {}
  <2> SUFFICES ASSUME NEW o \in rows, NEW p \in rows, NEW f, f \in part[o], f \in part[p]
               PROVE  o = p
    OBVIOUS
  <2>1. ASSUME NEW e \in edges, NEW h \in hours
        PROVE  part[SampleObs(e)] \cap part[HourObs(h)] = {}
    BY <1>3, <1>4 DEF Divided
  <2>2. CASE \E e \in edges : o = SampleObs(e)
    BY <1>3, <1>5, <2>1, <2>2
  <2>3. CASE \E h \in hours : o = HourObs(h)
    <3>1. PICK h \in hours : o = HourObs(h)
      BY <2>3
    <3>2. CASE \E e \in edges : p = SampleObs(e)
      BY <2>1, <3>1, <3>2
    <3>3. CASE \E k \in hours : p = HourObs(k)
      <4>1. PICK k \in hours : p = HourObs(k)
        BY <3>3
      <4>2. f \in InHour(h) /\ f \in InHour(k)
        BY <1>4, <3>1, <4>1
      <4> QED
        BY <3>1, <4>1, <4>2 DEF InHour
    <3> QED
      BY <1>5, <3>2, <3>3
  <2> QED
    BY <1>5, <2>2, <2>3
<1>8. \A e \in E : \E o \in rows : e \in part[o]
  <2> TAKE e \in E
  <2>1. e \in InHour(HourOf(e.at))
    BY DEF InHour, Divided
  <2> QED
    BY <1>3, <1>4, <2>1 DEF Divided
<1>9. \A o \in rows : Summarises(o.row, part[o])
  <2> TAKE o \in rows
  <2>1. CASE \E e \in edges : o = SampleObs(e)
    <3>1. PICK e \in edges : o = SampleObs(e)
      BY <2>1
    <3>2. o.row = SampleRow(e)
      BY <3>1 DEF SampleObs
    <3>3. part[o] = {e} /\ e \in Events
      BY <1>2, <1>3, <3>1
    <3> QED
      BY <3>2, <3>3, SampleSummarises
  <2>2. CASE \E h \in hours : o = HourObs(h)
    <3>1. PICK h \in hours : o = HourObs(h)
      BY <2>2
    <3>2. o.row = rollups[h]
      BY <3>1 DEF HourObs
    <3>3. part[o] = InHour(h) /\ h \in DOMAIN rollups
      BY <1>4, <3>1 DEF Divided
    <3> QED
      BY <3>2, <3>3 DEF IInv, RollupsExact
  <2> QED
    BY <1>5, <2>1, <2>2
<1>10. Breakdown(rows, part, E)
  BY <1>6, <1>7, <1>8, <1>9 DEF Breakdown
<1> QED
  BY <1>1, <1>10

\* Such rows report their events in the right buckets, if hourly rows are
\* used for buckets of whole hours only.
LEMMA DividedInBucket ==
    ASSUME IInv, NEW E, NEW edges, NEW hours, Divided(E, edges, hours),
           NEW rows, rows = ReadRows(edges, hours),
           NEW len \in BucketLens, hours # {} => len >= HourLen
    PROVE  InBucket(rows, StandsFor(rows), len)
<1> SUFFICES ASSUME NEW o \in rows, NEW e \in StandsFor(rows)[o]
             PROVE  BucketOf(e.at, len) = BucketOf(o.at, len)
  BY DEF InBucket
<1>1. \A f \in Recorded : f.at \in Int
  BY MetricHistoryAssumption DEF Recorded, IInv, HistoryTypes, Events, Times
<1>2. ASSUME NEW f \in edges, o = SampleObs(f) PROVE BucketOf(e.at, len) = BucketOf(o.at, len)
  <2>1. o.from = "sample" /\ o.row.latestId = f.id /\ o.at = f.at
    BY <1>2 DEF SampleObs, SampleRow
  <2>2. e \in Recorded /\ e.id = f.id
    BY <2>1 DEF StandsFor
  <2>3. e = f
    BY <2>2 DEF Divided, Recorded, IInv, IdsUnique
  <2> QED
    BY <2>1, <2>3
<1>3. ASSUME NEW h \in hours, o = HourObs(h) PROVE BucketOf(e.at, len) = BucketOf(o.at, len)
  <2>1. o.from # "sample" /\ o.at = h
    BY <1>3 DEF HourObs
  <2>2. e \in Recorded /\ HourOf(e.at) = h
    BY <2>1 DEF StandsFor, InHour
  <2>3. e.at \in Int /\ len >= HourLen
    BY <1>1, <2>2
  <2>4. BucketOf(HourOf(e.at), len) = BucketOf(e.at, len)
    BY <2>3, BucketOfHour
  <2> QED
    BY <2>1, <2>2, <2>4
<1> QED
  BY <1>2, <1>3 DEF ReadRows

\* What is needed of the window of full hours of a read.
WindowOf(w, start, end, len) ==
    /\ w.first \in Int /\ w.last \in Int
    /\ start <= w.first /\ w.first <= w.last /\ w.last <= end
    /\ UsesRollups(w) => /\ HourOf(w.first) = w.first /\ HourOf(w.last) = w.last
                         /\ len >= HourLen
    /\ ~UsesRollups(w) => w.first = start /\ w.last = start

\* The window of full hours lies in the range.
LEMMA WindowInRange ==
    ASSUME NEW start \in Int, NEW end \in Int, start < end, NEW len \in Int,
           NEW clock \in Int, NEW w, w = RollupWindow(start, end, len, clock)
    PROVE  WindowOf(w, start, end, len)
<1> USE DEF WindowOf
<1>1. HourLen \in Nat \ {0} /\ HourLen \in Int
  BY MetricHistoryAssumption
<1>2. PICK first : first = HourOf(start) + (IF start % HourLen = 0 THEN 0 ELSE HourLen)
  OBVIOUS
<1>3. first \in Int /\ start <= first /\ HourOf(first) = first
  <2>1. PICK q \in Int : HourOf(start) = HourLen * q /\ HourLen * q \in Int
    BY HourBounds
  <2>2. start < HourLen * q + HourLen
    BY <2>1, HourBounds
  <2>3. CASE start % HourLen = 0
    BY <1>2, <2>3, HourIsFull DEF HourOf
  <2>4. CASE start % HourLen # 0
    <3>1. first = HourLen * (q + 1) /\ q + 1 \in Int
      BY <1>1, <1>2, <2>1, <2>4
    <3>2. first \in Int /\ HourOf(first) = first
      BY <3>1, FullHour
    <3>3. start <= first
      BY <1>1, <1>2, <2>1, <2>2, <2>4
    <3> QED
      BY <3>2, <3>3
  <2> QED
    BY <2>3, <2>4
<1>4. PICK last : last = HourOf(Smaller(end, clock))
  OBVIOUS
<1>5. last \in Int /\ HourOf(last) = last /\ last <= end
  <2>1. PICK m \in Int : m = Smaller(end, clock) /\ m <= end
    BY DEF Smaller
  <2>2. HourOf(m) \in Int /\ HourOf(m) <= m /\ HourOf(HourOf(m)) = HourOf(m)
    BY HourBounds, HourIsFull
  <2> QED
    BY <1>4, <2>1, <2>2
<1>6. w = IF len >= HourLen /\ first < last
          THEN [first |-> first, last |-> last]
          ELSE [first |-> start, last |-> start]
  BY <1>2, <1>4 DEF RollupWindow
<1>7. CASE len >= HourLen /\ first < last
  BY <1>3, <1>5, <1>6, <1>7 DEF UsesRollups
<1>8. CASE ~(len >= HourLen /\ first < last)
  <2>1. w.first = start /\ w.last = start
    BY <1>6, <1>8
  <2> QED
    BY <2>1 DEF UsesRollups
<1> QED
  BY <1>7, <1>8

InRange(start, end) == {e \in Recorded : start <= e.at /\ e.at < end}
Edges(start, end, w) ==
    {e \in samples : /\ start <= e.at /\ e.at < end
                     /\ ~(w.first <= e.at /\ e.at < w.last)}
Hours(w) == {h \in DOMAIN rollups : w.first <= h /\ h < w.last}

\* A range that is accepted is divided among the samples and hourly rows read.
LEMMA AcceptedIsDivided ==
    ASSUME IInv, NEW start \in Int, NEW end \in Int, start < end, NEW len \in Int,
           NEW clock \in Int, NEW w, w = RollupWindow(start, end, len, clock),
           RangeRetained(start, end, w)
    PROVE  /\ Divided(InRange(start, end), Edges(start, end, w), Hours(w))
           /\ Hours(w) # {} => len >= HourLen
<1> DEFINE E == InRange(start, end)
<1> DEFINE edges == Edges(start, end, w)
<1> DEFINE hours == Hours(w)
<1> USE DEF InRange, Edges, Hours
<1>1. /\ w.first \in Int /\ w.last \in Int
      /\ start <= w.first /\ w.first <= w.last /\ w.last <= end
      /\ UsesRollups(w) => /\ HourOf(w.first) = w.first /\ HourOf(w.last) = w.last
                           /\ len >= HourLen
      /\ ~UsesRollups(w) => w.first = start /\ w.last = start
  <2>1. WindowOf(w, start, end, len)
    BY WindowInRange
  <2> QED
    BY <2>1 DEF WindowOf
<1>2. /\ rawSince \in Int /\ rollupSince \in Int /\ HourLen \in Int
      /\ \A e \in Recorded : e.at \in Int
  BY MetricHistoryAssumption DEF Recorded, IInv, HistoryTypes, Events, Times
<1>3. ASSUME NEW h \in hours
      PROVE  /\ UsesRollups(w) /\ h \in DOMAIN rollups /\ h \in Int /\ HourOf(h) = h
             /\ w.first <= h /\ h < w.last
  <2>1. h \in DOMAIN rollups /\ w.first <= h /\ h < w.last
    OBVIOUS
  <2>2. PICK e \in Recorded : HourOf(e.at) = h
    BY <2>1 DEF IInv, RollupsExact, Summarises, InHour
  <2>3. h \in Int /\ HourOf(h) = h
    BY <1>2, <2>2, HourBounds, HourIsFull
  <2>4. UsesRollups(w)
    BY <1>1, <2>1, <2>3 DEF UsesRollups
  <2> QED
    BY <2>1, <2>3, <2>4
<1>4. ASSUME NEW e \in Recorded, UsesRollups(w)
      PROVE  /\ w.first <= e.at <=> w.first <= HourOf(e.at)
             /\ e.at < w.last <=> HourOf(e.at) < w.last
             /\ HourOf(e.at) \in Int
  <2>1. e.at \in Int /\ HourOf(e.at) \in Int
    BY <1>2, HourBounds
  <2>2. /\ w.first <= e.at <=> w.first <= HourOf(e.at)
        /\ w.last <= e.at <=> w.last <= HourOf(e.at)
    BY <1>1, <1>4, <2>1, HourOrder
  <2> QED
    BY <1>1, <2>1, <2>2
<1>5. edges \subseteq E
  BY DEF IInv, SamplesExact
<1>6. ASSUME NEW h \in hours
      PROVE  InHour(h) \subseteq E /\ InHour(h) \cap edges = {}
  <2> SUFFICES ASSUME NEW e \in InHour(h)
               PROVE  e \in E /\ e \notin edges
    OBVIOUS
  <2>1. e \in Recorded /\ HourOf(e.at) = h /\ e.at \in Int
    BY <1>2 DEF InHour
  <2>2. w.first <= e.at /\ e.at < w.last
    BY <1>3, <1>4, <2>1
  <2>3. start <= e.at /\ e.at < end
    BY <1>1, <2>1, <2>2
  <2> QED
    BY <2>1, <2>2, <2>3
<1>7. ASSUME NEW e \in E
      PROVE  e \in edges \/ HourOf(e.at) \in hours
  <2>1. e \in Recorded /\ e.at \in Int /\ start <= e.at /\ e.at < end
    BY <1>2
  <2>2. CASE w.first <= e.at /\ e.at < w.last
    <3>1. UsesRollups(w)
      BY <1>1, <2>1, <2>2 DEF UsesRollups
    <3>2. /\ HourOf(e.at) \in Int /\ w.first <= HourOf(e.at) /\ HourOf(e.at) < w.last
      BY <1>4, <2>1, <2>2, <3>1
    <3>3. start >= rollupSince
      BY <3>1 DEF RangeRetained
    <3>4. HourOf(e.at) >= rollupSince
      BY <1>1, <1>2, <3>2, <3>3
    <3>5. HourOf(e.at) \in DOMAIN rollups
      BY <2>1, <3>4 DEF IInv, RollupsExact
    <3> QED
      BY <3>2, <3>5
  <2>3. CASE ~(w.first <= e.at /\ e.at < w.last)
    <3>1. e.at >= rawSince
      <4>1. CASE ~UsesRollups(w)
        <5>1. start >= rawSince
          BY <4>1 DEF RangeRetained
        <5> QED
          BY <1>2, <2>1, <5>1
      <4>2. CASE UsesRollups(w) /\ e.at < w.first
        <5>1. start >= rawSince \/ start = w.first
          BY <4>2 DEF RangeRetained
        <5> QED
          BY <1>1, <1>2, <2>1, <4>2, <5>1
      <4>3. CASE UsesRollups(w) /\ e.at >= w.last
        <5>1. w.last = end \/ w.last >= rawSince
          BY <4>3 DEF RangeRetained
        <5> QED
          BY <1>1, <1>2, <2>1, <4>3, <5>1
      <4> QED
        BY <1>1, <2>1, <2>3, <4>1, <4>2, <4>3
    <3>2. e \in samples
      BY <2>1, <3>1 DEF IInv, SamplesExact
    <3> QED
      BY <2>1, <2>3, <3>2
  <2> QED
    BY <2>2, <2>3
<1>8. hours # {} => len >= HourLen
  BY <1>1, <1>3
<1> QED
  BY <1>5, <1>6, <1>7, <1>8 DEF Divided

\* The invariant implies that every accepted answer is complete.
LEMMA InvAnswers == IInv => AnswersComplete
<1> SUFFICES ASSUME IInv, NEW start \in Times, NEW end \in start + 1 .. MaxTime + 1,
                    NEW len \in BucketLens, NEW clock \in 0 .. now,
                    NEW w, w = RollupWindow(start, end, len, clock),
                    RangeRetained(start, end, w),
                    NEW all, all = {[from |-> "sample", at |-> e.at, row |-> SampleRow(e)] :
                            e \in {f \in Recorded : start <= f.at /\ f.at < end}}
             PROVE  Buckets(Observations(start, end, w), len) = Buckets(all, len)
  BY DEF AnswersComplete
<1>1. /\ start \in Int /\ end \in Int /\ start < end /\ len \in Int /\ clock \in Int
  BY MetricHistoryAssumption DEF Times, IInv, HistoryTypes
<1>2. PICK E : E = InRange(start, end)
  OBVIOUS
<1>3. PICK edges : edges = Edges(start, end, w)
  OBVIOUS
<1>4. PICK hours : hours = Hours(w)
  OBVIOUS
<1>5. Divided(E, edges, hours) /\ (hours # {} => len >= HourLen)
  BY <1>1, <1>2, <1>3, <1>4, AcceptedIsDivided
<1>6. PICK rows : rows = ReadRows(edges, hours)
  OBVIOUS
<1>7. Observations(start, end, w) = rows
  BY <1>3, <1>4, <1>6 DEF Edges, Hours, Observations, ReadRows, SampleObs, HourObs
<1>8. PICK none : none = {}
  OBVIOUS
<1>9. Divided(E, E, none) /\ (none # {} => len >= HourLen)
  BY <1>2, <1>8 DEF InRange, Divided
<1>10. all = ReadRows(E, none)
  BY <1>2, <1>8 DEF InRange, ReadRows, SampleObs
<1>11. EventSet(E)
  <2>1. E \subseteq sent
    BY <1>2 DEF InRange, Recorded
  <2> QED
    BY <2>1, FS_Subset DEF EventSet, IInv, HistoryTypes, IdsUnique
<1>12. Breakdown(rows, StandsFor(rows), E) /\ InBucket(rows, StandsFor(rows), len)
  BY <1>5, <1>6, DividedBreakdown, DividedInBucket
<1>13. Breakdown(all, StandsFor(all), E) /\ InBucket(all, StandsFor(all), len)
  BY <1>9, <1>10, DividedBreakdown, DividedInBucket
<1> QED
  BY <1>7, <1>11, <1>12, <1>13, SameBuckets

-----------------------------------------------------------------------------
(* The theorems. *)

\* The inductive invariant holds in every reachable state.
THEOREM HistoryInvariant == Spec => []IInv
BY InitIInv, NextIInv, PTL DEF Spec

\* `record` counts an event at most once, for any number of deliveries and
\* any sequence of prunes.
THEOREM NeverCountedTwice == Spec => []CountedOnce
<1>1. IInv => CountedOnce
  BY DEF IInv
<1> QED
  BY <1>1, HistoryInvariant, PTL

\* A listing that `list_metrics` accepts has no gap before its LIMIT, whatever
\* was pruned.
THEOREM ListingsHaveNoGap == Spec => []ListsComplete
<1>1. IInv => ListsComplete
  <2> SUFFICES ASSUME IInv, NEW since \in Times,
                      NEW before \in since + 1 .. MaxTime + 1,
                      ListRetained(since, before)
               PROVE  {e \in samples : since <= e.at /\ e.at < before}
                          = {e \in Recorded : since <= e.at /\ e.at < before}
    BY DEF ListsComplete
  <2>1. since \in Int /\ since >= rawSince /\ rawSince \in Int
    BY MetricHistoryAssumption DEF ListRetained, Times, IInv, HistoryTypes
  <2>2. \A e \in Recorded : e.at \in Int
    BY MetricHistoryAssumption DEF Recorded, IInv, HistoryTypes, Events, Times
  <2>3. \A e \in Recorded : since <= e.at => e \in samples
    BY <2>1, <2>2 DEF IInv, SamplesExact
  <2>4. samples \subseteq Recorded
    BY DEF IInv, SamplesExact
  <2> QED
    BY <2>3, <2>4
<1> QED
  BY <1>1, HistoryInvariant, PTL

\* A range that `query` accepts is answered in full: the buckets read from
\* hourly rows and raw edges are those of every event recorded in the range.
THEOREM AnswersAreComplete == Spec => []AnswersComplete
BY InvAnswers, HistoryInvariant, PTL

=============================================================================
