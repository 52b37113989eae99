--------------------------- MODULE CommandsProofs ---------------------------
(***************************************************************************)
(* The outcome of a command is final, and the outbox takes a rule's        *)
(* command for delivered only when it was published or had expired, for    *)
(* any number of commands, delivery tasks, attempts and any timeout.       *)
(***************************************************************************)
EXTENDS Commands, TLAPS

\* Nothing has been recorded initially.
LEMMA InitIInv == Init => IInv
BY CommandsAssumption
   DEF Init, IInv, TypeOK, ReadyUnrecorded, Ids, AnswersPublished, ReportedPublished, OkSettled,
       SucceededWasPublished, Cap, Active, Terminal, Idle

\* Every step preserves the types.
LEMMA NextTypeOK ==
    ASSUME TypeOK, [Next]_vars
    PROVE  TypeOK'
<1> USE CommandsAssumption
    DEF TypeOK, Ids, Cap, Active, Terminal, Reports, Steps, Idle
<1>1. ASSUME NEW s \in Sends, SendCreate(s)
      PROVE  TypeOK'
  BY <1>1 DEF SendCreate, Insert
<1>2. ASSUME NEW s \in Sends, SendPublish(s) \/ SendFails(s)
      PROVE  TypeOK'
  BY <1>2 DEF SendPublish, SendFails
<1>3. ASSUME NEW w \in Workers, NEW a \in Actions, DeliverFind(w, a)
      PROVE  TypeOK'
  BY <1>3 DEF DeliverFind, AfterFind
<1>4. ASSUME NEW w \in Workers, DeliverCreate(w)
      PROVE  TypeOK'
  BY <1>4 DEF DeliverCreate, Create, Insert, Goes
<1>5. ASSUME NEW w \in Workers, DeliverPublish(w) \/ DeliverFails(w)
      PROVE  TypeOK'
  BY <1>5 DEF DeliverPublish, DeliverFails, Goes
<1>6. ASSUME NEW w \in Workers, Settle(w)
      PROVE  TypeOK'
  BY <1>6 DEF Settle
<1>7. ASSUME NEW w \in Workers, Abandon(w)
      PROVE  TypeOK'
  BY <1>7 DEF Abandon
<1>8. ASSUME NEW i \in Ids, NEW report \in Reports,
             Respond(i, report) \/ HandleResponse(i, report)
      PROVE  TypeOK'
  BY <1>8 DEF Respond, HandleResponse, FromDevice
<1>9. CASE TimeoutStale
  BY <1>9 DEF TimeoutStale
<1>10. CASE Tick
  BY <1>10 DEF Tick
<1>11. CASE UNCHANGED vars
  BY <1>11 DEF vars
<1> QED
  BY <1>1, <1>2, <1>3, <1>4, <1>5, <1>6, <1>7, <1>8, <1>9, <1>10, <1>11 DEF Next

\* A row is inserted where there is none, and updated only while active.
LEMMA RowsFinal ==
    ASSUME TypeOK, ReadyUnrecorded, [Next]_vars,
           NEW i \in Ids, status[i] \notin {"none"} \cup Active
    PROVE  status'[i] = status[i]
<1> USE DEF TypeOK, Active
<1>1. ASSUME NEW s \in Sends, SendCreate(s)
      PROVE  status'[i] = status[i]
  BY <1>1 DEF SendCreate, Insert, ReadyUnrecorded
<1>2. ASSUME NEW w \in Workers, DeliverCreate(w)
      PROVE  status'[i] = status[i]
  BY <1>2 DEF DeliverCreate, Create, Insert
<1>3. ASSUME NEW j \in Ids, NEW report \in Reports, HandleResponse(j, report)
      PROVE  status'[i] = status[i]
  BY <1>3 DEF HandleResponse, Applies
<1>4. CASE TimeoutStale
  BY <1>4 DEF TimeoutStale, Stale
<1>5. CASE UNCHANGED status
  BY <1>5
<1> QED
  BY <1>1, <1>2, <1>3, <1>4, <1>5
     DEF Next, vars, SendPublish, SendFails, DeliverFind, DeliverPublish,
         DeliverFails, Settle, Abandon, Respond, Tick

\* A user's send inserts its own row, and nothing else inserts it.
LEMMA NextReadyUnrecorded ==
    ASSUME TypeOK, ReadyUnrecorded, [Next]_vars
    PROVE  ReadyUnrecorded'
<1> SUFFICES ASSUME NEW s \in Sends, sender'[s] = "ready"
             PROVE  status'[s] = "none"
  BY DEF ReadyUnrecorded
<1> USE DEF TypeOK, ReadyUnrecorded
<1>1. s \in Ids /\ s \notin Actions
  BY CommandsAssumption DEF Ids
<1>2. ASSUME NEW u \in Sends, SendCreate(u)
      PROVE  status'[s] = "none"
  BY <1>1, <1>2 DEF SendCreate, Insert
<1>3. ASSUME NEW u \in Sends, SendPublish(u) \/ SendFails(u)
      PROVE  status'[s] = "none"
  BY <1>3 DEF SendPublish, SendFails
<1>4. ASSUME NEW w \in Workers, DeliverCreate(w)
      PROVE  status'[s] = "none"
  <2>1. worker[w].action \in Actions
    BY <1>4 DEF DeliverCreate, Idle
  <2> QED
    BY <1>1, <1>4, <2>1 DEF DeliverCreate, Create, Insert
<1>5. ASSUME NEW j \in Ids, NEW report \in Reports, HandleResponse(j, report)
      PROVE  status'[s] = "none"
  BY <1>1, <1>5 DEF HandleResponse, Applies, Active
<1>6. CASE TimeoutStale
  BY <1>1, <1>6 DEF TimeoutStale, Stale, Active
<1>7. CASE UNCHANGED <<status, sender>>
  BY <1>7
<1> QED
  BY <1>2, <1>3, <1>4, <1>5, <1>6, <1>7
     DEF Next, vars, DeliverFind, DeliverPublish, DeliverFails, Settle,
         Abandon, Respond, Tick

\* Publications are never taken back.
LEMMA PublishedGrows ==
    ASSUME [Next]_vars
    PROVE  published \subseteq published'
BY DEF Next, vars, SendCreate, SendPublish, SendFails, DeliverFind,
       DeliverCreate, DeliverPublish, DeliverFails, Settle, Abandon, Respond,
       HandleResponse, TimeoutStale, Tick

\* A command with nothing more to publish stays so.
LEMMA SettledStays ==
    ASSUME TypeOK, ReadyUnrecorded, [Next]_vars, NEW i \in Ids, Settled(i)
    PROVE  Settled(i)'
<1>1. CASE i \in published
  BY <1>1, PublishedGrows DEF Settled
<1>2. CASE status[i] = "timed_out"
  <2>1. status[i] \notin {"none"} \cup Active
    BY <1>2 DEF Active
  <2> QED
    BY <1>2, <2>1, RowsFinal DEF Settled
<1> QED
  BY <1>1, <1>2 DEF Settled

\* Only a published command gets a response, and only a response reports.
LEMMA NextAnswers ==
    ASSUME IInv, [Next]_vars
    PROVE  AnswersPublished' /\ ReportedPublished'
<1> USE DEF IInv, AnswersPublished, ReportedPublished
<1>1. published \subseteq published'
  BY PublishedGrows
<1>2. ASSUME NEW i \in Ids, NEW report \in Reports, Respond(i, report)
      PROVE  AnswersPublished' /\ ReportedPublished'
  BY <1>2 DEF Respond
<1>3. ASSUME NEW i \in Ids, NEW report \in Reports, HandleResponse(i, report)
      PROVE  AnswersPublished' /\ ReportedPublished'
  <2>1. i \in published
    BY <1>3 DEF HandleResponse
  <2> QED
    BY <1>3, <2>1 DEF HandleResponse, TypeOK
<1>4. ASSUME NEW s \in Sends, SendCreate(s)
      PROVE  AnswersPublished' /\ ReportedPublished'
  BY <1>4 DEF SendCreate, Insert, TypeOK
<1>5. ASSUME NEW w \in Workers, DeliverCreate(w)
      PROVE  AnswersPublished' /\ ReportedPublished'
  BY <1>5 DEF DeliverCreate, Create, Insert, TypeOK
<1>6. CASE TimeoutStale
  BY <1>6 DEF TimeoutStale, TypeOK
<1>7. CASE UNCHANGED <<status, responses>>
  BY <1>1, <1>7
<1> QED
  BY <1>2, <1>3, <1>4, <1>5, <1>6, <1>7
     DEF Next, vars, SendPublish, SendFails, DeliverFind, DeliverPublish,
         DeliverFails, Settle, Abandon, Tick

\* A delivery ends well after it published, or when it found a row that
\* was reported on or had expired.
LEMMA NextOkSettled ==
    ASSUME IInv, [Next]_vars
    PROVE  OkSettled'
<1> DEFINE Done(a) == a \in published' \/ status'[a] = "timed_out"
<1> SUFFICES ASSUME NEW w \in Workers, worker'[w].step = "ok"
             PROVE  Done(worker'[w].action)
  BY DEF OkSettled, Settled
<1> USE DEF IInv
<1>1. ASSUME worker'[w] = worker[w]
      PROVE  Done(worker'[w].action)
  <2>1. worker[w].step = "ok" /\ worker[w].action \in Ids
    BY <1>1 DEF TypeOK, Idle, Ids
  <2>2. PICK a \in Ids : a = worker[w].action
    BY <2>1
  <2>3. Settled(a)
    BY <2>1, <2>2 DEF OkSettled
  <2>4. Settled(a)'
    BY <2>3, SettledStays
  <2> QED
    BY <1>1, <2>2, <2>4 DEF Settled
<1>2. ASSUME NEW a \in Actions, status[a] \notin {"none", "sent"}
      PROVE  Settled(a)
  BY <1>2 DEF Settled, ReportedPublished, TypeOK, Ids, Active, Terminal
<1>3. ASSUME NEW v \in Workers, NEW a \in Actions, DeliverFind(v, a)
      PROVE  Done(worker'[w].action)
  <2>1. CASE w # v
    BY <1>1, <1>3, <2>1 DEF DeliverFind, TypeOK
  <2>2. CASE w = v
    <3>1. worker'[w].action = a /\ AfterFind(a) = "ok"
      BY <1>3, <2>2 DEF DeliverFind, TypeOK
    <3>2. Settled(a)
      BY <1>2, <3>1 DEF AfterFind
    <3> QED
      BY <1>3, <3>1, <3>2 DEF DeliverFind, Settled
  <2> QED
    BY <2>1, <2>2
<1>4. ASSUME NEW v \in Workers, DeliverCreate(v)
      PROVE  Done(worker'[w].action)
  <2>1. CASE w # v
    BY <1>1, <1>4, <2>1 DEF DeliverCreate, Create, Goes, TypeOK
  <2>2. CASE w = v
    <3>1. worker[w].action \in Actions
      BY <1>4, <2>2 DEF DeliverCreate, TypeOK, Idle
    <3>2. /\ worker'[w].action = worker[w].action
          /\ status[worker[w].action] \notin {"none", "sent"}
          /\ UNCHANGED <<status, published>>
      BY <1>4, <2>2 DEF DeliverCreate, Create, Goes, TypeOK, Idle
    <3>3. Settled(worker[w].action)
      BY <1>2, <3>1, <3>2
    <3> QED
      BY <3>2, <3>3 DEF Settled
  <2> QED
    BY <2>1, <2>2
<1>5. ASSUME NEW v \in Workers, DeliverPublish(v)
      PROVE  Done(worker'[w].action)
  <2>1. CASE w # v
    BY <1>1, <1>5, <2>1 DEF DeliverPublish, Goes, TypeOK
  <2>2. CASE w = v
    BY <1>5, <2>2 DEF DeliverPublish, Goes, TypeOK, Idle, Settled
  <2> QED
    BY <2>1, <2>2
<1>6. ASSUME NEW v \in Workers, DeliverFails(v)
      PROVE  Done(worker'[w].action)
  <2>1. w # v
    BY <1>6 DEF DeliverFails, Goes, TypeOK, Idle
  <2> QED
    BY <1>1, <1>6, <2>1 DEF DeliverFails, Goes, TypeOK
<1>7. ASSUME NEW v \in Workers, Settle(v) \/ Abandon(v)
      PROVE  Done(worker'[w].action)
  <2>1. w # v
    BY <1>7 DEF Settle, Abandon, TypeOK, Idle
  <2> QED
    BY <1>1, <1>7, <2>1 DEF Settle, Abandon, TypeOK
<1>8. CASE UNCHANGED worker
  BY <1>1, <1>8
<1> QED
  BY <1>3, <1>4, <1>5, <1>6, <1>7, <1>8
     DEF Next, vars, SendCreate, SendPublish, SendFails, Respond,
         HandleResponse, TimeoutStale, Tick

\* An entry succeeds with the result of a delivery that ended well.
LEMMA NextSucceeded ==
    ASSUME IInv, [Next]_vars
    PROVE  SucceededWasPublished'
<1> SUFFICES ASSUME NEW a \in Actions, entry'[a] = "succeeded"
             PROVE  Settled(a)'
  BY DEF SucceededWasPublished, Settled
<1> USE DEF IInv
<1>0. a \in Ids
  BY DEF Ids
<1>1. ASSUME entry'[a] = entry[a]
      PROVE  Settled(a)'
  <2>1. Settled(a)
    BY <1>1 DEF SucceededWasPublished, Settled
  <2> QED
    BY <1>0, <2>1, SettledStays
<1>2. ASSUME NEW w \in Workers, Settle(w)
      PROVE  Settled(a)'
  <2>1. CASE entry[a] = "succeeded"
    BY <1>1, <2>1
  <2>2. CASE entry[a] # "succeeded"
    <3>1. worker[w].action = a /\ worker[w].step = "ok"
      BY <1>2, <2>2 DEF Settle, TypeOK
    <3>2. Settled(a)
      BY <3>1 DEF OkSettled
    <3> QED
      BY <1>0, <3>2, SettledStays
  <2> QED
    BY <2>1, <2>2
<1>3. CASE UNCHANGED entry
  BY <1>1, <1>3
<1> QED
  BY <1>2, <1>3
     DEF Next, vars, SendCreate, SendPublish, SendFails, DeliverFind,
         DeliverCreate, DeliverPublish, DeliverFails, Abandon, Respond,
         HandleResponse, TimeoutStale, Tick

\* The inductive invariant holds in every reachable state.
THEOREM CommandInvariant == Spec => []IInv
<1>1. IInv /\ [Next]_vars => IInv'
  BY NextTypeOK, NextReadyUnrecorded, NextAnswers, NextOkSettled, NextSucceeded
     DEF IInv
<1> QED
  BY <1>1, InitIInv, PTL DEF Spec

\* A rule's command that the outbox marks delivered was put on the bus or
\* had timed out before.
THEOREM DeliveredCommandsWerePublished == Spec => []SucceededWasPublished
<1>1. IInv => SucceededWasPublished
  BY DEF IInv
<1> QED
  BY <1>1, CommandInvariant, PTL

\* The outcome of a command never changes.
THEOREM OutcomesAreFinal == Spec => OutcomeFinal
<1>1. IInv /\ [Next]_vars =>
        [\A i \in Ids : status[i] \in Terminal => status'[i] = status[i]]_vars
  <2> SUFFICES ASSUME IInv, [Next]_vars, NEW i \in Ids, status[i] \in Terminal
               PROVE  status'[i] = status[i]
    OBVIOUS
  <2>1. status[i] \notin {"none"} \cup Active
    BY DEF Terminal, Active
  <2> QED
    BY <2>1, RowsFinal DEF IInv
<1> QED
  BY <1>1, CommandInvariant, PTL DEF Spec, OutcomeFinal

=============================================================================
