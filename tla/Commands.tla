------------------------------ MODULE Commands ------------------------------
(***************************************************************************)
(* Device commands: a user's send, the delivery of a rule's command under  *)
(* its durable id, the device's responses and the timeout sweep            *)
(* (backend-core/src/application/commands.rs, backend-turso/src/           *)
(* commands.rs).                                                           *)
(*                                                                         *)
(* Every database call and every publication is a step of its own.  The    *)
(* outbox appears by its contract: an entry is delivered again until one   *)
(* delivery succeeds or the attempts run out, and a worker that lost its   *)
(* lease may still be running beside its successor.  The bus may lose a    *)
(* publication; responses arrive late, out of order and repeatedly.  Time  *)
(* is the age of a command, so the clock needs no bound.                   *)
(***************************************************************************)
EXTENDS Naturals

CONSTANTS
    Sends,          \* commands a user sends, each with a fresh id
    Actions,        \* outbox entries of rules that send a command
    Workers,        \* outbox delivery tasks
    Timeout,        \* command timeout, in clock ticks
    MaxLag,         \* bound: ticks between a sweep's clock and its update
    MaxAttempts     \* delivery attempts of an outbox entry

ASSUME CommandsAssumption ==
    /\ Sends \cap Actions = {}
    /\ Timeout \in Nat /\ MaxLag \in Nat /\ MaxAttempts \in Nat \ {0}

VARIABLES
    status,         \* command_history.status, "none" before the insert
    age,            \* ticks since created_at, capped
    published,      \* history: commands put on the bus at least once
    responses,      \* responses the device has sent
    sender,         \* progress of each user's send
    worker,         \* progress of each delivery task
    entry,          \* outbox state of each action
    attempts        \* delivery attempts begun

vars == <<status, age, published, responses, sender, worker, entry, attempts>>

Ids == Sends \cup Actions
Active == {"sent", "delivered"}
Terminal == {"succeeded", "failed", "timed_out"}
Reports == {"ack", "succeeded", "failed"}

\* Ages beyond every cutoff are not told apart.
Cap == Timeout + MaxLag + 1

Idle == [step |-> "idle"]

Init ==
    /\ status = [i \in Ids |-> "none"]
    /\ age = [i \in Ids |-> 0]
    /\ published = {}
    /\ responses = {}
    /\ sender = [s \in Sends |-> "ready"]
    /\ worker = [w \in Workers |-> Idle]
    /\ entry = [a \in Actions |-> "pending"]
    /\ attempts = [a \in Actions |-> 0]

Insert(i) ==
    /\ status' = [status EXCEPT ![i] = "sent"]
    /\ age' = [age EXCEPT ![i] = 0]

---------------------------------------------------------------------------
(* A user's send: record, then publish; never retried *)

SendCreate(s) ==
    /\ sender[s] = "ready"
    /\ sender' = [sender EXCEPT ![s] = "recorded"]
    /\ Insert(s)
    /\ UNCHANGED <<published, responses, worker, entry, attempts>>

SendPublish(s) ==
    /\ sender[s] = "recorded"
    /\ sender' = [sender EXCEPT ![s] = "done"]
    /\ published' = published \cup {s}
    /\ UNCHANGED <<status, age, responses, worker, entry, attempts>>

\* The publication fails, or the process stops first: the row stays.
SendFails(s) ==
    /\ sender[s] = "recorded"
    /\ sender' = [sender EXCEPT ![s] = "done"]
    /\ UNCHANGED <<status, age, published, responses, worker, entry, attempts>>

---------------------------------------------------------------------------
(* deliver_action *)

\* Mutant: a row that exists was published by the attempt that wrote it.
AfterFindTrusting(a) == IF status[a] = "none" THEN "create" ELSE "ok"

\* The first find: no row, a row still sent, or one that needs nothing more.
AfterFind(a) ==
    IF status[a] = "none" THEN "create"
    ELSE IF status[a] = "sent" THEN "publish" ELSE "ok"

DeliverFind(w, a) ==
    /\ worker[w] = Idle
    /\ entry[a] = "pending"
    /\ attempts[a] < MaxAttempts
    /\ attempts' = [attempts EXCEPT ![a] = @ + 1]
    /\ worker' = [worker EXCEPT ![w] = [step |-> AfterFind(a), action |-> a]]
    /\ UNCHANGED <<status, age, published, responses, sender, entry>>

Goes(w, step) == worker' = [worker EXCEPT ![w].step = step]

\* Mutant: an upsert, which overwrites the row another delivery inserted.
CreateUpsert(w, a) ==
    /\ Insert(a)
    /\ Goes(w, "publish")

\* create; when the id is taken, find again and publish only if still sent.
Create(w, a) ==
    \/ /\ status[a] = "none"
       /\ Insert(a)
       /\ Goes(w, "publish")
    \/ /\ status[a] # "none"
       /\ Goes(w, IF status[a] = "sent" THEN "publish" ELSE "ok")
       /\ UNCHANGED <<status, age>>

DeliverCreate(w) ==
    /\ worker[w].step = "create"
    /\ Create(w, worker[w].action)
    /\ UNCHANGED <<published, responses, sender, entry, attempts>>

DeliverPublish(w) ==
    /\ worker[w].step = "publish"
    /\ published' = published \cup {worker[w].action}
    /\ Goes(w, "ok")
    /\ UNCHANGED <<status, age, responses, sender, entry, attempts>>

\* Validation against the assigned contract, the database or the bus fails.
DeliverFails(w) ==
    /\ worker[w].step \in {"create", "publish"}
    /\ Goes(w, "error")
    /\ UNCHANGED <<status, age, published, responses, sender, entry, attempts>>

\* The outbox records the result of the delivery.
Settle(w) ==
    LET a == worker[w].action IN
    /\ worker[w].step \in {"ok", "error"}
    /\ entry' = [entry EXCEPT ![a] =
                    IF @ # "pending" THEN @
                    ELSE IF worker[w].step = "ok" THEN "succeeded"
                    ELSE IF attempts[a] = MaxAttempts THEN "dead_letter"
                    ELSE "pending"]
    /\ worker' = [worker EXCEPT ![w] = Idle]
    /\ UNCHANGED <<status, age, published, responses, sender, attempts>>

\* The task dies, or its claim was superseded and its result is dropped.
Abandon(w) ==
    /\ worker[w] # Idle
    /\ worker' = [worker EXCEPT ![w] = Idle]
    /\ UNCHANGED <<status, age, published, responses, sender, entry, attempts>>

---------------------------------------------------------------------------
(* Device responses and timeouts *)

\* External: the device answers a command that reached it.
Respond(i, report) ==
    /\ i \in published
    /\ responses' = responses \cup {<<i, report>>}
    /\ UNCHANGED <<status, age, published, sender, worker, entry, attempts>>

\* from_device_status: any other word means delivered.
FromDevice(report) == IF report = "ack" THEN "delivered" ELSE report

Applies(i) == status[i] \in Active

\* apply_response
HandleResponse(i, report) ==
    /\ <<i, report>> \in responses
    /\ Applies(i)
    /\ status' = [status EXCEPT ![i] = FromDevice(report)]
    /\ UNCHANGED <<age, published, responses, sender, worker, entry, attempts>>

\* Mutant: only commands no device has acknowledged expire.
StaleUnacknowledged(lag) ==
    {i \in Ids : status[i] = "sent" /\ age[i] > Timeout + lag}

\* created_at < cutoff, with the cutoff taken lag ticks ago
Stale(lag) == {i \in Ids : status[i] \in Active /\ age[i] > Timeout + lag}

TimeoutStale ==
    \E lag \in 0 .. MaxLag :
        /\ Stale(lag) # {}
        /\ status' = [i \in Ids |->
                        IF i \in Stale(lag) THEN "timed_out" ELSE status[i]]
        /\ UNCHANGED <<age, published, responses, sender, worker, entry, attempts>>

Tick ==
    /\ \E i \in Ids : status[i] \in Active /\ age[i] < Cap
    /\ age' = [i \in Ids |->
                IF status[i] \in Active /\ age[i] < Cap
                THEN age[i] + 1 ELSE age[i]]
    /\ UNCHANGED <<status, published, responses, sender, worker, entry, attempts>>

Next ==
    \/ \E s \in Sends : SendCreate(s) \/ SendPublish(s) \/ SendFails(s)
    \/ \E w \in Workers :
        \/ \E a \in Actions : DeliverFind(w, a)
        \/ DeliverCreate(w) \/ DeliverPublish(w) \/ DeliverFails(w)
        \/ Settle(w) \/ Abandon(w)
    \/ \E i \in Ids, report \in Reports :
        Respond(i, report) \/ HandleResponse(i, report)
    \/ TimeoutStale
    \/ Tick

\* The clock advances, and the timeout checker runs for ever: its loop
\* survives failed passes and no pass waits for a device.
Fairness == WF_vars(Tick) /\ WF_vars(TimeoutStale)

Spec == Init /\ [][Next]_vars /\ Fairness

---------------------------------------------------------------------------
(* Properties *)

Steps == {"create", "publish", "ok", "error"}

\* Every variable has its type.
TypeOK ==
    /\ status \in [Ids -> {"none"} \cup Active \cup Terminal]
    /\ age \in [Ids -> 0 .. Cap]
    /\ published \subseteq Ids
    /\ responses \subseteq Ids \X Reports
    /\ sender \in [Sends -> {"ready", "recorded", "done"}]
    /\ worker \in [Workers -> {Idle} \cup [step : Steps, action : Actions]]
    /\ entry \in [Actions -> {"pending", "succeeded", "dead_letter"}]
    /\ attempts \in [Actions -> 0 .. MaxAttempts]

\* The outcome of a command is final: no late or repeated response, no
\* sweep and no concurrent delivery of the same durable id that still
\* believes the row missing (deliver_action's create) changes it.
OutcomeFinal ==
    [][\A i \in Ids : status[i] \in Terminal => status'[i] = status[i]]_vars

\* The outbox marks a rule's command delivered only when it was put on the
\* bus, by this or an earlier attempt, or had timed out before it could be:
\* deliver_action never takes another attempt's row for its publication.
SucceededWasPublished ==
    \A a \in Actions : entry[a] = "succeeded" =>
        a \in published \/ status[a] = "timed_out"

\* Every recorded command reaches an outcome, though its publication failed,
\* its device never answers, or only ever acknowledges.
EveryCommandEnds ==
    \A i \in Ids : status[i] \in Active ~> status[i] \in Terminal

---------------------------------------------------------------------------
(* The inductive invariant behind SucceededWasPublished and OutcomeFinal *)

\* A user's command has no row before it is recorded.
ReadyUnrecorded == \A s \in Sends : sender[s] = "ready" => status[s] = "none"

\* Nothing more need be published for this command.
Settled(i) == i \in published \/ status[i] = "timed_out"

\* Only a command that was published is answered.
AnswersPublished == \A r \in responses : r[1] \in published

\* A command the device reported on was published.
ReportedPublished ==
    \A i \in Ids : status[i] \in {"delivered", "succeeded", "failed"}
                        => i \in published

\* A delivery about to report success has nothing more to publish.
OkSettled ==
    \A w \in Workers : worker[w].step = "ok" => Settled(worker[w].action)

IInv ==
    /\ TypeOK
    /\ ReadyUnrecorded
    /\ AnswersPublished
    /\ ReportedPublished
    /\ OkSettled
    /\ SucceededWasPublished

=============================================================================
