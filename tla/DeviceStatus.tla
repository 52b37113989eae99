---------------------------- MODULE DeviceStatus ----------------------------
(***************************************************************************)
(* The status of one device and the rules triggered by its changes:        *)
(* heartbeats, applied optimistically against the status they read         *)
(* (application/device_ingress.rs, backend-turso/device_ingress.rs), and   *)
(* the sweep that marks silent devices offline (background.rs).            *)
(*                                                                         *)
(* Both read the device first and write later, in a transaction that also  *)
(* evaluates the status rules when, and only when, the status changes.     *)
(* RuleAlerts supplies the evaluation and everything that follows it.      *)
(***************************************************************************)
EXTENDS RuleAlerts

CONSTANTS
    Timeout,        \* heartbeat silence after which a device is offline
    Retries         \* MAX_OPTIMISTIC_RETRIES

ASSUME DeviceStatusAssumption ==
    /\ Timeout \in Nat \ {0}
    /\ Retries \in Nat \ {0}

VARIABLES
    status,         \* devices.status
    last_seen,      \* devices.last_seen
    beats,          \* the heartbeat each ingestion task is applying
    sweep,          \* the offline transition the sweep has prepared
    evaluated,      \* history: the status the rules were last evaluated with
    heard           \* history: the latest observation time of an applied heartbeat

statusVars == <<status, last_seen, beats, sweep, evaluated, heard>>
allVars == <<vars, statusVars>>

Statuses == {"online", "warning", "offline"}

NoBeat == [stage |-> "none"]
Beat == [stage : {"read", "write"}, to : Statuses, expected : Statuses,
         at : Nat, rules : SUBSET Rules, tries : 1 .. Retries]

NoSweep == [at |-> NullTime]
Sweep == [at : Nat, cutoff : Int, expected : Statuses \ {"offline"}, rules : SUBSET Rules]

\* The rules alert on the offline status.
StatusObservation(s) == [r \in Rules |-> IF s = "offline" THEN "met" ELSE "unmet"]

StatusInit ==
    /\ Init
    /\ status = "online"
    /\ last_seen = 0
    /\ beats = [h \in Handlers |-> NoBeat]
    /\ sweep = NoSweep
    /\ evaluated = "online"
    /\ heard = 0

\* A status change is evaluated in the transaction that writes it; a write
\* that keeps the status has no evaluation.
EvaluateChange(from, to, rules, at) ==
    IF from = to
    THEN UNCHANGED <<actions, cooldowns, quiet, evaluated>>
    ELSE /\ Evaluate(rules, StatusObservation(to), at)
         /\ evaluated' = to

\* What the handler takes before it writes: ingress_context, the time and the
\* rule snapshot.
Context(s, tries) == [stage |-> "write", to |-> s, expected |-> status, at |-> clock,
                      rules |-> snapshot, tries |-> tries]

\* A heartbeat is taken up.
Receive(h, s) ==
    /\ beats[h] = NoBeat
    /\ beats' = [beats EXCEPT ![h] = Context(s, 1)]
    /\ UNCHANGED <<vars, status, last_seen, sweep, evaluated, heard>>

\* The next optimistic attempt.
Reread(h) ==
    /\ beats[h].stage = "read"
    /\ beats' = [beats EXCEPT ![h] = Context(@.to, @.tries)]
    /\ UNCHANGED <<vars, status, last_seen, sweep, evaluated, heard>>

\* Mutant: the write does not check the status it read.
Unmoved(h) == TRUE

\* The conditional update finds the status it expects.
Matches(h) == status = beats[h].expected

\* apply_heartbeat commits.  last_seen takes the time this heartbeat was
\* observed, also when a later one has been applied already.
ApplyHeartbeat(h) ==
    /\ beats[h].stage = "write"
    /\ Matches(h)
    /\ status' = beats[h].to
    /\ last_seen' = beats[h].at
    /\ heard' = Later(heard, beats[h].at)
    /\ EvaluateChange(beats[h].expected, beats[h].to, beats[h].rules, beats[h].at)
    /\ beats' = [beats EXCEPT ![h] = NoBeat]
    /\ UNCHANGED <<clock, enabled, snapshot, ingress, alerts, receipts, sweep>>

\* The status moved: read again, or give up with Busy.
Conflict(h) ==
    /\ beats[h].stage = "write"
    /\ ~Matches(h)
    /\ beats' = [beats EXCEPT ![h] =
                   IF beats[h].tries < Retries
                   THEN [beats[h] EXCEPT !.stage = "read", !.tries = @ + 1]
                   ELSE NoBeat]
    /\ UNCHANGED <<vars, status, last_seen, sweep, evaluated, heard>>

\* The transaction fails; the heartbeat is lost.
LoseHeartbeat(h) ==
    /\ beats[h] # NoBeat
    /\ beats' = [beats EXCEPT ![h] = NoBeat]
    /\ UNCHANGED <<vars, status, last_seen, sweep, evaluated, heard>>

\* offline_candidates.
FindCandidate ==
    /\ sweep = NoSweep
    /\ status # "offline"
    /\ last_seen < clock - Timeout
    /\ sweep' = [at |-> clock, cutoff |-> clock - Timeout, expected |-> status,
                 rules |-> snapshot]
    /\ UNCHANGED <<vars, status, last_seen, beats, evaluated, heard>>

\* Mutant: the candidate list is trusted.
StillAsFound == status = sweep.expected

\* The condition of the update: unchanged and still silent.
StillSilent ==
    /\ status = sweep.expected
    /\ status # "offline"
    /\ last_seen < sweep.cutoff

\* apply_offline_transitions.
ApplyOffline ==
    /\ sweep # NoSweep
    /\ \/ /\ StillSilent
          /\ status' = "offline"
          /\ EvaluateChange(sweep.expected, "offline", sweep.rules, sweep.at)
       \/ /\ ~StillSilent
          /\ UNCHANGED <<status, actions, cooldowns, quiet, evaluated>>
    /\ sweep' = NoSweep
    /\ UNCHANGED <<clock, enabled, snapshot, ingress, alerts, receipts, last_seen, beats,
                   heard>>

\* The sweep's transaction fails; the next sweep starts over.
AbortSweep ==
    /\ sweep # NoSweep
    /\ sweep' = NoSweep
    /\ UNCHANGED <<vars, status, last_seen, beats, evaluated, heard>>

\* Time passes; nothing prepared waits longer than MaxLag.
StatusTick ==
    /\ Tick
    /\ \A h \in Handlers : beats[h] # NoBeat => clock - beats[h].at < MaxLag
    /\ sweep # NoSweep => clock - sweep.at < MaxLag
    /\ UNCHANGED statusVars

StatusNext ==
    \/ \E h \in Handlers, s \in Statuses : Receive(h, s)
    \/ \E h \in Handlers : \/ Reread(h) \/ ApplyHeartbeat(h) \/ Conflict(h)
                           \/ LoseHeartbeat(h)
    \/ FindCandidate
    \/ ApplyOffline
    \/ AbortSweep
    \/ AlertNext /\ UNCHANGED statusVars
    \/ StatusTick

StatusSpec == StatusInit /\ [][StatusNext]_allVars

-----------------------------------------------------------------------------
(* Properties. *)

\* No status change escapes the rules: the stored status is always the one
\* they were last evaluated with, whichever heartbeat or sweep wins a race.
StatusEvaluated == evaluated = status

\* The sweep never marks a device offline that was heard within the timeout
\* less the longest lag, also when the heartbeat was applied after the sweep
\* listed the device, and when an older heartbeat that commits late turns
\* last_seen back.
OnlySilentGoOffline ==
    [][sweep # NoSweep /\ sweep' = NoSweep /\ status' # status
         => clock - heard > Timeout - MaxLag]_allVars

\* Everything has been delivered and nothing is in flight.
Quiescent ==
    /\ \A h \in Handlers : beats[h] = NoBeat
    /\ sweep = NoSweep
    /\ \A i \in Ids : actions[i].state \in {"none", "done"}

\* What the tests say of recovery (rule-engine/src/evaluate.rs,
\* test_evaluate_status_change_auto_resolves_on_recovery): once every action
\* is delivered, a device that is back online has no open offline alert.
RecoveryResolves ==
    Quiescent /\ status # "offline" => \A r \in Rules : OpenAlerts(r) = {}

=============================================================================
