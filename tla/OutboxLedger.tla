---------------------------- MODULE OutboxLedger ----------------------------
(***************************************************************************)
(* What the outbox promises its callers, without clocks, leases, batches   *)
(* or workers: a ledger of entries.  An entry is opened once per action,   *)
(* is granted to one owner at a time under a token never used before, is   *)
(* granted at most Budget times until it is closed, and is closed by its   *)
(* owner or, once the budget is spent, by the ledger.  A done entry stays  *)
(* done; a dead one may be reopened with a full budget.                    *)
(***************************************************************************)
EXTENDS Naturals

CONSTANTS
    Ids,        \* entries
    KeyOf,      \* the action each entry is for
    Budget      \* grants an entry may consume before it is closed

VARIABLES
    state,      \* [Ids -> {"absent", "open", "done", "dead"}]
    owner,      \* token of the current grant, 0 when there is none
    left,       \* grants left
    last        \* the largest token granted so far

ledgerVars == <<state, owner, left, last>>

States == {"absent", "open", "done", "dead"}

LedgerInit ==
    /\ state = [i \in Ids |-> "absent"]
    /\ owner = [i \in Ids |-> 0]
    /\ left = [i \in Ids |-> Budget]
    /\ last = 0

\* No entry of S shares its action with another open entry.
Distinct(S) ==
    /\ \A i, j \in S : KeyOf[i] = KeyOf[j] => i = j
    /\ \A i \in S, j \in Ids : KeyOf[i] = KeyOf[j] => state[j] # "open"

\* New actions, or dead entries given another chance.
Open(S) ==
    /\ \A i \in S : state[i] \in {"absent", "dead"}
    /\ Distinct(S)
    /\ state' = [i \in Ids |-> IF i \in S THEN "open" ELSE state[i]]
    /\ owner' = [i \in Ids |-> IF i \in S THEN 0 ELSE owner[i]]
    /\ left' = [i \in Ids |-> IF i \in S THEN Budget ELSE left[i]]
    /\ UNCHANGED last

\* Grant the entries of S to a new owner and close those of D, whose budget
\* is spent.
Grant(S, D) ==
    /\ \A i \in S : state[i] = "open" /\ left[i] > 0
    /\ \A i \in D : state[i] = "open" /\ left[i] = 0
    /\ state' = [i \in Ids |-> IF i \in D THEN "dead" ELSE state[i]]
    /\ owner' = [i \in Ids |-> IF i \in D THEN 0
                               ELSE IF i \in S THEN last + 1 ELSE owner[i]]
    /\ left' = [i \in Ids |-> IF i \in S THEN left[i] - 1 ELSE left[i]]
    /\ last' = IF S = {} THEN last ELSE last + 1

\* The owner ends its grant: the entry is done, dead, or open again.
Settle(i, s) ==
    /\ state[i] = "open"
    /\ owner[i] # 0
    /\ s = "open" => left[i] > 0
    /\ state' = [state EXCEPT ![i] = s]
    /\ owner' = [owner EXCEPT ![i] = 0]
    /\ UNCHANGED <<left, last>>

LedgerNext ==
    \/ \E S \in SUBSET Ids : Open(S)
    \/ \E S, D \in SUBSET Ids : Grant(S, D)
    \/ \E i \in Ids, s \in {"open", "done", "dead"} : Settle(i, s)

LedgerSpec == LedgerInit /\ [][LedgerNext]_ledgerVars

=============================================================================
