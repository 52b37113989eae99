------------------------------ MODULE MCOutbox ------------------------------
(***************************************************************************)
(* Instances of Outbox for TLC: which row id carries which action, and     *)
(* which tenant the action belongs to.                                     *)
(***************************************************************************)
EXTENDS Outbox

\* Two rows of one action and one row of another, of two tenants.
MCKeyOf == [i \in Ids |-> IF i = 3 THEN "k2" ELSE "k1"]
MCTenantOf == [k \in Keys |-> IF k = "k2" THEN "t2" ELSE "t1"]

\* Every row its own action; tenant t1 has all but one of them.
MCDistinctKeyOf == [i \in Ids |-> CASE i = 1 -> "k1" [] i = 2 -> "k2" [] OTHER -> "k3"]
MCBusyTenant == [k \in Keys |-> IF k = "k3" THEN "t2" ELSE "t1"]

\* An unbounded clock for the liveness run: at MaxTime the window slides on.
\* Every timestamp moves one tick into the past, and timestamps older than the
\* window are no longer told apart.
Past(t) == IF t = 0 THEN 0 ELSE t - 1

SlideWindow ==
    /\ clock = MaxTime
    /\ outbox' = [i \in Ids |->
                    [outbox[i] EXCEPT !.available_at = Past(@),
                                      !.created_at = Past(@),
                                      !.locked_at = Past(@)]]
    /\ UNCHANGED <<clock, nextToken, held, delivered, replays>>

LiveSpec ==
    Init /\ [][Next \/ SlideWindow]_vars /\ Fairness /\ WF_vars(SlideWindow)

=============================================================================
