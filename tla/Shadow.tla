------------------------------- MODULE Shadow -------------------------------
(***************************************************************************)
(* Device shadows: what backend-core/shadows.rs computes.  A JSON object   *)
(* is a function from the keys it has to values; a value that matters only *)
(* by equality is a pair <<tag, number>>.                                  *)
(***************************************************************************)
EXTENDS Naturals

\* JSON null, which in a patch removes a key.
Null == <<"null", 0>>

EmptyObject == [k \in {} |-> Null]

\* merge_json
Merge(obj, patch) ==
    LET removed == {k \in DOMAIN patch : patch[k] = Null}
    IN  [k \in ((DOMAIN obj) \union (DOMAIN patch)) \ removed |->
            IF k \in DOMAIN patch THEN patch[k] ELSE obj[k]]

\* compute_delta: the desired keys whose reported value differs or is missing.
Delta(desired, reported) ==
    [k \in {j \in DOMAIN desired : j \notin DOMAIN reported \/ reported[j] # desired[j]}
        |-> desired[k]]

\* apply_desired_patch
PatchDesired(s, patch) ==
    LET desired == Merge(s.desired, patch)
    IN  [desired |-> desired, reported |-> s.reported,
         delta |-> Delta(desired, s.reported), version |-> s.version + 1]

\* apply_reported_patch
PatchReported(s, patch) ==
    LET reported == Merge(s.reported, patch)
    IN  [desired |-> s.desired, reported |-> reported,
         delta |-> Delta(s.desired, reported), version |-> s.version + 1]

\* reset_shadow
ResetShadow(s) ==
    [desired |-> EmptyObject, reported |-> EmptyObject,
     delta |-> EmptyObject, version |-> s.version + 1]

\* desired.ota names deployment d
CommandsDeployment(s, d) == "ota" \in DOMAIN s.desired /\ s.desired["ota"] = <<"command", d>>

\* Mutant: a finished deployment leaves its command.
ClearOtaNever(s, d) == s

\* clear_ota_for_deployment
ClearOta(s, d) ==
    IF CommandsDeployment(s, d) THEN PatchDesired(s, [k \in {"ota"} |-> Null]) ELSE s

=============================================================================
