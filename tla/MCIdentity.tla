---------------------------- MODULE MCIdentity -----------------------------
(* Role and permission sets for Identity.  An administrator may ask for a   *)
(* role set with, without and beside the owner role.  A behaviour starts    *)
(* with nobody, or in a tenant that has two custom roles and was given one  *)
(* more owner or two users that hold both roles, where the first owner is   *)
(* logged in and RecentChanges changes are to come.                         *)
EXTENDS Identity, Sequences

CONSTANT RecentChanges  \* bound: changes in the tenant that is set up

MCRoleChoices == {{"custom"}, {"custom", "owner"}}
MCPermissionChoices == {{"manage"}}

SetUp ==
    /\ engine \in {"postgres", "turso"}
    /\ \E given \in {<<{"owner"}, {"owner"}>>,
                     <<{"owner"}, {"custom", "other"}, {"custom", "other"}>>} :
          /\ users = [u \in UserIds |->
                        IF u \in DOMAIN given THEN Stored(1, 2, u, given[u]) ELSE NoUser]
          /\ epochs = Len(given)
    /\ roles = [r \in RoleNames |-> IF r = "owner" THEN AllPermissions ELSE {"read"}]
    /\ change = [c \in Admins |-> Idle]
    /\ verifying = {}
    /\ tokens = {[user |-> 1, version |-> 2, epoch |-> 1, pwd |-> 1, scopes |-> AllPermissions]}
    /\ changes = MaxChanges - RecentChanges
    /\ leaked = FALSE

MCIdentitySpec ==
    (IdentityInit \/ SetUp) /\ [][IdentityNext]_identityVars /\ IdentityFairness

=============================================================================
