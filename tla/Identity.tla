----------------------------- MODULE Identity ------------------------------
(***************************************************************************)
(* Users, roles and sessions of one tenant.  Changes to users and roles    *)
(* are database transactions: on Turso one writer at a time, on PostgreSQL *)
(* concurrent, kept apart by row locks taken one after the other           *)
(* (backend-postgres users.rs, roles.rs).  A session is a signed token     *)
(* that names a user, a permission version and an authentication epoch; it *)
(* is held against the stored user on every request.  Users are active: no *)
(* code clears is_active.                                                  *)
(***************************************************************************)
EXTENDS Naturals, FiniteSets

CONSTANTS
    UserIds,      \* ids the tenant's users can have
    Admins,       \* request handlers, each runs one change at a time
    RoleChoices,  \* the role sets a request may ask for
    PermissionChoices, \* the permission sets a role may be given
    MaxChanges,   \* bound: changes begun
    MaxLogins     \* bound: logins begun

\* Roles by name, in the order in which lock_roles_by_ids sorts them.
RoleNames == {"custom", "other", "owner", "viewer"}
Rank == [custom |-> 1, other |-> 2, owner |-> 3, viewer |-> 4]
SystemRoles == {"owner", "viewer"}
AllPermissions == {"manage", "read"}

ASSUME IdentityAssumption ==
    /\ UserIds \subseteq Nat /\ 1 \in UserIds
    /\ RoleChoices \subseteq SUBSET RoleNames
    /\ PermissionChoices \subseteq SUBSET AllPermissions
    /\ MaxChanges \in Nat /\ MaxLogins \in Nat

VARIABLES
    engine,       \* the database in use, chosen at start
    users,        \* id -> stored user, or NoUser
    roles,        \* role -> its permissions, or NoRole
    change,       \* handler -> the change it runs, or Idle
    verifying,    \* logins between reading the credentials and the token
    tokens,       \* every token issued
    epochs,       \* epochs handed out so far
    changes,      \* changes begun so far
    leaked        \* a change ended in a foreign-key error

identityVars ==
    <<engine, users, roles, change, verifying, tokens, epochs, changes, leaked>>

-----------------------------------------------------------------------------
NoUser == [exists |-> FALSE]
NoRole == {"no role"}
Idle == [op |-> "idle"]

Present(u) == users[u] # NoUser
RolePresent(r) == roles[r] # NoRole

\* hydrate: a user's permissions are those of the roles assigned to it.
Permissions(u) == UNION {roles[r] : r \in users[u].roles}

\* Mutant: the epoch is not compared.
AcceptsAnyEpoch(t) ==
    /\ Present(t.user)
    /\ users[t.user].version = t.version

\* matches_identity and the comparisons of resolve_session.
Accepts(t) ==
    /\ Present(t.user)
    /\ users[t.user].version = t.version
    /\ users[t.user].epoch = t.epoch

\* require_permission, on the context that auth_middleware builds from the
\* stored permissions of the session's user.
Authorised(p) == \E t \in tokens : Accepts(t) /\ p \in Permissions(t.user)

\* Row locks.  A change holds records [row, mode] until its transaction ends;
\* a shared lock excludes only exclusive ones.
Conflicts(l, k) == l.row = k.row /\ "update" \in {l.mode, k.mode}
CanLock(c, row, mode) ==
    \A d \in Admins \ {c} : change[d] # Idle =>
        \A k \in change[d].locks : ~Conflicts([row |-> row, mode |-> mode], k)

Role(r) == <<"role", r>>
User(u) == <<"user", u>>
UsersTable == <<"table", "users">>
LockedRows(c) == {l.row : l \in change[c].locks}

\* A write to users waits for LOCK TABLE users of the bootstrap.
TableFree(c) == CanLock(c, UsersTable, "share")

\* A change after its next step, with the locks it then holds.
Moved(ch, step, locks) ==
    [op |-> ch.op, step |-> step, locks |-> locks, user |-> ch.user,
     roles |-> ch.roles, role |-> ch.role, permissions |-> ch.permissions,
     holders |-> ch.holders]

Advance(c, step, row, mode) ==
    change' = [change EXCEPT ![c] =
                 Moved(@, step, change[c].locks \union {[row |-> row, mode |-> mode]})]

Finish(c) == change' = [change EXCEPT ![c] = Idle]

-----------------------------------------------------------------------------
\* owner_state: the holders of the owner role.
Owners == {u \in UserIds : Present(u) /\ "owner" \in users[u].roles}
LastOwner(u) == Owners = {u}

\* A stored user: its password, permission version, epoch and roles.
Stored(pwd, version, epoch, rs) ==
    [exists |-> TRUE, pwd |-> pwd, version |-> version, epoch |-> epoch, roles |-> rs]

\* replace_roles
ReplaceRoles(user, rs) == Stored(user.pwd, user.version + 1, user.epoch, rs)
NextVersion(user) == ReplaceRoles(user, user.roles)

\* Turso gives a new user the largest id in use plus one, and so the id of a
\* deleted one again; a PostgreSQL sequence never returns to an id.
IsNewId(id) ==
    IF engine = "turso"
    THEN /\ \A u \in UserIds : Present(u) => u < id
         /\ id = 1 \/ \E u \in UserIds : Present(u) /\ id = u + 1
    ELSE id = epochs + 1

NewUser(rs) == ReplaceRoles(Stored(1, 1, epochs + 1, {}), rs)

InsertUser(rs) ==
    /\ \E id \in UserIds : IsNewId(id) /\ users' = [users EXCEPT ![id] = NewUser(rs)]
    /\ epochs' = epochs + 1

-----------------------------------------------------------------------------
\* A change that has just begun, about a user and roles or about a role and
\* its permissions.
New(op, user, rs, role, ps) ==
    [op |-> op, step |-> "start", locks |-> {}, user |-> user, roles |-> rs,
     role |-> role, permissions |-> ps, holders |-> {}]
OfUser(op, user, rs) == New(op, user, rs, "none", {})
OfRole(op, role, ps) == New(op, 0, {}, role, ps)

\* On Turso a change waits for the one writer connection before its first
\* statement and holds it to its end.
Waiting(ch) == ch.step = "start" /\ ch.locks = {}
WriterFree(c) ==
    engine = "turso" => \A d \in Admins \ {c} : change[d] # Idle => Waiting(change[d])

\* A request that was authorised goes on to its transaction.
Begin(c, request) ==
    /\ change[c] = Idle
    /\ changes < MaxChanges
    /\ change' = [change EXCEPT ![c] = request]
    /\ changes' = changes + 1
    /\ UNCHANGED <<engine, users, roles, verifying, tokens, epochs, leaked>>

\* The requests of UserApplication and RoleApplication.  A user created without
\* roles becomes a viewer.  Built-in role names are reserved.
CreateUser(c) ==
    /\ Authorised("manage")
    /\ \E id \in UserIds :                                                      \* bound
        IsNewId(id) /\ id + Cardinality({d \in Admins : change[d].op = "create"}) \in UserIds
    /\ \E rs \in RoleChoices \union {{"viewer"}} : Begin(c, OfUser("create", 0, rs))
ChangePassword(c) ==
    /\ Authorised("manage")
    /\ \E u \in UserIds : Begin(c, OfUser("password", u, {}))
DeleteUser(c) ==
    /\ Authorised("manage")
    /\ \E u \in UserIds : Begin(c, OfUser("delete", u, {}))
SetRoles(c) ==
    /\ Authorised("manage")
    /\ \E u \in UserIds, rs \in RoleChoices :
        Begin(c, OfUser("set_roles", u, rs))
CreateRole(c) ==
    /\ Authorised("manage")
    /\ \E r \in RoleNames \ SystemRoles, ps \in PermissionChoices :
        Begin(c, OfRole("create_role", r, ps))
UpdateRole(c) ==
    /\ Authorised("manage")
    /\ \E r \in RoleNames, ps \in PermissionChoices :
        Begin(c, OfRole("update_role", r, ps))
DeleteRole(c) ==
    /\ Authorised("manage")
    /\ \E r \in RoleNames : Begin(c, OfRole("delete_role", r, {}))

\* Every process of the deployment seeds the owner when it boots.
Seed == OfUser("seed", 0, {"owner"})
SeedOwner(c) == Begin(c, Seed)

\* A change that has come to a step and can go on, on Turso as the writer.
At(c, ops, step) ==
    change[c] # Idle /\ change[c].op \in ops /\ change[c].step = step /\ WriterFree(c)

\* A change that ends without writing.
Abandon(c) ==
    /\ Finish(c)
    /\ UNCHANGED <<engine, users, roles, verifying, tokens, epochs, changes, leaked>>

Lock(c, step, row, mode) ==
    /\ CanLock(c, row, mode)
    /\ Advance(c, step, row, mode)
    /\ UNCHANGED <<engine, users, roles, verifying, tokens, epochs, changes, leaked>>

\* Mutant: the last owner is counted without the owner role locked.
LockOwnerShared(c) ==
    At(c, {"delete", "set_roles"}, "start") /\ Lock(c, "owner", Role("owner"), "share")

\* lock_owner_role: every change that could remove an owner takes this first.
LockOwner(c) == At(c, {"delete", "set_roles"}, "start") /\ Lock(c, "owner", Role("owner"), "update")

\* The requested roles not locked yet, as the query finds them.
ToLock(c) ==
    {r \in change[c].roles : RolePresent(r) /\ Role(r) \notin LockedRows(c)}

LookingUpRoles(c) ==
    \/ At(c, {"create"}, "start")
    \/ At(c, {"set_roles"}, "owner") /\ Present(change[c].user)

\* The requested roles are locked one by one in name order; a role that is
\* missing ends the change.
LockRolesFor(c, mode) ==
    /\ LookingUpRoles(c)
    /\ \/ \E r \in ToLock(c) :
            /\ \A s \in ToLock(c) : Rank[r] <= Rank[s]
            /\ Lock(c, change[c].step, Role(r), mode)
       \/ /\ ToLock(c) = {}
          /\ \A r \in change[c].roles : RolePresent(r)
          /\ change' = [change EXCEPT ![c] = Moved(@, "roles", change[c].locks)]
          /\ UNCHANGED <<engine, users, roles, verifying, tokens, epochs, changes, leaked>>
       \/ /\ ToLock(c) = {}
          /\ \E r \in change[c].roles : ~RolePresent(r)
          /\ Abandon(c)

\* Mutant: the roles are looked up and not locked.
LockRolesUnlocked(c) ==
    /\ LookingUpRoles(c)
    /\ IF \A r \in change[c].roles : RolePresent(r)
       THEN /\ change' = [change EXCEPT ![c] = Moved(@, "roles", change[c].locks)]
            /\ UNCHANGED <<engine, users, roles, verifying, tokens, epochs, changes, leaked>>
       ELSE Abandon(c)

\* Mutant: the roles are locked exclusively.
LockRolesExclusive(c) == LockRolesFor(c, "update")

\* lock_roles_by_ids, lock_default_viewer
LockRoles(c) == LockRolesFor(c, "share")

\* The user row, FOR UPDATE; a user that is gone ends the change.
LockUser(c) ==
    \/ /\ At(c, {"delete"}, "owner") \/ At(c, {"set_roles"}, "roles")
       /\ Present(change[c].user)
       /\ Lock(c, "user", User(change[c].user), "update")
    \/ /\ At(c, {"delete", "set_roles"}, "owner") \/ At(c, {"set_roles"}, "roles")
       /\ CanLock(c, User(change[c].user), "update")
       /\ ~Present(change[c].user)
       /\ Abandon(c)

\* The role row of an update or a deletion, FOR UPDATE.
LockRole(c) ==
    /\ At(c, {"update_role", "delete_role"}, "start")
    /\ CanLock(c, Role(change[c].role), "update")
    /\ IF RolePresent(change[c].role) /\ change[c].role \notin SystemRoles
       THEN Lock(c, "role", Role(change[c].role), "update")
       ELSE Abandon(c)

\* The UPDATE of the holders' versions finds them when it starts ...
FoundHolders(ch, found) ==
    [op |-> ch.op, step |-> "holders",
     locks |-> ch.locks \union {[row |-> UsersTable, mode |-> "share"]}, user |-> ch.user,
     roles |-> ch.roles, role |-> ch.role, permissions |-> ch.permissions, holders |-> found]
ReadHolders(c) ==
    /\ At(c, {"update_role"}, "role")
    /\ TableFree(c)
    /\ change' = [change EXCEPT ![c] = FoundHolders(@,
            {u \in UserIds : Present(u) /\ change[c].role \in users[u].roles})]
    /\ UNCHANGED <<engine, users, roles, verifying, tokens, epochs, changes, leaked>>

\* ... and locks them one by one, in the order of the query plan; one that was
\* deleted while it waited is passed over.
HoldersLeft(c) ==
    {u \in change[c].holders : Present(u) /\ User(u) \notin LockedRows(c)}
LockHolder(c) ==
    /\ At(c, {"update_role"}, "holders")
    /\ \E u \in HoldersLeft(c) : Lock(c, "holders", User(u), "update")

\* LOCK TABLE users IN SHARE ROW EXCLUSIVE MODE
LockTable(c) == At(c, {"seed"}, "start") /\ Lock(c, "table", UsersTable, "update")

\* owner_state is read once the locks are held; the last owner stays.
CountOwners(c) ==
    /\ At(c, {"delete", "set_roles"}, "user")
    /\ IF /\ LastOwner(change[c].user)
          /\ change[c].op = "set_roles" => "owner" \notin change[c].roles
       THEN Abandon(c)
       ELSE /\ change' = [change EXCEPT ![c] = Moved(@, "counted", change[c].locks)]
            /\ UNCHANGED <<engine, users, roles, verifying, tokens, epochs, changes, leaked>>

-----------------------------------------------------------------------------
\* The writes, each with the commit that ends its transaction.
KeepRest == UNCHANGED <<engine, verifying, tokens, changes>>

\* An assignment needs its roles: a missing one is a foreign-key error.
ApplyCreate(c) ==
    /\ At(c, {"create"}, "roles")
    /\ TableFree(c)
    /\ \A r \in change[c].roles : CanLock(c, Role(r), "share")
    /\ IF \A r \in change[c].roles : RolePresent(r)
       THEN InsertUser(change[c].roles) /\ UNCHANGED <<roles, leaked>>
       ELSE leaked' = TRUE /\ UNCHANGED <<users, roles, epochs>>
    /\ Finish(c) /\ KeepRest

ApplySetRoles(c) ==
    /\ At(c, {"set_roles"}, "counted")
    /\ TableFree(c)
    /\ \A r \in change[c].roles : CanLock(c, Role(r), "share")
    /\ IF \A r \in change[c].roles : RolePresent(r)
       THEN /\ users' = [users EXCEPT ![change[c].user] = ReplaceRoles(@, change[c].roles)]
            /\ UNCHANGED leaked
       ELSE leaked' = TRUE /\ UNCHANGED users
    /\ Finish(c) /\ KeepRest /\ UNCHANGED <<roles, epochs>>

ApplyDelete(c) ==
    /\ At(c, {"delete"}, "counted")
    /\ TableFree(c)
    /\ users' = [users EXCEPT ![change[c].user] = NoUser]
    /\ Finish(c) /\ KeepRest /\ UNCHANGED <<roles, epochs, leaked>>

ApplyPassword(c) ==
    LET u == change[c].user IN
    /\ At(c, {"password"}, "start")
    /\ TableFree(c) /\ CanLock(c, User(u), "update")
    /\ users' = IF Present(u)
                THEN [users EXCEPT ![u] = Stored(@.pwd + 1, @.version + 1, @.epoch, @.roles)]
                ELSE users
    /\ Finish(c) /\ KeepRest /\ UNCHANGED <<roles, epochs, leaked>>

ApplyCreateRole(c) ==
    /\ At(c, {"create_role"}, "start")
    /\ roles' = IF RolePresent(change[c].role) THEN roles
                ELSE [roles EXCEPT ![change[c].role] = change[c].permissions]
    /\ Finish(c) /\ KeepRest /\ UNCHANGED <<users, epochs, leaked>>

\* The permissions are replaced and every holder's permission version advances.
ApplyUpdateRole(c) ==
    /\ At(c, {"update_role"}, "holders")
    /\ HoldersLeft(c) = {}
    /\ roles' = [roles EXCEPT ![change[c].role] = change[c].permissions]
    /\ users' = [u \in UserIds |->
                    IF u \in change[c].holders /\ Present(u)
                    THEN NextVersion(users[u]) ELSE users[u]]
    /\ Finish(c) /\ KeepRest /\ UNCHANGED <<epochs, leaked>>

ApplyDeleteRole(c) ==
    LET r == change[c].role IN
    /\ At(c, {"delete_role"}, "role")
    /\ roles' = IF \E u \in UserIds : Present(u) /\ r \in users[u].roles
                THEN roles ELSE [roles EXCEPT ![r] = NoRole]
    /\ Finish(c) /\ KeepRest /\ UNCHANGED <<users, epochs, leaked>>

\* seed_owner_if_empty
ApplySeed(c) ==
    /\ At(c, {"seed"}, "table")
    /\ IF \E u \in UserIds : Present(u)
       THEN UNCHANGED <<users, roles, epochs>>
       ELSE InsertUser({"owner"}) /\ roles' = [roles EXCEPT !["owner"] = AllPermissions]
    /\ Finish(c) /\ KeepRest /\ UNCHANGED leaked

-----------------------------------------------------------------------------
\* PostgreSQL looks for transactions that wait in a circle and ends one of them;
\* its error is reported and the change is not tried again (map_diesel_error).

\* The locks that a change may be asking for.
Wants(c) ==
    LET ch == change[c]
        lock(row, mode) == [row |-> row, mode |-> mode]
        ofUsers == {lock(UsersTable, "share")}
        ofUser == {lock(User(ch.user), "update")}
        ofRoles(rs) == {lock(Role(r), "share") : r \in rs} IN
    CASE At(c, {"delete", "set_roles"}, "start") -> {lock(Role("owner"), "update")}
      [] LookingUpRoles(c) ->
            ofRoles({r \in ToLock(c) : \A s \in ToLock(c) : Rank[r] <= Rank[s]})
      [] At(c, {"delete"}, "owner") \/ At(c, {"set_roles"}, "roles") -> ofUser
      [] At(c, {"update_role", "delete_role"}, "start") -> {lock(Role(ch.role), "update")}
      [] At(c, {"seed"}, "start") -> {lock(UsersTable, "update")}
      [] At(c, {"create"}, "roles") \/ At(c, {"set_roles"}, "counted") ->
            ofUsers \union ofRoles(ch.roles)
      [] At(c, {"delete"}, "counted") \/ At(c, {"update_role"}, "role") -> ofUsers
      [] At(c, {"password"}, "start") -> ofUsers \union ofUser
      [] At(c, {"update_role"}, "holders") -> {lock(User(u), "update") : u \in HoldersLeft(c)}
      [] OTHER -> {}

WaitsFor(c, d) ==
    /\ c # d /\ change[d] # Idle
    /\ \E l \in Wants(c), k \in change[d].locks : Conflicts(l, k)

Deadlocked(c) ==
    \E circle \in SUBSET Admins :
        /\ c \in circle
        /\ \A d \in circle : /\ \E e \in circle : WaitsFor(d, e)
                             /\ \E e \in circle : WaitsFor(e, d)

DeadlockVictim(c) == Deadlocked(c) /\ Abandon(c)

-----------------------------------------------------------------------------
\* authenticate: the credentials are read in one snapshot ...
LoginRead(u) ==
    /\ Cardinality(verifying) + Cardinality(tokens) < MaxLogins
    /\ Present(u)
    /\ verifying' = verifying \union
        {[user |-> u, version |-> users[u].version, epoch |-> users[u].epoch,
          pwd |-> users[u].pwd, scopes |-> Permissions(u)]}
    /\ UNCHANGED <<engine, users, roles, change, tokens, epochs, changes, leaked>>

\* ... the password is verified meanwhile, and the token is made of what was
\* read: create_token_with_scopes.
LoginIssue(l) ==
    /\ verifying' = verifying \ {l}
    /\ tokens' = tokens \union {l}
    /\ UNCHANGED <<engine, users, roles, change, epochs, changes, leaked>>

\* A person forgets or discards a token (logout, expiry).
Discard(t) ==
    /\ tokens' = tokens \ {t}
    /\ UNCHANGED <<engine, users, roles, change, verifying, epochs, changes, leaked>>

-----------------------------------------------------------------------------
IdentityInit ==
    /\ engine \in {"postgres", "turso"}
    /\ users = [u \in UserIds |-> NoUser]
    /\ roles = [r \in RoleNames |-> IF r = "viewer" THEN {"read"} ELSE NoRole]
    /\ change = [c \in Admins |-> Idle]
    /\ verifying = {} /\ tokens = {}
    /\ epochs = 0 /\ changes = 0
    /\ leaked = FALSE

Request(c) ==
    \/ CreateUser(c) \/ ChangePassword(c) \/ DeleteUser(c) \/ SetRoles(c)
    \/ CreateRole(c) \/ UpdateRole(c) \/ DeleteRole(c) \/ SeedOwner(c)

Transaction(c) ==
    \/ LockOwner(c) \/ LockRoles(c) \/ LockUser(c) \/ LockRole(c) \/ LockTable(c)
    \/ CountOwners(c) \/ ReadHolders(c) \/ LockHolder(c)
    \/ ApplyCreate(c) \/ ApplySetRoles(c) \/ ApplyDelete(c) \/ ApplyPassword(c)
    \/ ApplyCreateRole(c) \/ ApplyUpdateRole(c) \/ ApplyDeleteRole(c) \/ ApplySeed(c)

IdentityNext ==
    \/ \E c \in Admins : Request(c) \/ Transaction(c) \/ DeadlockVictim(c)
    \/ \E u \in UserIds : LoginRead(u)
    \/ \E l \in verifying : LoginIssue(l)
    \/ \E t \in tokens : Discard(t)

IdentityFairness ==
    /\ \A c \in Admins : WF_identityVars(Transaction(c))
    /\ WF_identityVars(\E c \in Admins : DeadlockVictim(c))

IdentitySpec == IdentityInit /\ [][IdentityNext]_identityVars /\ IdentityFairness

-----------------------------------------------------------------------------
\* A token that is still accepted was issued to the very user it now stands
\* for, with the password, the roles' permissions and the principal unchanged
\* since its credentials were read, whatever changed in between and however the
\* id was reused (application/users.rs resolve_session).
SessionCurrent ==
    \A t \in tokens : Accepts(t) =>
        /\ t.epoch = users[t.user].epoch
        /\ t.pwd = users[t.user].pwd
        /\ t.scopes = Permissions(t.user)

\* Once the first owner is seeded the tenant always has one that may manage it,
\* whichever owners are deleted or demoted at the same time
\* (WouldDeleteLastOwner, WouldRemoveLastOwner).
OwnerRemains == epochs > 0 => \E u \in Owners : "manage" \in Permissions(u)

\* Every change ends, by its commit or without a trace, and none in a
\* foreign-key error: an assignment that races with the deletion of its role is
\* complete or finds no role (users.rs lock_roles_by_ids).  The order in which
\* roles and users are locked lets no change be caught in a deadlock but the
\* updates of two roles with common holders, whose rows roles.rs locks in no
\* order.
EveryChangeEnds ==
    /\ \A c \in Admins : change[c] # Idle ~> change[c] = Idle
    /\ []~leaked
    /\ [](\A c \in Admins : Deadlocked(c) => change[c].op = "update_role")

=============================================================================
