--------------------------- MODULE IdentityProofs ---------------------------
(***************************************************************************)
(* Sessions, owners and assignments, for any users, handlers and choices.  *)
(*                                                                         *)
(* Three results rest on one invariant.  The tables: an epoch is given out *)
(* once, a version only grows while its epoch lasts, so what a login read  *)
(* is the present state or one that was left for good; whoever holds a     *)
(* role holds one that exists; after the first seed there is an owner.     *)
(* The changes: what a transaction found, it found under a lock that it    *)
(* still holds, so the write that follows finds it again.  The locks: two  *)
(* changes share a row only when both share it.                            *)
(***************************************************************************)
EXTENDS Identity, TLAPS

-----------------------------------------------------------------------------
(* The invariant. *)

UserRecords == [exists : {TRUE}, pwd : Nat, version : Nat, epoch : Nat, roles : SUBSET RoleNames]

\* The tables are functions, and a user has the fields of a user.
IdentityTyped ==
    /\ users \in [UserIds -> UserRecords \cup {NoUser}]
    /\ roles = [r \in RoleNames |-> roles[r]]
    /\ epochs \in Nat

\* A change has the fields of a change and asks for what there can be.
IsChange(ch) ==
    /\ ch = [op |-> ch.op, step |-> ch.step, locks |-> ch.locks, user |-> ch.user,
             roles |-> ch.roles, role |-> ch.role, permissions |-> ch.permissions,
             holders |-> ch.holders]
    /\ ch # Idle
    /\ ch.roles \subseteq RoleNames
    /\ ch.permissions \subseteq AllPermissions
    /\ ch.op \in {"password", "delete", "set_roles"} => ch.user \in UserIds
    /\ ch.op \in {"update_role", "delete_role"} => ch.role \in RoleNames
    /\ ch.op = "create_role" => ch.role \in RoleNames \ SystemRoles

\* A deletion or an assignment that is under way.
MayRemoveOwner(ch) == ch.op \in {"delete", "set_roles"} /\ ch.step # "start"

OwnerLock == [row |-> Role("owner"), mode |-> "update"]

\* It holds the owner role exclusively from its first lock to its end.
OwnerLocked(ch) == MayRemoveOwner(ch) => OwnerLock \in ch.locks

\* Its user, once found under that lock, is still there.
UserFound(ch) == MayRemoveOwner(ch) /\ ch.step \in {"user", "counted"} => Present(ch.user)

\* After the count there is another owner, or the user stays one.
OwnerSpared(ch) ==
    MayRemoveOwner(ch) /\ ch.step = "counted" =>
        \/ \E v \in Owners : v # ch.user
        \/ ch.op = "set_roles" /\ "owner" \in ch.roles

\* The roles an assignment looked up are there, and locked.
RolesFound(ch) ==
    \/ ch.op = "create" /\ ch.step = "roles"
    \/ ch.op = "set_roles" /\ ch.step \in {"roles", "user", "counted"}
    => \A r \in ch.roles : RolePresent(r) /\ \E l \in ch.locks : l.row = Role(r)

\* Only a role that is not built in is changed, and under its lock.
RoleHeld(ch) ==
    ch.op \in {"update_role", "delete_role"} /\ ch.step \in {"role", "holders"} =>
        /\ ch.role \in RoleNames \ SystemRoles
        /\ [row |-> Role(ch.role), mode |-> "update"] \in ch.locks

\* An update of a role that has found the role's holders.
Updating(ch) == ch.op = "update_role" /\ ch.step = "holders"

\* It has found every holder there is.
HoldersFound(ch) ==
    Updating(ch) => \A u \in UserIds : Present(u) /\ ch.role \in users[u].roles => u \in ch.holders

\* Before the first seed there is nobody to ask for anything else.
Asked(ch) == epochs = 0 => ch.op = "seed"

Sound(ch) ==
    \/ ch = Idle
    \/ /\ IsChange(ch)
       /\ OwnerLocked(ch) /\ UserFound(ch) /\ OwnerSpared(ch)
       /\ RolesFound(ch) /\ RoleHeld(ch) /\ HoldersFound(ch) /\ Asked(ch)

ChangesSound == change = [c \in Admins |-> change[c]] /\ \A c \in Admins : Sound(change[c])

\* Rows held by two changes at once are held shared by both.
Compatible(ch, other) ==
    ch # Idle /\ other # Idle => \A l \in ch.locks, k \in other.locks : ~Conflicts(l, k)
LocksCompatible == \A c, d \in Admins : c # d => Compatible(change[c], change[d])

\* Nobody holds a role that is not there.
HeldRolesExist == \A u \in UserIds : Present(u) => \A r \in users[u].roles : RolePresent(r)

\* Before the first seed there is nobody; afterwards there is an owner, and the
\* owner role has every permission.
Seeded ==
    IF epochs = 0 THEN tokens = {} /\ verifying = {} /\ \A u \in UserIds : ~Present(u)
                  ELSE Owners # {} /\ roles["owner"] = AllPermissions

\* A PostgreSQL id is never above the sequence.
IdsHandedOut == engine # "turso" => \A u \in UserIds : Present(u) => u <= epochs

\* No epoch was handed out later than the last.
EpochsHandedOut ==
    /\ \A u \in UserIds : Present(u) => users[u].epoch <= epochs
    /\ \A l \in verifying \cup tokens :
          l.user \in UserIds /\ l.epoch \in Nat /\ l.epoch <= epochs /\ l.version \in Nat

\* What a login read of a user that is still the same is the present state, or
\* one that was left for good.
LoginsCurrent ==
    \A l \in verifying \cup tokens :
        Present(l.user) /\ users[l.user].epoch = l.epoch =>
            /\ l.version <= users[l.user].version
            /\ l.version = users[l.user].version =>
                  l.pwd = users[l.user].pwd /\ l.scopes = Permissions(l.user)

TablesInv ==
    /\ IdentityTyped /\ HeldRolesExist /\ Seeded
    /\ IdsHandedOut /\ EpochsHandedOut /\ LoginsCurrent
    /\ leaked = FALSE

IdentityInv == TablesInv /\ ChangesSound /\ LocksCompatible

Tables == <<engine, users, roles, verifying, tokens, epochs, leaked>>

-----------------------------------------------------------------------------
(* Changes that do not write. *)

\* There is nobody at first.
LEMMA IdentityInvInit == IdentityInit => IdentityInv
<1> SUFFICES ASSUME IdentityInit PROVE IdentityInv
  OBVIOUS
<1>1. TablesInv
  BY DEF IdentityInit, TablesInv, IdentityTyped, HeldRolesExist, Seeded, IdsHandedOut,
         EpochsHandedOut, LoginsCurrent, Present
<1>2. ChangesSound /\ LocksCompatible
  BY DEF IdentityInit, ChangesSound, LocksCompatible, Sound, Compatible
<1> QED
  BY <1>1, <1>2 DEF IdentityInv

\* The tables stay what they are.
LEMMA TablesKept ==
    ASSUME TablesInv, UNCHANGED Tables PROVE TablesInv'
BY DEF TablesInv, Tables, IdentityTyped, HeldRolesExist, Seeded, IdsHandedOut, EpochsHandedOut,
       LoginsCurrent, Present, RolePresent, Owners, Permissions

\* What is said of a change is said of the tables.
LEMMA SoundKept ==
    ASSUME NEW ch, Sound(ch), UNCHANGED Tables PROVE Sound(ch)'
BY DEF Tables, Sound, IsChange, OwnerLocked, UserFound, OwnerSpared, RolesFound, RoleHeld,
       HoldersFound, Updating, Asked, Present, RolePresent, Owners, MayRemoveOwner

\* One change goes on to a sound state whose locks the others admit.
LEMMA ChangeMoves ==
    ASSUME IdentityInv, NEW c \in Admins, NEW ch, Sound(ch), UNCHANGED Tables,
           change' = [change EXCEPT ![c] = ch],
           \A d \in Admins \ {c} : Compatible(ch, change[d])
    PROVE  IdentityInv'
<1>1. TablesInv'
  BY TablesKept DEF IdentityInv
<1>2. /\ change' = [d \in Admins |-> change'[d]]
      /\ change'[c] = ch /\ \A d \in Admins \ {c} : change'[d] = change[d]
  BY DEF IdentityInv, ChangesSound
<1>3. ASSUME NEW d \in Admins PROVE Sound(change[d])'
  <2>1. PICK e : e = change'[d]
    OBVIOUS
  <2>2. Sound(e)
    BY <1>2, <2>1 DEF IdentityInv, ChangesSound
  <2>3. Sound(e)'
    BY <2>2, SoundKept
  <2> QED
    BY <2>1, <2>3
<1>4. LocksCompatible'
  BY <1>2 DEF IdentityInv, LocksCompatible, Compatible, Conflicts
<1> QED
  BY <1>1, <1>2, <1>3, <1>4 DEF IdentityInv, ChangesSound

\* A change ends without having written.
LEMMA AbandonKeeps ==
    ASSUME IdentityInv, NEW c \in Admins, Abandon(c) PROVE IdentityInv'
BY ChangeMoves DEF Abandon, Finish, Tables, Sound, Compatible

\* A change that begins holds nothing and has found nothing yet.
LEMMA BeginKeeps ==
    ASSUME IdentityInv, NEW c \in Admins, NEW request, Begin(c, request),
           IsChange(request), request.step = "start", request.locks = {}, Asked(request)
    PROVE  IdentityInv'
<1>1. Sound(request)
  BY DEF Sound, OwnerLocked, UserFound, OwnerSpared, RolesFound, RoleHeld, HoldersFound, Updating,
         MayRemoveOwner
<1>2. \A d \in Admins \ {c} : Compatible(request, change[d])
  BY DEF Compatible
<1> QED
  BY <1>1, <1>2, ChangeMoves DEF Begin, Tables

\* Whoever may ask for a change was seeded or created.
LEMMA AuthorisedAfterSeed ==
    ASSUME IdentityInv, NEW p, Authorised(p) PROVE epochs # 0
BY DEF IdentityInv, TablesInv, Seeded, Authorised

\* Every request begins a change.
LEMMA RequestKeeps ==
    ASSUME IdentityInv, NEW c \in Admins, Request(c) PROVE IdentityInv'
<1> USE IdentityAssumption, BeginKeeps, AuthorisedAfterSeed
    DEF IsChange, New, OfUser, OfRole, Idle, Asked, RoleNames, SystemRoles
<1>1. CASE CreateUser(c)
  BY <1>1 DEF CreateUser
<1>2. CASE ChangePassword(c)
  BY <1>2 DEF ChangePassword
<1>3. CASE DeleteUser(c)
  BY <1>3 DEF DeleteUser
<1>4. CASE SetRoles(c)
  BY <1>4 DEF SetRoles
<1>5. CASE CreateRole(c)
  BY <1>5 DEF CreateRole
<1>6. CASE UpdateRole(c)
  BY <1>6 DEF UpdateRole
<1>7. CASE DeleteRole(c)
  BY <1>7 DEF DeleteRole
<1>8. CASE SeedOwner(c)
  BY <1>8 DEF SeedOwner, Seed
<1> QED
  BY <1>1, <1>2, <1>3, <1>4, <1>5, <1>6, <1>7, <1>8 DEF Request

\* Its fields tell a change that has moved.
LEMMA MovedIsChange ==
    ASSUME NEW ch, IsChange(ch), NEW step, NEW locks PROVE IsChange(Moved(ch, step, locks))
BY DEF IsChange, Moved, Idle

\* A lock is added only where the others admit it.
LEMMA LockMoves ==
    ASSUME IdentityInv, NEW c \in Admins, NEW step, NEW row, NEW mode, change[c] # Idle,
           Lock(c, step, row, mode),
           Sound(Moved(change[c], step, change[c].locks \cup {[row |-> row, mode |-> mode]}))
    PROVE  IdentityInv'
<1>0. IsChange(change[c])
  BY DEF IdentityInv, ChangesSound, Sound
<1> DEFINE ch == Moved(change[c], step, change[c].locks \cup {[row |-> row, mode |-> mode]})
<1>1. change' = [change EXCEPT ![c] = ch]
  BY DEF Lock, Advance
<1>2. ch.locks = change[c].locks \cup {[row |-> row, mode |-> mode]}
  BY DEF Moved
<1> HIDE DEF ch
<1>3. \A d \in Admins \ {c} : Compatible(ch, change[d])
  BY <1>2 DEF Lock, CanLock, Compatible, IdentityInv, LocksCompatible
<1>4. Sound(ch) /\ UNCHANGED Tables
  BY DEF ch, Lock, Tables
<1> QED
  BY <1>1, <1>3, <1>4, ChangeMoves

\* The same without a lock.
LEMMA StepMoves ==
    ASSUME IdentityInv, NEW c \in Admins, NEW step, change[c] # Idle, UNCHANGED Tables,
           change' = [change EXCEPT ![c] = Moved(@, step, change[c].locks)],
           Sound(Moved(change[c], step, change[c].locks))
    PROVE  IdentityInv'
<1>0. IsChange(change[c])
  BY DEF IdentityInv, ChangesSound, Sound
<1> DEFINE ch == Moved(change[c], step, change[c].locks)
<1>1. change' = [change EXCEPT ![c] = ch]
  OBVIOUS
<1>2. ch.locks = change[c].locks
  BY DEF Moved
<1> HIDE DEF ch
<1>3. \A d \in Admins \ {c} : Compatible(ch, change[d])
  BY <1>2 DEF Compatible, IdentityInv, LocksCompatible
<1>4. Sound(ch)
  BY DEF ch
<1> QED
  BY <1>1, <1>3, <1>4, ChangeMoves

\* A change that is under way is sound.
LEMMA UnderWay ==
    ASSUME IdentityInv, NEW c \in Admins, change[c] # Idle
    PROVE  /\ IsChange(change[c])
           /\ OwnerLocked(change[c]) /\ UserFound(change[c]) /\ OwnerSpared(change[c])
           /\ RolesFound(change[c]) /\ RoleHeld(change[c]) /\ HoldersFound(change[c])
           /\ Asked(change[c])
BY DEF IdentityInv, ChangesSound, Sound

\* The locks of a transaction, and the count that needs them all.
LEMMA LockingKeeps ==
    ASSUME IdentityInv, NEW c \in Admins,
           \/ LockOwner(c) \/ LockRoles(c) \/ LockUser(c) \/ LockRole(c) \/ LockTable(c)
           \/ CountOwners(c) \/ ReadHolders(c) \/ LockHolder(c)
    PROVE  IdentityInv'
<1>1. CASE LockOwner(c)
  <2> DEFINE ch == Moved(change[c], "owner", change[c].locks \cup {OwnerLock})
  <2>1. /\ change[c] # Idle /\ change[c].op \in {"delete", "set_roles"}
        /\ Lock(c, "owner", Role("owner"), "update")
    BY <1>1 DEF LockOwner, At
  <2>2. IsChange(ch) /\ Asked(ch)
    BY <2>1, UnderWay, MovedIsChange DEF Asked, Moved
  <2>3. ch.op = change[c].op /\ ch.step = "owner" /\ OwnerLock \in ch.locks
    BY DEF Moved
  <2>4. Sound(ch)
    <3> HIDE DEF ch
    <3> QED
    BY <2>1, <2>2, <2>3 DEF Sound, OwnerLocked, UserFound, OwnerSpared, RolesFound, RoleHeld,
                            HoldersFound, Updating
  <2> QED
    BY <2>1, <2>4, LockMoves DEF OwnerLock
<1>2. CASE LockTable(c)
  <2> DEFINE ch == Moved(change[c], "table",
                         change[c].locks \cup {[row |-> UsersTable, mode |-> "update"]})
  <2>1. /\ change[c] # Idle /\ change[c].op = "seed"
        /\ Lock(c, "table", UsersTable, "update")
    BY <1>2 DEF LockTable, At
  <2>2. IsChange(ch) /\ Asked(ch)
    BY <2>1, UnderWay, MovedIsChange DEF Asked, Moved
  <2>3. ch.op = "seed"
    BY <2>1 DEF Moved
  <2>4. Sound(ch)
    <3> HIDE DEF ch
    <3> QED
    BY <2>2, <2>3 DEF Sound, OwnerLocked, UserFound, OwnerSpared, RolesFound, RoleHeld,
                      HoldersFound, Updating, MayRemoveOwner
  <2> QED
    BY <2>1, <2>4, LockMoves
<1>3. CASE LockRole(c)
  <2> DEFINE ch == Moved(change[c], "role",
                change[c].locks \cup {[row |-> Role(change[c].role), mode |-> "update"]})
  <2>1. /\ change[c] # Idle /\ change[c].op \in {"update_role", "delete_role"}
        /\ change[c].step = "start"
    BY <1>3 DEF LockRole, At
  <2>2. CASE Abandon(c)
    BY <2>2, AbandonKeeps
  <2>3. CASE /\ RolePresent(change[c].role) /\ change[c].role \notin SystemRoles
             /\ Lock(c, "role", Role(change[c].role), "update")
    <3>1. IsChange(ch) /\ Asked(ch)
      BY <2>1, UnderWay, MovedIsChange DEF Asked, Moved
    <3>2. /\ ch.op = change[c].op /\ ch.role = change[c].role /\ ch.step = "role"
          /\ [row |-> Role(change[c].role), mode |-> "update"] \in ch.locks
      BY DEF Moved
    <3>3. change[c].role \in RoleNames
      BY <2>1, UnderWay DEF IsChange
    <3>4. Sound(ch)
      <4> HIDE DEF ch
      <4> QED
      BY <2>1, <2>3, <3>1, <3>2, <3>3 DEF Sound, OwnerLocked, UserFound, OwnerSpared, RolesFound,
         RoleHeld, HoldersFound, Updating, MayRemoveOwner
    <3> QED
      BY <2>1, <2>3, <3>4, LockMoves
  <2> QED
    BY <1>3, <2>2, <2>3 DEF LockRole
<1>4. CASE CountOwners(c)
  <2> DEFINE ch == Moved(change[c], "counted", change[c].locks)
  <2>1. /\ change[c] # Idle /\ change[c].op \in {"delete", "set_roles"}
        /\ change[c].step = "user"
    BY <1>4 DEF CountOwners, At
  <2>2. CASE Abandon(c)
    BY <2>2, AbandonKeeps
  <2>3. CASE /\ ~(/\ LastOwner(change[c].user)
                  /\ change[c].op = "set_roles" => "owner" \notin change[c].roles)
             /\ change' = [change EXCEPT ![c] = ch]
             /\ UNCHANGED Tables
    <3>1. IsChange(ch) /\ Asked(ch)
      BY <2>1, UnderWay, MovedIsChange DEF Asked, Moved
    <3>2. /\ ch.op = change[c].op /\ ch.user = change[c].user /\ ch.roles = change[c].roles
          /\ ch.locks = change[c].locks /\ ch.step = "counted"
      BY DEF Moved
    <3>3. OwnerLocked(ch) /\ UserFound(ch) /\ RolesFound(ch) /\ RoleHeld(ch) /\ HoldersFound(ch)
      <4> HIDE DEF ch
      <4> QED
      BY <2>1, <3>2, UnderWay DEF OwnerLocked, UserFound, RolesFound, RoleHeld, HoldersFound,
         Updating, MayRemoveOwner
    <3>4. OwnerSpared(ch)
      <4>1. Owners # {}
        BY <2>1, UnderWay DEF IdentityInv, TablesInv, Seeded, Asked
      <4>2. CASE ~LastOwner(change[c].user)
        <5>1. \E v \in Owners : v # change[c].user
          BY <4>1, <4>2 DEF LastOwner
        <5> HIDE DEF ch
        <5> QED
          BY <5>1, <3>2 DEF OwnerSpared
      <4>3. CASE change[c].op = "set_roles" /\ "owner" \in change[c].roles
        <5> HIDE DEF ch
        <5> QED
        BY <4>3, <3>2 DEF OwnerSpared
      <4> QED
        BY <2>3, <4>2, <4>3
    <3>5. Sound(ch)
      BY <3>1, <3>3, <3>4 DEF Sound
    <3> QED
      BY <2>1, <2>3, <3>5, StepMoves
  <2> QED
    BY <1>4, <2>2, <2>3 DEF CountOwners, Tables
<1>5. CASE LockUser(c)
  <2>1. change[c] # Idle
    BY <1>5 DEF LockUser, At
  <2>2. CASE Abandon(c)
    BY <2>2, AbandonKeeps
  <2>3. CASE /\ At(c, {"delete"}, "owner") \/ At(c, {"set_roles"}, "roles")
             /\ Present(change[c].user)
             /\ Lock(c, "user", User(change[c].user), "update")
    <3> DEFINE ch == Moved(change[c], "user",
                change[c].locks \cup {[row |-> User(change[c].user), mode |-> "update"]})
    <3>1. IsChange(ch) /\ Asked(ch)
      BY <2>1, UnderWay, MovedIsChange DEF Asked, Moved
    <3>2. /\ ch.op = change[c].op /\ ch.user = change[c].user /\ ch.roles = change[c].roles
          /\ change[c].locks \subseteq ch.locks /\ ch.step = "user"
      BY DEF Moved
    <3>3. /\ OwnerLocked(ch) /\ UserFound(ch) /\ RolesFound(ch) /\ RoleHeld(ch) /\ OwnerSpared(ch)
          /\ HoldersFound(ch)
      <4> HIDE DEF ch
      <4> QED
      BY <2>1, <2>3, <3>2, UnderWay DEF At, OwnerLocked, UserFound, RolesFound, RoleHeld,
         OwnerSpared, HoldersFound, Updating, MayRemoveOwner
    <3>5. Sound(ch)
      BY <3>1, <3>3 DEF Sound
    <3> QED
      BY <2>1, <2>3, <3>5, LockMoves
  <2> QED
    BY <1>5, <2>2, <2>3 DEF LockUser
<1>6. CASE LockRoles(c)
  <2>1. /\ change[c] # Idle
        /\ \/ change[c].op = "create" /\ change[c].step = "start"
           \/ change[c].op = "set_roles" /\ change[c].step = "owner"
    BY <1>6 DEF LockRoles, LockRolesFor, LookingUpRoles, At
  <2>2. CASE Abandon(c)
    BY <2>2, AbandonKeeps
  <2>3. ASSUME NEW r \in ToLock(c), Lock(c, change[c].step, Role(r), "share")
        PROVE  IdentityInv'
    <3> DEFINE ch == Moved(change[c], change[c].step,
                           change[c].locks \cup {[row |-> Role(r), mode |-> "share"]})
    <3>1. IsChange(ch) /\ Asked(ch)
      BY <2>1, UnderWay, MovedIsChange DEF Asked, Moved
    <3>2. /\ ch.op = change[c].op /\ change[c].locks \subseteq ch.locks
          /\ ch.step = change[c].step
      BY DEF Moved
    <3>3. /\ OwnerLocked(ch) /\ UserFound(ch) /\ RolesFound(ch) /\ RoleHeld(ch) /\ OwnerSpared(ch)
          /\ HoldersFound(ch)
      <4> HIDE DEF ch
      <4> QED
      BY <2>1, <3>2, UnderWay DEF OwnerLocked, UserFound, RolesFound, RoleHeld,
         OwnerSpared, HoldersFound, Updating, MayRemoveOwner
    <3>5. Sound(ch)
      BY <3>1, <3>3 DEF Sound
    <3> QED
      BY <2>1, <2>3, <3>5, LockMoves
  <2>4. CASE /\ ToLock(c) = {}
             /\ \A r \in change[c].roles : RolePresent(r)
             /\ change' = [change EXCEPT ![c] = Moved(@, "roles", change[c].locks)]
             /\ UNCHANGED Tables
    <3> DEFINE ch == Moved(change[c], "roles", change[c].locks)
    <3>1. IsChange(ch) /\ Asked(ch)
      BY <2>1, UnderWay, MovedIsChange DEF Asked, Moved
    <3>2. /\ ch.op = change[c].op /\ ch.locks = change[c].locks /\ ch.step = "roles"
          /\ ch.roles = change[c].roles
      BY DEF Moved
    <3>3. OwnerLocked(ch) /\ UserFound(ch) /\ RoleHeld(ch) /\ OwnerSpared(ch) /\ HoldersFound(ch)
      <4> HIDE DEF ch
      <4> QED
      BY <2>1, <3>2, UnderWay DEF OwnerLocked, UserFound, RoleHeld, OwnerSpared, HoldersFound,
         Updating, MayRemoveOwner
    <3>4. \A r \in change[c].roles : RolePresent(r) /\ \E l \in change[c].locks : l.row = Role(r)
      BY <2>4 DEF ToLock, LockedRows
    <3>5. RolesFound(ch)
      <4> HIDE DEF ch
      <4> QED
      BY <3>2, <3>4 DEF RolesFound
    <3>6. Sound(ch)
      BY <3>1, <3>3, <3>5 DEF Sound
    <3> QED
      BY <2>1, <2>4, <3>6, StepMoves
  <2> QED
    BY <1>6, <2>2, <2>3, <2>4 DEF LockRoles, LockRolesFor, Tables
<1>7. CASE ReadHolders(c)
  <2> DEFINE found == {u \in UserIds : Present(u) /\ change[c].role \in users[u].roles}
             share == [row |-> UsersTable, mode |-> "share"]
             ch == FoundHolders(change[c], found)
  <2>1. /\ change[c] # Idle /\ change[c].op = "update_role" /\ change[c].step = "role"
        /\ TableFree(c) /\ change' = [change EXCEPT ![c] = ch] /\ UNCHANGED Tables
    BY <1>7 DEF ReadHolders, At, Tables
  <2>2. /\ ch.op = "update_role" /\ ch.step = "holders" /\ ch.role = change[c].role
        /\ ch.holders = found /\ ch.locks = change[c].locks \cup {share}
    BY <2>1 DEF FoundHolders
  <2>3. IsChange(ch) /\ Asked(ch)
    BY <2>1, UnderWay DEF IsChange, Asked, FoundHolders, Idle
  <2>4. HoldersFound(ch)
    <3> HIDE DEF ch
    <3> QED
      BY <2>2 DEF HoldersFound
  <2> HIDE DEF ch, found, share
  <2>5. Sound(ch)
    BY <2>1, <2>2, <2>3, <2>4, UnderWay DEF Sound, OwnerLocked, UserFound, OwnerSpared, RolesFound,
       RoleHeld, MayRemoveOwner
  <2>6. \A d \in Admins \ {c} : Compatible(ch, change[d])
    BY <2>1, <2>2 DEF share, TableFree, CanLock, Compatible, IdentityInv, LocksCompatible
  <2> QED
    BY <2>1, <2>5, <2>6, ChangeMoves
<1>8. CASE LockHolder(c)
  <2>1. PICK u \in HoldersLeft(c) : Lock(c, "holders", User(u), "update")
    BY <1>8 DEF LockHolder
  <2>2. change[c] # Idle /\ change[c].op = "update_role" /\ change[c].step = "holders"
    BY <1>8 DEF LockHolder, At
  <2> DEFINE ch == Moved(change[c], "holders",
                         change[c].locks \cup {[row |-> User(u), mode |-> "update"]})
  <2>3. IsChange(ch) /\ Asked(ch)
    BY <2>2, UnderWay, MovedIsChange DEF Asked, Moved
  <2>4. /\ ch.op = "update_role" /\ ch.step = "holders" /\ ch.role = change[c].role
        /\ ch.holders = change[c].holders /\ change[c].locks \subseteq ch.locks
    BY <2>2 DEF Moved
  <2>5. Sound(ch)
    <3> HIDE DEF ch
    <3> QED
      BY <2>2, <2>3, <2>4, UnderWay DEF Sound, OwnerLocked, UserFound, OwnerSpared, RolesFound,
         RoleHeld, HoldersFound, Updating, MayRemoveOwner
  <2> QED
    BY <2>1, <2>2, <2>5, LockMoves
<1> QED
  BY <1>1, <1>2, <1>3, <1>4, <1>5, <1>6, <1>7, <1>8

-----------------------------------------------------------------------------
(* The writes.  What they leave of the users decides which logins are current. *)

\* A user after a write: new, or the same one, unchanged or with a later version.
Continues(u) ==
    \/ users'[u].epoch > epochs
    \/ /\ Present(u) /\ users'[u].epoch = users[u].epoch
       /\ \/ users'[u].version > users[u].version
          \/ /\ users'[u].version = users[u].version /\ users'[u].pwd = users[u].pwd
             /\ Permissions(u)' = Permissions(u)

\* Then no login that was left behind is current again.
LEMMA LoginsStay ==
    ASSUME TablesInv, IdentityTyped', UNCHANGED <<verifying, tokens>>,
           \A u \in UserIds : Present(u)' => Continues(u)
    PROVE  LoginsCurrent'
<1> SUFFICES ASSUME NEW l \in verifying \cup tokens,
                    Present(l.user)', users'[l.user].epoch = l.epoch
             PROVE  /\ l.version <= users'[l.user].version
                    /\ l.version = users'[l.user].version =>
                          l.pwd = users'[l.user].pwd /\ l.scopes = Permissions(l.user)'
  BY DEF LoginsCurrent
<1>1. PICK v : v = l.user
  OBVIOUS
<1>2. v \in UserIds /\ l.epoch \in Nat /\ l.epoch <= epochs /\ l.version \in Nat /\ epochs \in Nat
  BY <1>1 DEF TablesInv, EpochsHandedOut, IdentityTyped
<1>3. Present(v)' /\ users'[v].epoch = l.epoch
  BY <1>1 DEF Present
<1>4. /\ Present(v) /\ users'[v].epoch = users[v].epoch
      /\ \/ users'[v].version > users[v].version
         \/ /\ users'[v].version = users[v].version /\ users'[v].pwd = users[v].pwd
            /\ Permissions(v)' = Permissions(v)
  BY <1>2, <1>3 DEF Continues
<1>5. users[v].version \in Nat /\ users'[v].version \in Nat
  BY <1>2, <1>3, <1>4 DEF IdentityTyped, TablesInv, UserRecords, Present
<1>6. /\ l.version <= users[v].version
      /\ l.version = users[v].version => l.pwd = users[v].pwd /\ l.scopes = Permissions(v)
  BY <1>1, <1>3, <1>4 DEF TablesInv, LoginsCurrent
<1>7. /\ l.version <= users'[v].version
      /\ l.version = users'[v].version =>
            l.pwd = users'[v].pwd /\ l.scopes = Permissions(v)'
  BY <1>2, <1>4, <1>5, <1>6
<1> QED
  BY <1>1, <1>7 DEF Permissions

\* A write after which somebody owns the tenant leaves good tables.
LEMMA TablesWritten ==
    ASSUME TablesInv, IdentityTyped', HeldRolesExist', Owners' # {}, epochs' # 0, epochs <= epochs',
           (roles["owner"])' = AllPermissions, UNCHANGED <<engine, verifying, tokens, leaked>>,
           \A u \in UserIds : Present(u)' =>
               /\ engine # "turso" => u <= epochs'
               /\ users'[u].epoch <= epochs'
               /\ Continues(u)
    PROVE  TablesInv'
<1>1. LoginsCurrent'
  BY LoginsStay
<1>2. Seeded'
  BY DEF Seeded
<1>3. IdsHandedOut'
  BY DEF IdsHandedOut
<1>4. EpochsHandedOut'
  BY DEF EpochsHandedOut, TablesInv, IdentityTyped
<1> QED
  BY <1>1, <1>2, <1>3, <1>4 DEF TablesInv

\* No user has come to hold a role.
NobodyGains(r) ==
    \A u \in UserIds : Present(u)' /\ r \in users'[u].roles => Present(u) /\ r \in users[u].roles

\* Nothing that a sound change found is taken from it.
LEMMA SoundStays ==
    ASSUME NEW ch, Sound(ch), epochs' = 0 => epochs = 0,
           MayRemoveOwner(ch) => /\ Present(ch.user) => Present(ch.user)'
                                 /\ Owners \subseteq Owners',
           \A r \in ch.roles :
               RolePresent(r) /\ (\E l \in ch.locks : l.row = Role(r)) => RolePresent(r)',
           Updating(ch) => NobodyGains(ch.role)
    PROVE  Sound(ch)'
<1>1. CASE ch = Idle
  BY <1>1 DEF Sound
<1>2. CASE ch # Idle
  <2>1. IsChange(ch)'
    BY <1>2 DEF Sound, IsChange
  <2>2. OwnerLocked(ch)' /\ UserFound(ch)' /\ OwnerSpared(ch)'
    BY <1>2 DEF Sound, OwnerLocked, UserFound, OwnerSpared, MayRemoveOwner
  <2>3. RolesFound(ch)' /\ RoleHeld(ch)' /\ Asked(ch)'
    BY <1>2 DEF Sound, RolesFound, RoleHeld, Asked
  <2>4. HoldersFound(ch)'
    BY <1>2 DEF Sound, HoldersFound, Updating, NobodyGains
  <2> QED
    BY <2>1, <2>2, <2>3, <2>4 DEF Sound
<1> QED
  BY <1>1, <1>2

\* A write ends its change; the others must be left sound.
LEMMA WriteEnds ==
    ASSUME IdentityInv, NEW c \in Admins, Finish(c), TablesInv',
           \A d \in Admins \ {c} : \A ch : ch = change[d] => Sound(ch)'
    PROVE  IdentityInv'
<1>1. /\ change' = [d \in Admins |-> change'[d]]
      /\ change'[c] = Idle /\ \A d \in Admins \ {c} : change'[d] = change[d]
  BY DEF IdentityInv, ChangesSound, Finish
<1>2. ASSUME NEW d \in Admins PROVE Sound(change[d])'
  <2>1. PICK e : e = change'[d]
    OBVIOUS
  <2>2. CASE d = c
    BY <1>1, <2>2 DEF Sound
  <2>3. CASE d # c
    <3>1. Sound(e)'
      BY <1>1, <2>1, <2>3
    <3> QED
      BY <2>1, <3>1
  <2> QED
    BY <2>2, <2>3
<1>3. LocksCompatible'
  BY <1>1 DEF IdentityInv, LocksCompatible, Compatible
<1> QED
  BY <1>1, <1>2, <1>3 DEF IdentityInv, ChangesSound

\* The rows of a change are not locked exclusively by another.
LEMMA LocksExclude ==
    ASSUME IdentityInv, NEW c \in Admins, NEW d \in Admins \ {c}, change[c] # Idle, change[d] # Idle,
           NEW l \in change[c].locks, NEW k \in change[d].locks, l.row = k.row
    PROVE  l.mode # "update"
BY DEF IdentityInv, LocksCompatible, Compatible, Conflicts

\* The owner role has one exclusive holder.
LEMMA OneMayRemoveOwner ==
    ASSUME IdentityInv, NEW c \in Admins, NEW d \in Admins \ {c}, change[c] # Idle, change[d] # Idle,
           MayRemoveOwner(change[c])
    PROVE  ~MayRemoveOwner(change[d])
BY UnderWay, LocksExclude DEF OwnerLocked, OwnerLock

\* A role that is being updated is not one that an assignment has looked up.
LEMMA AssignedNotUpdated ==
    ASSUME IdentityInv, NEW c \in Admins, NEW d \in Admins \ {c}, change[c] # Idle, change[d] # Idle,
           Updating(change[d]),
           \A r \in change[c].roles : \E l \in change[c].locks : l.row = Role(r)
    PROVE  change[d].role \notin change[c].roles
BY UnderWay, LocksExclude DEF RoleHeld, Updating

\* A stored user has the fields it is given.
LEMMA UserStored ==
    ASSUME IdentityTyped, NEW u \in UserIds, NEW pwd \in Nat, NEW version \in Nat, NEW epoch \in Nat,
           NEW rs \in SUBSET RoleNames,
           users' = [users EXCEPT ![u] = Stored(pwd, version, epoch, rs)]
    PROVE  /\ users' \in [UserIds -> UserRecords \cup {NoUser}]
           /\ users'[u].pwd = pwd /\ users'[u].version = version
           /\ users'[u].epoch = epoch /\ users'[u].roles = rs
           /\ Present(u)'
           /\ \A w \in UserIds \ {u} : users'[w] = users[w]
<1>1. /\ Stored(pwd, version, epoch, rs) \in UserRecords
      /\ Stored(pwd, version, epoch, rs).exists = TRUE
      /\ Stored(pwd, version, epoch, rs).pwd = pwd
      /\ Stored(pwd, version, epoch, rs).version = version
      /\ Stored(pwd, version, epoch, rs).epoch = epoch
      /\ Stored(pwd, version, epoch, rs).roles = rs
  BY DEF Stored, UserRecords
<1>2. Stored(pwd, version, epoch, rs) # NoUser
  BY DEF Stored, NoUser
<1> QED
  BY <1>1, <1>2 DEF IdentityTyped, Present

\* Where users, owners and roles only come, every other change stays sound.
LEMMA OthersStay ==
    ASSUME IdentityInv, NEW c \in Admins, epochs' = 0 => epochs = 0,
           \A u \in UserIds : Present(u) => Present(u)', Owners \subseteq Owners',
           \A r \in RoleNames : RolePresent(r) => RolePresent(r)',
           \A d \in Admins \ {c} : \A ch :
               ch = change[d] /\ ch # Idle /\ Updating(ch) => NobodyGains(ch.role)
    PROVE  \A d \in Admins \ {c} : \A ch : ch = change[d] => Sound(ch)'
<1> TAKE d \in Admins \ {c}
<1> TAKE ch
<1> HAVE ch = change[d]
<1>1. Sound(ch)
  BY DEF IdentityInv, ChangesSound
<1>2. ch # Idle => IsChange(ch)
  BY <1>1 DEF Sound
<1>3. CASE ch = Idle
  BY <1>3 DEF Sound
<1>4. CASE ch # Idle
  <2>1. MayRemoveOwner(ch) => ch.user \in UserIds
    BY <1>2, <1>4 DEF IsChange, MayRemoveOwner
  <2>2. ch.roles \subseteq RoleNames
    BY <1>2, <1>4 DEF IsChange
  <2>3. Updating(ch) => NobodyGains(ch.role)
    BY <1>4
  <2> QED
    BY <1>1, <2>1, <2>2, <2>3, SoundStays
<1> QED
  BY <1>3, <1>4

\* A password advances the version of its user.
LEMMA PasswordKeeps ==
    ASSUME IdentityInv, NEW c \in Admins, ApplyPassword(c) PROVE IdentityInv'
<1> DEFINE u == change[c].user
<1>1. /\ change[c] # Idle /\ change[c].op = "password" /\ Finish(c)
      /\ UNCHANGED <<engine, verifying, tokens, roles, epochs, leaked>>
      /\ users' = IF Present(u)
                  THEN [users EXCEPT ![u] = Stored(@.pwd + 1, @.version + 1, @.epoch, @.roles)]
                  ELSE users
  BY DEF ApplyPassword, At, KeepRest
<1>2. u \in UserIds /\ epochs # 0
  BY <1>1, UnderWay DEF IsChange, Asked
<1>3. CASE ~Present(u)
  <2>1. UNCHANGED Tables
    BY <1>1, <1>3 DEF Tables
  <2> QED
    BY <1>1, <2>1, ChangeMoves DEF Finish, Sound, Compatible
<1>4. CASE Present(u)
  <2>1. /\ users[u].pwd \in Nat /\ users[u].version \in Nat /\ users[u].epoch \in Nat
        /\ users[u].roles \in SUBSET RoleNames
    BY <1>2, <1>4 DEF IdentityInv, TablesInv, IdentityTyped, UserRecords, Present
  <2>2. users' = [users EXCEPT ![u] = Stored(users[u].pwd + 1, users[u].version + 1,
                                             users[u].epoch, users[u].roles)]
    BY <1>1, <1>4
  <2>3. PICK w \in UserIds, p \in Nat, v \in Nat, e \in Nat, rs \in SUBSET RoleNames :
           /\ w = u /\ p = users[u].pwd + 1 /\ v = users[u].version + 1
           /\ e = users[u].epoch /\ rs = users[u].roles
    BY <1>2, <2>1
  <2>4. users' = [users EXCEPT ![w] = Stored(p, v, e, rs)]
    BY <2>2, <2>3
  <2>5. /\ users' \in [UserIds -> UserRecords \cup {NoUser}]
        /\ users'[w].version = v
        /\ users'[w].epoch = users[w].epoch /\ users'[w].roles = users[w].roles
        /\ Present(w)'
        /\ \A x \in UserIds \ {w} : users'[x] = users[x]
    <3>1. IdentityTyped
      BY DEF IdentityInv, TablesInv
    <3>2. /\ users' \in [UserIds -> UserRecords \cup {NoUser}]
          /\ users'[w].version = v /\ users'[w].epoch = e /\ users'[w].roles = rs
          /\ Present(w)'
          /\ \A x \in UserIds \ {w} : users'[x] = users[x]
      BY <2>4, <3>1, UserStored
    <3> QED
      BY <2>3, <3>2
  <2> HIDE DEF u
  <2>6. \A x \in UserIds : Present(x)' => /\ Present(x) /\ users'[x].epoch = users[x].epoch
                                          /\ users'[x].roles = users[x].roles
    BY <1>4, <2>3, <2>5 DEF Present
  <2>7. \A x \in UserIds : Present(x)' => Continues(x)
    BY <1>1, <2>1, <2>3, <2>5, <2>6 DEF Continues, Permissions, Present
  <2>8. (\A x \in UserIds : Present(x) => Present(x)') /\ Owners' = Owners
    BY <1>4, <2>3, <2>5, <2>6 DEF Owners, Present
  <2>9. IdentityTyped' /\ HeldRolesExist'
    BY <1>1, <2>5, <2>6 DEF IdentityInv, TablesInv, IdentityTyped, HeldRolesExist, RolePresent
  <2>10. /\ Owners' # {} /\ epochs' # 0 /\ epochs <= epochs' /\ (roles["owner"])' = AllPermissions
         /\ \A x \in UserIds : Present(x)' => /\ engine # "turso" => x <= epochs'
                                            /\ users'[x].epoch <= epochs'
    BY <1>1, <1>2, <2>6, <2>8
       DEF IdentityInv, TablesInv, Seeded, IdsHandedOut, EpochsHandedOut, IdentityTyped
  <2>11. TablesInv'
    BY <1>1, <2>7, <2>9, <2>10, TablesWritten DEF IdentityInv
  <2>12. \A r : NobodyGains(r)
    BY <2>6 DEF NobodyGains
  <2> QED
    BY <1>1, <2>8, <2>11, <2>12, OthersStay, WriteEnds DEF RolePresent
<1> QED
  BY <1>3, <1>4

\* A new user has an id that nobody has and an epoch that nobody had.
LEMMA InsertedUser ==
    ASSUME TablesInv, NEW rs \in SUBSET RoleNames, InsertUser(rs)
    PROVE  \E id \in UserIds :
              /\ ~Present(id) /\ Present(id)' /\ (engine # "turso" => id <= epochs')
              /\ users' \in [UserIds -> UserRecords \cup {NoUser}]
              /\ users'[id].epoch = epochs' /\ users'[id].roles = rs
              /\ \A w \in UserIds \ {id} : users'[w] = users[w]
<1>1. PICK id \in UserIds : IsNewId(id) /\ users' = [users EXCEPT ![id] = NewUser(rs)]
  BY DEF InsertUser
<1>2. epochs \in Nat /\ epochs' = epochs + 1 /\ id \in Nat
  BY IdentityAssumption DEF InsertUser, TablesInv, IdentityTyped
<1>3. NewUser(rs) = Stored(1, 2, epochs', rs)
  <2>1. Stored(1, 1, epochs + 1, {}).pwd = 1 /\ Stored(1, 1, epochs + 1, {}).version = 1
        /\ Stored(1, 1, epochs + 1, {}).epoch = epochs + 1
    BY DEF Stored
  <2> QED
    BY <1>2, <2>1 DEF NewUser, ReplaceRoles
<1>4. ~Present(id)
  BY <1>1, <1>2, IdentityAssumption DEF IsNewId, TablesInv, IdsHandedOut
<1>5. engine # "turso" => id <= epochs'
  BY <1>1, <1>2 DEF IsNewId
<1>6. /\ users' \in [UserIds -> UserRecords \cup {NoUser}]
      /\ users'[id].epoch = epochs' /\ users'[id].roles = rs /\ Present(id)'
      /\ \A w \in UserIds \ {id} : users'[w] = users[w]
  <2>1. PICK e \in Nat, p \in Nat, v \in Nat : e = epochs' /\ p = 1 /\ v = 2
    BY <1>2
  <2>2. users' = [users EXCEPT ![id] = Stored(p, v, e, rs)]
    BY <1>1, <1>3, <2>1
  <2> QED
    BY <2>1, <2>2, UserStored DEF TablesInv
<1> QED
  BY <1>4, <1>5, <1>6

\* The roles of a new user were found under their locks.
LEMMA CreateKeeps ==
    ASSUME IdentityInv, NEW c \in Admins, ApplyCreate(c) PROVE IdentityInv'
<1> DEFINE rs == change[c].roles
<1>1. change[c] # Idle /\ change[c].op = "create" /\ change[c].step = "roles" /\ Finish(c)
  BY DEF ApplyCreate, At
<1>2. /\ rs \in SUBSET RoleNames /\ epochs # 0
      /\ \A r \in rs : RolePresent(r)
  BY <1>1, UnderWay DEF IsChange, Asked, RolesFound
<1>3. InsertUser(rs) /\ UNCHANGED <<engine, verifying, tokens, roles, leaked>>
  BY <1>2 DEF ApplyCreate, KeepRest
<1>4. epochs \in Nat /\ epochs' = epochs + 1
  BY <1>3 DEF InsertUser, IdentityInv, TablesInv, IdentityTyped
<1>5. PICK id \in UserIds :
              /\ ~Present(id) /\ Present(id)' /\ (engine # "turso" => id <= epochs')
              /\ users' \in [UserIds -> UserRecords \cup {NoUser}]
              /\ users'[id].epoch = epochs' /\ users'[id].roles = rs
              /\ \A w \in UserIds \ {id} : users'[w] = users[w]
  BY <1>2, <1>3, InsertedUser DEF IdentityInv
<1> HIDE DEF rs
<1>6. \A x \in UserIds : Present(x)' => Continues(x)
  BY <1>3, <1>4, <1>5 DEF Continues, Permissions, Present
<1>7. (\A x \in UserIds : Present(x) => Present(x)') /\ Owners \subseteq Owners'
  BY <1>5 DEF Owners, Present
<1>8. IdentityTyped' /\ HeldRolesExist'
  BY <1>2, <1>3, <1>4, <1>5 DEF IdentityInv, TablesInv, IdentityTyped, HeldRolesExist, RolePresent, Present
<1>9. \A x \in UserIds : Present(x)' =>
        (engine # "turso" => x <= epochs') /\ users'[x].epoch <= epochs'
  <2> TAKE x \in UserIds
  <2> HAVE Present(x)'
  <2>1. CASE x = id
    BY <1>4, <1>5, <2>1
  <2>2. CASE x # id
    <3>1. Present(x) /\ users'[x] = users[x]
      BY <1>5, <2>2 DEF Present
    <3>2. users[x].epoch \in Nat /\ users[x].epoch <= epochs
      BY <3>1 DEF Present, IdentityInv, TablesInv, IdentityTyped, UserRecords, EpochsHandedOut
    <3>3. engine # "turso" => x <= epochs /\ x \in Nat
      BY <3>1, IdentityAssumption DEF IdentityInv, TablesInv, IdsHandedOut
    <3> QED
      BY <1>4, <3>1, <3>2, <3>3
  <2> QED
    BY <2>1, <2>2
<1>10. TablesInv'
  <2>1. Owners' # {} /\ epochs' # 0 /\ epochs <= epochs' /\ (roles["owner"])' = AllPermissions
    BY <1>2, <1>3, <1>4, <1>7 DEF IdentityInv, TablesInv, Seeded
  <2> QED
    BY <1>3, <1>6, <1>8, <1>9, <2>1, TablesWritten DEF IdentityInv
<1>11. ASSUME NEW d \in Admins \ {c}, NEW other, other = change[d], other # Idle, Updating(other)
       PROVE  NobodyGains(other.role)
  <2>1. \A r \in change[c].roles : \E l \in change[c].locks : l.row = Role(r)
    BY <1>1, UnderWay DEF RolesFound
  <2>2. other.role \notin rs
    BY <1>1, <1>11, <2>1, AssignedNotUpdated DEF rs
  <2> QED
    BY <1>5, <2>2 DEF NobodyGains, Present
<1> QED
  BY <1>1, <1>3, <1>4, <1>7, <1>10, <1>11, OthersStay, WriteEnds DEF RolePresent

\* Whoever may remove an owner is alone, and so disturbs no other change.
LEMMA RemoverDisturbsNobody ==
    ASSUME IdentityInv, NEW c \in Admins, change[c] # Idle, MayRemoveOwner(change[c]),
           UNCHANGED <<roles, epochs>>,
           \A d \in Admins \ {c} : \A ch :
               ch = change[d] /\ ch # Idle /\ Updating(ch) => NobodyGains(ch.role)
    PROVE  \A d \in Admins \ {c} : \A ch : ch = change[d] => Sound(ch)'
<1> TAKE d \in Admins \ {c}
<1> TAKE ch
<1> HAVE ch = change[d]
<1>1. Sound(ch)
  BY DEF IdentityInv, ChangesSound
<1>2. ch # Idle => ~MayRemoveOwner(ch)
  BY OneMayRemoveOwner
<1>3. CASE ch = Idle
  BY <1>3 DEF Sound
<1>4. CASE ch # Idle
  BY <1>1, <1>2, <1>4, SoundStays DEF RolePresent
<1> QED
  BY <1>3, <1>4

\* An assignment leaves an owner, and roles that are there.
LEMMA SetRolesKeeps ==
    ASSUME IdentityInv, NEW c \in Admins, ApplySetRoles(c) PROVE IdentityInv'
<1> DEFINE ch == change[c]
<1>1. change[c] # Idle /\ ch.op = "set_roles" /\ ch.step = "counted" /\ Finish(c)
  BY DEF ApplySetRoles, At
<1>2. /\ ch.user \in UserIds /\ ch.roles \in SUBSET RoleNames /\ epochs # 0
      /\ \A r \in ch.roles : RolePresent(r)
      /\ MayRemoveOwner(ch) /\ Present(ch.user) /\ OwnerSpared(ch)
  BY <1>1, UnderWay DEF IsChange, Asked, RolesFound, UserFound, MayRemoveOwner
<1>3. /\ users' = [users EXCEPT ![ch.user] = ReplaceRoles(@, ch.roles)]
      /\ UNCHANGED <<engine, verifying, tokens, roles, epochs, leaked>>
  BY <1>2 DEF ApplySetRoles, KeepRest
<1>4. /\ users[ch.user].pwd \in Nat /\ users[ch.user].version \in Nat
      /\ users[ch.user].epoch \in Nat
  BY <1>2 DEF IdentityInv, TablesInv, IdentityTyped, UserRecords, Present
<1>5. PICK w \in UserIds, p \in Nat, v \in Nat, e \in Nat, rs \in SUBSET RoleNames :
         /\ w = ch.user /\ p = users[w].pwd /\ v = users[w].version + 1
         /\ e = users[w].epoch /\ rs = ch.roles
  BY <1>2, <1>4
<1>6. users' = [users EXCEPT ![w] = Stored(p, v, e, rs)]
  BY <1>3, <1>5 DEF ReplaceRoles
<1>7. Present(w) /\ users[w].version \in Nat /\ \A r \in rs : RolePresent(r)
  BY <1>2, <1>4, <1>5
<1>8. (\E x \in Owners : x # w) \/ "owner" \in rs
  BY <1>1, <1>2, <1>5 DEF OwnerSpared
<1>9. ASSUME NEW d \in Admins \ {c}, change[d] # Idle, Updating(change[d])
      PROVE  change[d].role \notin rs
  <2>1. \A r \in change[c].roles : \E l \in change[c].locks : l.row = Role(r)
    BY <1>1, UnderWay DEF RolesFound
  <2> QED
    BY <1>1, <1>5, <1>9, <2>1, AssignedNotUpdated
<1>9a. MayRemoveOwner(change[c])
  BY <1>2
<1> HIDE DEF ch
<1>10. IdentityTyped
  BY DEF IdentityInv, TablesInv
<1>11. /\ users' \in [UserIds -> UserRecords \cup {NoUser}]
       /\ users'[w].version = v /\ users'[w].epoch = e /\ users'[w].roles = rs
       /\ Present(w)'
       /\ \A x \in UserIds \ {w} : users'[x] = users[x]
  BY <1>6, <1>10, UserStored
<1>12. \A x \in UserIds : Present(x)' => Present(x) /\ users'[x].epoch = users[x].epoch
  BY <1>5, <1>7, <1>11 DEF Present
<1>13. \A x \in UserIds : Present(x)' => Continues(x)
  BY <1>3, <1>5, <1>7, <1>11, <1>12 DEF Continues, Permissions, Present
<1>14. Owners' # {}
  BY <1>8, <1>11 DEF Owners, Present
<1>15. IdentityTyped' /\ HeldRolesExist'
  BY <1>3, <1>7, <1>11 DEF IdentityInv, TablesInv, IdentityTyped, HeldRolesExist, RolePresent, Present
<1>16. /\ epochs' # 0 /\ epochs <= epochs' /\ (roles["owner"])' = AllPermissions
       /\ \A x \in UserIds : Present(x)' => /\ engine # "turso" => x <= epochs'
                                          /\ users'[x].epoch <= epochs'
  BY <1>2, <1>3, <1>12 DEF IdentityInv, TablesInv, Seeded, IdsHandedOut, EpochsHandedOut, IdentityTyped
<1>17. TablesInv'
  BY <1>3, <1>13, <1>14, <1>15, <1>16, TablesWritten DEF IdentityInv
<1>18. ASSUME NEW d \in Admins \ {c}, NEW other, other = change[d], other # Idle, Updating(other)
       PROVE  NobodyGains(other.role)
  BY <1>9, <1>11, <1>12, <1>18 DEF NobodyGains
<1>19. \A d \in Admins \ {c} : \A other : other = change[d] => Sound(other)'
  BY <1>1, <1>3, <1>18, <1>9a, RemoverDisturbsNobody
<1> QED
  BY <1>1, <1>17, <1>19, WriteEnds

\* A deletion leaves an owner.
LEMMA DeleteKeeps ==
    ASSUME IdentityInv, NEW c \in Admins, ApplyDelete(c) PROVE IdentityInv'
<1> DEFINE ch == change[c]
<1>1. change[c] # Idle /\ ch.op = "delete" /\ ch.step = "counted" /\ Finish(c)
  BY DEF ApplyDelete, At
<1>2. ch.user \in UserIds /\ epochs # 0 /\ MayRemoveOwner(ch) /\ OwnerSpared(ch)
  BY <1>1, UnderWay DEF IsChange, Asked, MayRemoveOwner
<1>3. /\ users' = [users EXCEPT ![ch.user] = NoUser]
      /\ UNCHANGED <<engine, verifying, tokens, roles, epochs, leaked>>
  BY DEF ApplyDelete, KeepRest
<1>4. PICK w \in UserIds : w = ch.user
  BY <1>2
<1>5. \E x \in Owners : x # w
  BY <1>1, <1>2, <1>4 DEF OwnerSpared
<1>6. MayRemoveOwner(change[c])
  BY <1>2
<1> HIDE DEF ch
<1>7. IdentityTyped
  BY DEF IdentityInv, TablesInv
<1>8. /\ users' \in [UserIds -> UserRecords \cup {NoUser}]
      /\ users'[w] = NoUser /\ \A x \in UserIds \ {w} : users'[x] = users[x]
  BY <1>3, <1>4, <1>7 DEF IdentityTyped
<1>9. \A x \in UserIds : Present(x)' => Present(x) /\ users'[x] = users[x]
  BY <1>8 DEF Present
<1>10. \A x \in UserIds : Present(x)' => Continues(x)
  BY <1>3, <1>9 DEF Continues, Permissions
<1>11. Owners' # {}
  BY <1>5, <1>8 DEF Owners, Present
<1>12. IdentityTyped' /\ HeldRolesExist'
  BY <1>3, <1>8, <1>9 DEF IdentityInv, TablesInv, IdentityTyped, HeldRolesExist, RolePresent
<1>13. /\ epochs' # 0 /\ epochs <= epochs' /\ (roles["owner"])' = AllPermissions
       /\ \A x \in UserIds : Present(x)' => /\ engine # "turso" => x <= epochs'
                                          /\ users'[x].epoch <= epochs'
  BY <1>2, <1>3, <1>9 DEF IdentityInv, TablesInv, Seeded, IdsHandedOut, EpochsHandedOut, IdentityTyped
<1>14. TablesInv'
  BY <1>3, <1>10, <1>11, <1>12, <1>13, TablesWritten DEF IdentityInv
<1>15. \A r : NobodyGains(r)
  BY <1>9 DEF NobodyGains
<1>16. \A d \in Admins \ {c} : \A other : other = change[d] => Sound(other)'
  BY <1>1, <1>3, <1>6, <1>15, RemoverDisturbsNobody
<1> QED
  BY <1>1, <1>14, <1>16, WriteEnds

\* A role that was not there is held by nobody.
LEMMA CreateRoleKeeps ==
    ASSUME IdentityInv, NEW c \in Admins, ApplyCreateRole(c) PROVE IdentityInv'
<1>1. /\ change[c] # Idle /\ change[c].op = "create_role" /\ Finish(c)
      /\ UNCHANGED <<engine, verifying, tokens, users, epochs, leaked>>
      /\ roles' = IF RolePresent(change[c].role) THEN roles
                  ELSE [roles EXCEPT ![change[c].role] = change[c].permissions]
  BY DEF ApplyCreateRole, At, KeepRest
<1>2. PICK ps \in SUBSET AllPermissions, name \in RoleNames \ SystemRoles :
         ps = change[c].permissions /\ name = change[c].role
  BY <1>1, UnderWay DEF IsChange
<1>3. epochs # 0
  BY <1>1, UnderWay DEF Asked
<1>4. CASE RolePresent(name)
  <2>1. UNCHANGED Tables
    BY <1>1, <1>2, <1>4 DEF Tables
  <2> QED
    BY <1>1, <2>1, ChangeMoves DEF Finish, Sound, Compatible
<1>5. CASE ~RolePresent(name)
  <2>1. roles' = [roles EXCEPT ![name] = ps]
    BY <1>1, <1>2, <1>5
  <2>2. /\ roles' = [r \in RoleNames |-> roles'[r]] /\ roles'[name] = ps
        /\ \A r \in RoleNames \ {name} : roles'[r] = roles[r]
    BY <2>1 DEF IdentityInv, TablesInv, IdentityTyped, RoleNames
  <2>3. ps # NoRole
    BY DEF AllPermissions, NoRole
  <2>4. \A r \in RoleNames : RolePresent(r) => RolePresent(r)' /\ roles'[r] = roles[r]
    BY <1>5, <2>2, <2>3 DEF RolePresent
  <2>5. \A x \in UserIds : Present(x) => users[x].roles \subseteq RoleNames
    BY DEF Present, IdentityInv, TablesInv, IdentityTyped, UserRecords
  <2>6. \A x \in UserIds : Present(x) => \A r \in users[x].roles : roles'[r] = roles[r]
    BY <2>4, <2>5 DEF IdentityInv, TablesInv, HeldRolesExist
  <2>7. \A x \in UserIds : Present(x)' => Continues(x)
    BY <1>1, <2>6 DEF Continues, Permissions, Present
  <2>8. Owners' = Owners /\ \A x \in UserIds : Present(x)' = Present(x)
    BY <1>1 DEF Owners, Present
  <2>9. IdentityTyped' /\ HeldRolesExist'
    BY <1>1, <2>2, <2>4, <2>5 DEF IdentityInv, TablesInv, IdentityTyped, HeldRolesExist, Present
  <2>10. /\ Owners' # {} /\ epochs' # 0 /\ epochs <= epochs' /\ (roles["owner"])' = AllPermissions
         /\ \A x \in UserIds : Present(x)' => /\ engine # "turso" => x <= epochs'
                                            /\ users'[x].epoch <= epochs'
    BY <1>1, <1>3, <2>2, <2>8
       DEF IdentityInv, TablesInv, Seeded, IdsHandedOut, EpochsHandedOut, IdentityTyped, RoleNames,
           SystemRoles
  <2>11. TablesInv'
    BY <1>1, <2>7, <2>9, <2>10, TablesWritten DEF IdentityInv
  <2>12. \A r : NobodyGains(r)
    BY <1>1 DEF NobodyGains, Present
  <2> QED
    BY <1>1, <2>4, <2>8, <2>11, <2>12, OthersStay, WriteEnds
<1> QED
  BY <1>4, <1>5

\* The permissions of a role change with the version of every holder.
LEMMA UpdateRoleKeeps ==
    ASSUME IdentityInv, NEW c \in Admins, ApplyUpdateRole(c) PROVE IdentityInv'
<1> DEFINE holders == {u \in UserIds : u \in change[c].holders /\ Present(u)}
<1>1. /\ change[c] # Idle /\ change[c].op = "update_role" /\ change[c].step = "holders" /\ Finish(c)
      /\ UNCHANGED <<engine, verifying, tokens, epochs, leaked>>
      /\ roles' = [roles EXCEPT ![change[c].role] = change[c].permissions]
      /\ users' = [u \in UserIds |-> IF u \in holders THEN NextVersion(users[u]) ELSE users[u]]
  BY DEF ApplyUpdateRole, At, KeepRest
<1>2. PICK ps \in SUBSET AllPermissions, r \in RoleNames \ SystemRoles :
         ps = change[c].permissions /\ r = change[c].role
  BY <1>1, UnderWay DEF IsChange, RoleHeld
<1>3. epochs # 0
  BY <1>1, UnderWay DEF Asked
<1>4. /\ roles' = [roles EXCEPT ![r] = ps]
      /\ users' = [u \in UserIds |-> IF u \in holders THEN NextVersion(users[u]) ELSE users[u]]
  BY <1>1, <1>2
<1>5. /\ roles' = [s \in RoleNames |-> roles'[s]] /\ roles'[r] = ps
      /\ \A s \in RoleNames \ {r} : roles'[s] = roles[s]
  BY <1>4 DEF IdentityInv, TablesInv, IdentityTyped
<1>6. ps # NoRole
  BY DEF AllPermissions, NoRole
<1>7. \A s \in RoleNames : RolePresent(s) => RolePresent(s)'
  BY <1>5, <1>6 DEF RolePresent
<1>8. ASSUME NEW x \in holders
      PROVE  /\ Present(x)' /\ users'[x] \in UserRecords
             /\ users'[x].version > users[x].version /\ users'[x].epoch = users[x].epoch
             /\ users'[x].roles = users[x].roles
  <2>1. PICK user : user = users[x]
    OBVIOUS
  <2>2. user \in UserRecords
    BY <1>8, <2>1 DEF Present, IdentityInv, TablesInv, IdentityTyped
  <2>3. users'[x] = [exists |-> TRUE, pwd |-> user.pwd, version |-> user.version + 1,
                     epoch |-> user.epoch, roles |-> user.roles]
    BY <1>4, <2>1 DEF NextVersion, ReplaceRoles, Stored
  <2>4. PICK new : new = users'[x]
    OBVIOUS
  <2>5. /\ new \in UserRecords /\ new.version > user.version /\ new.epoch = user.epoch
        /\ new.roles = user.roles /\ new.exists = TRUE
    BY <2>2, <2>3, <2>4 DEF UserRecords
  <2>6. new # NoUser
    BY <2>3, <2>4 DEF NoUser
  <2> QED
    BY <2>1, <2>4, <2>5, <2>6 DEF Present
<1>9. \A x \in UserIds \ holders : users'[x] = users[x]
  BY <1>4
<1>10. \A x \in holders : x \in UserIds /\ Present(x)
  OBVIOUS
<1>11. \A x \in UserIds \ holders : Present(x) => r \notin users[x].roles
  BY <1>1, <1>2, UnderWay DEF HoldersFound, Updating
<1> HIDE DEF holders
<1>13. \A x \in UserIds : /\ Present(x)' = Present(x)
                          /\ Present(x) => /\ users'[x].epoch = users[x].epoch
                                           /\ users'[x].roles = users[x].roles
  BY <1>8, <1>9, <1>10 DEF Present
<1>14. \A x \in UserIds : Present(x) => users[x].roles \subseteq RoleNames
  BY DEF Present, IdentityInv, TablesInv, IdentityTyped, UserRecords
<1>15. ASSUME NEW x \in UserIds, Present(x)' PROVE Continues(x)
  <2>1. Present(x)
    BY <1>13, <1>15
  <2>2. CASE x \in holders
    BY <1>8, <2>1, <2>2 DEF Continues
  <2>3. CASE x \notin holders
    <3>1. users'[x] = users[x] /\ \A s \in users[x].roles : roles'[s] = roles[s]
      BY <1>5, <1>9, <1>11, <1>14, <2>1, <2>3
    <3> QED
      BY <2>1, <3>1 DEF Continues, Permissions
  <2> QED
    BY <2>2, <2>3
<1>16. Owners' = Owners
  BY <1>13 DEF Owners
<1>17. users' \in [UserIds -> UserRecords \cup {NoUser}]
  BY <1>4, <1>8, <1>9 DEF IdentityInv, TablesInv, IdentityTyped
<1>18. IdentityTyped' /\ HeldRolesExist'
  BY <1>1, <1>5, <1>7, <1>13, <1>14, <1>17 DEF IdentityInv, TablesInv, IdentityTyped, HeldRolesExist
<1>19. /\ Owners' # {} /\ epochs' # 0 /\ epochs <= epochs' /\ (roles["owner"])' = AllPermissions
       /\ \A x \in UserIds : Present(x)' => /\ engine # "turso" => x <= epochs'
                                          /\ users'[x].epoch <= epochs'
  BY <1>1, <1>3, <1>5, <1>13, <1>16
     DEF IdentityInv, TablesInv, Seeded, IdsHandedOut, EpochsHandedOut, IdentityTyped, RoleNames,
         SystemRoles
<1>20. TablesInv'
  BY <1>1, <1>15, <1>18, <1>19, TablesWritten DEF IdentityInv
<1>21. \A s : NobodyGains(s)
  BY <1>13 DEF NobodyGains
<1> QED
  BY <1>1, <1>7, <1>13, <1>16, <1>20, <1>21, OthersStay, WriteEnds

\* A role is deleted when nobody holds it and nobody has looked it up.
LEMMA DeleteRoleKeeps ==
    ASSUME IdentityInv, NEW c \in Admins, ApplyDeleteRole(c) PROVE IdentityInv'
<1>1. /\ change[c] # Idle /\ change[c].op = "delete_role" /\ change[c].step = "role" /\ Finish(c)
      /\ UNCHANGED <<engine, verifying, tokens, users, epochs, leaked>>
      /\ roles' = IF \E u \in UserIds : Present(u) /\ change[c].role \in users[u].roles
                  THEN roles ELSE [roles EXCEPT ![change[c].role] = NoRole]
  BY DEF ApplyDeleteRole, At, KeepRest
<1>2. PICK r \in RoleNames \ SystemRoles :
         r = change[c].role /\ [row |-> Role(r), mode |-> "update"] \in change[c].locks
  BY <1>1, UnderWay DEF RoleHeld
<1>3. epochs # 0
  BY <1>1, UnderWay DEF Asked
<1>4. CASE \E u \in UserIds : Present(u) /\ r \in users[u].roles
  <2>1. UNCHANGED Tables
    BY <1>1, <1>2, <1>4 DEF Tables
  <2> QED
    BY <1>1, <2>1, ChangeMoves DEF Finish, Sound, Compatible
<1>5. CASE ~\E u \in UserIds : Present(u) /\ r \in users[u].roles
  <2>1. roles' = [roles EXCEPT ![r] = NoRole]
    BY <1>1, <1>2, <1>5
  <2>2. /\ roles' = [s \in RoleNames |-> roles'[s]]
        /\ \A s \in RoleNames \ {r} : roles'[s] = roles[s]
    BY <2>1 DEF IdentityInv, TablesInv, IdentityTyped
  <2>3. \A x \in UserIds : Present(x) => users[x].roles \subseteq RoleNames \ {r}
    BY <1>5 DEF Present, IdentityInv, TablesInv, IdentityTyped, UserRecords
  <2>4. \A x \in UserIds : Present(x)' => Continues(x)
    BY <1>1, <2>2, <2>3 DEF Continues, Permissions, Present
  <2>5. Owners' = Owners /\ \A x \in UserIds : Present(x)' = Present(x)
    BY <1>1 DEF Owners, Present
  <2>6. IdentityTyped' /\ HeldRolesExist'
    BY <1>1, <2>2, <2>3, <2>5 DEF IdentityInv, TablesInv, IdentityTyped, HeldRolesExist, RolePresent
  <2>7. /\ Owners' # {} /\ epochs' # 0 /\ epochs <= epochs' /\ (roles["owner"])' = AllPermissions
        /\ \A x \in UserIds : Present(x)' => /\ engine # "turso" => x <= epochs'
                                           /\ users'[x].epoch <= epochs'
    BY <1>1, <1>3, <2>2, <2>5
       DEF IdentityInv, TablesInv, Seeded, IdsHandedOut, EpochsHandedOut, IdentityTyped, RoleNames,
           SystemRoles
  <2>8. TablesInv'
    BY <1>1, <2>4, <2>6, <2>7, TablesWritten DEF IdentityInv
  <2>9. ASSUME NEW d \in Admins \ {c}, NEW ch, ch = change[d] PROVE Sound(ch)'
    <3>1. Sound(ch)
      BY <2>9 DEF IdentityInv, ChangesSound
    <3>2. CASE ch = Idle
      BY <3>2 DEF Sound
    <3>3. CASE ch # Idle
      <4>1. MayRemoveOwner(ch) => ch.user \in UserIds
        BY <3>1, <3>3 DEF Sound, IsChange, MayRemoveOwner
      <4>2. ch.roles \subseteq RoleNames
        BY <3>1, <3>3 DEF Sound, IsChange
      <4>3. ASSUME NEW l \in ch.locks, l.row = Role(r) PROVE FALSE
        BY <1>1, <1>2, <2>9, <3>3, <4>3, LocksExclude
      <4>4. \A s \in ch.roles :
               RolePresent(s) /\ (\E l \in ch.locks : l.row = Role(s)) => RolePresent(s)'
        BY <2>2, <4>2, <4>3 DEF RolePresent
      <4>5. MayRemoveOwner(ch) => (Present(ch.user) => Present(ch.user)') /\ Owners \subseteq Owners'
        BY <2>5, <4>1
      <4>6. \A s : NobodyGains(s)
        BY <1>1 DEF NobodyGains, Present
      <4> QED
        BY <1>1, <3>1, <4>4, <4>5, <4>6, SoundStays
    <3> QED
      BY <3>2, <3>3
  <2> QED
    BY <1>1, <2>8, <2>9, WriteEnds
<1> QED
  BY <1>4, <1>5

\* The seed adds an owner where there is nobody.
LEMMA SeedKeeps ==
    ASSUME IdentityInv, NEW c \in Admins, ApplySeed(c) PROVE IdentityInv'
<1>1. Finish(c) /\ UNCHANGED <<engine, verifying, tokens, leaked>>
  BY DEF ApplySeed, KeepRest
<1>2. CASE \E u \in UserIds : Present(u)
  <2>1. UNCHANGED Tables
    BY <1>1, <1>2 DEF ApplySeed, Tables
  <2> QED
    BY <1>1, <2>1, ChangeMoves DEF Finish, Sound, Compatible
<1>3. CASE \A u \in UserIds : ~Present(u)
  <2>1. InsertUser({"owner"}) /\ roles' = [roles EXCEPT !["owner"] = AllPermissions]
    BY <1>3 DEF ApplySeed
  <2>2. epochs \in Nat /\ epochs' = epochs + 1
    BY <2>1 DEF InsertUser, IdentityInv, TablesInv, IdentityTyped
  <2>3. {"owner"} \in SUBSET RoleNames
    BY DEF RoleNames
  <2>4. PICK id \in UserIds :
              /\ ~Present(id) /\ Present(id)' /\ (engine # "turso" => id <= epochs')
              /\ users' \in [UserIds -> UserRecords \cup {NoUser}]
              /\ users'[id].epoch = epochs' /\ users'[id].roles = {"owner"}
              /\ \A w \in UserIds \ {id} : users'[w] = users[w]
    BY <2>1, <2>3, InsertedUser DEF IdentityInv
  <2>5. \A x \in UserIds : Present(x)' => x = id
    BY <1>3, <2>4 DEF Present
  <2>6. /\ roles' = [r \in RoleNames |-> roles'[r]] /\ roles'["owner"] = AllPermissions
        /\ \A r \in RoleNames \ {"owner"} : roles'[r] = roles[r]
    BY <2>1 DEF IdentityInv, TablesInv, IdentityTyped, RoleNames
  <2>7. AllPermissions # NoRole
    BY DEF AllPermissions, NoRole
  <2>8. \A r \in RoleNames : RolePresent(r) => RolePresent(r)'
    BY <2>6, <2>7 DEF RolePresent
  <2>9. \A x \in UserIds : Present(x)' =>
           /\ engine # "turso" => x <= epochs'
           /\ users'[x].epoch <= epochs'
           /\ Continues(x)
    BY <2>2, <2>4, <2>5 DEF Continues
  <2>10. Owners = {} /\ Owners' # {}
    BY <1>3, <2>4 DEF Owners
  <2>11. IdentityTyped' /\ HeldRolesExist'
    BY <2>2, <2>4, <2>5, <2>6, <2>7 DEF IdentityTyped, HeldRolesExist, RolePresent
  <2>12. TablesInv'
    BY <1>1, <2>2, <2>6, <2>9, <2>10, <2>11, TablesWritten DEF IdentityInv
  <2>13. ASSUME NEW d \in Admins \ {c}, NEW other, other = change[d], other # Idle, Updating(other)
         PROVE  NobodyGains(other.role)
    <3>1. other.role # "owner"
      BY <2>13, UnderWay DEF RoleHeld, Updating, SystemRoles
    <3> QED
      BY <2>4, <2>5, <3>1 DEF NobodyGains
  <2> QED
    BY <1>1, <1>3, <2>2, <2>8, <2>10, <2>12, <2>13, OthersStay, WriteEnds
<1> QED
  BY <1>2, <1>3

\* A login carries what is stored when it is read, and is kept as it is.
LEMMA LoginKeeps ==
    ASSUME IdentityInv,
           \/ \E u \in UserIds : LoginRead(u)
           \/ \E l \in verifying : LoginIssue(l)
           \/ \E t \in tokens : Discard(t)
    PROVE  IdentityInv'
<1>1. UNCHANGED <<engine, users, roles, change, epochs, leaked>>
  BY DEF LoginRead, LoginIssue, Discard
<1>2. /\ IdentityTyped' /\ HeldRolesExist' /\ IdsHandedOut' /\ ChangesSound' /\ LocksCompatible'
      /\ leaked' = FALSE
  BY <1>1 DEF IdentityInv, TablesInv, IdentityTyped, HeldRolesExist, IdsHandedOut, ChangesSound,
     LocksCompatible, Compatible, Sound, IsChange, OwnerLocked, UserFound, OwnerSpared, RolesFound,
     RoleHeld, HoldersFound, Updating, Asked, Present, RolePresent, Owners
<1>3. Seeded'
  BY <1>1 DEF IdentityInv, TablesInv, Seeded, Owners, Present, LoginRead, LoginIssue, Discard
<1>4. CASE \E u \in UserIds : LoginRead(u)
  <2>1. PICK u \in UserIds : \E k :
           /\ Present(u) /\ verifying' = verifying \cup {k} /\ tokens' = tokens
           /\ k = [user |-> u, version |-> users[u].version, epoch |-> users[u].epoch,
                   pwd |-> users[u].pwd, scopes |-> Permissions(u)]
    BY <1>4 DEF LoginRead
  <2>2. PICK l :
           /\ Present(u) /\ verifying' = verifying \cup {l} /\ tokens' = tokens
           /\ l.user = u /\ l.version = users[u].version /\ l.epoch = users[u].epoch
           /\ l.pwd = users[u].pwd /\ l.scopes = Permissions(u)
    BY <2>1
  <2>3. users[u].epoch \in Nat /\ users[u].epoch <= epochs /\ users[u].version \in Nat
    BY <2>1 DEF Present, IdentityInv, TablesInv, IdentityTyped, UserRecords, EpochsHandedOut
  <2>4. \A k \in verifying' \cup tokens' : k = l \/ k \in verifying \cup tokens
    BY <2>2
  <2>5. EpochsHandedOut'
    BY <1>1, <2>2, <2>3, <2>4 DEF IdentityInv, TablesInv, EpochsHandedOut, Present
  <2>6. LoginsCurrent'
    BY <1>1, <2>2, <2>3, <2>4 DEF IdentityInv, TablesInv, LoginsCurrent, Present, Permissions
  <2> QED
    BY <1>2, <1>3, <2>5, <2>6 DEF IdentityInv, TablesInv
<1>5. CASE (\E l \in verifying : LoginIssue(l)) \/ (\E t \in tokens : Discard(t))
  <2>1. \A k \in verifying' \cup tokens' : k \in verifying \cup tokens
    BY <1>5 DEF LoginIssue, Discard
  <2>2. EpochsHandedOut'
    BY <1>1, <2>1 DEF IdentityInv, TablesInv, EpochsHandedOut, Present
  <2>3. LoginsCurrent'
    BY <1>1, <2>1 DEF IdentityInv, TablesInv, LoginsCurrent, Present, Permissions
  <2> QED
    BY <1>2, <1>3, <2>2, <2>3 DEF IdentityInv, TablesInv
<1> QED
  BY <1>4, <1>5

\* Every step preserves the invariant.
LEMMA IdentityInvStep == IdentityInv /\ [IdentityNext]_identityVars => IdentityInv'
<1> SUFFICES ASSUME IdentityInv, [IdentityNext]_identityVars PROVE IdentityInv'
  OBVIOUS
<1>1. ASSUME NEW c \in Admins, Request(c) PROVE IdentityInv'
  BY <1>1, RequestKeeps
<1>2. ASSUME NEW c \in Admins, Transaction(c) PROVE IdentityInv'
  BY <1>2, LockingKeeps, CreateKeeps, SetRolesKeeps, DeleteKeeps, PasswordKeeps, CreateRoleKeeps,
     UpdateRoleKeeps, DeleteRoleKeeps, SeedKeeps DEF Transaction
<1>3. CASE UNCHANGED identityVars
  <2>1. UNCHANGED Tables /\ change' = change
    BY <1>3 DEF identityVars, Tables
  <2>2. TablesInv'
    BY <2>1, TablesKept DEF IdentityInv
  <2>3. ChangesSound' /\ LocksCompatible'
    BY <2>1 DEF IdentityInv, ChangesSound, LocksCompatible, Compatible, Tables, Sound, IsChange,
       OwnerLocked, UserFound, OwnerSpared, RolesFound, RoleHeld, HoldersFound, Updating, Asked,
       Present, RolePresent, Owners
  <2> QED
    BY <2>2, <2>3 DEF IdentityInv
<1>4. ASSUME NEW c \in Admins, DeadlockVictim(c) PROVE IdentityInv'
  BY <1>4, AbandonKeeps DEF DeadlockVictim
<1> QED
  BY <1>1, <1>2, <1>3, <1>4, LoginKeeps DEF IdentityNext

\* The invariant holds in every reachable state.
LEMMA IdentityInvariant == IdentitySpec => []IdentityInv
<1> QED
  BY IdentityInvInit, IdentityInvStep, PTL DEF IdentitySpec

-----------------------------------------------------------------------------
(* The results. *)

\* A session that resolve_session accepts stands for the principal, the password
\* and the permissions that its login read, for any number of users and handlers.
THEOREM AcceptedSessionIsCurrent == IdentitySpec => []SessionCurrent
<1>1. IdentityInv => SessionCurrent
  BY DEF IdentityInv, TablesInv, LoginsCurrent, SessionCurrent, Accepts
<1> QED
  BY <1>1, IdentityInvariant, PTL

\* However deletions and assignments interleave, an owner that may manage the
\* tenant remains (lock_owner_role, owner_state).
THEOREM AnOwnerRemains == IdentitySpec => []OwnerRemains
<1>1. IdentityInv => OwnerRemains
  <2> SUFFICES ASSUME IdentityInv, epochs > 0 PROVE \E u \in Owners : "manage" \in Permissions(u)
    BY DEF OwnerRemains
  <2>1. PICK u \in Owners : roles["owner"] = AllPermissions
    BY DEF IdentityInv, TablesInv, Seeded
  <2>2. "owner" \in users[u].roles
    BY DEF Owners
  <2>3. "manage" \in roles["owner"]
    BY <2>1 DEF AllPermissions
  <2> QED
    BY <2>2, <2>3 DEF Permissions
<1> QED
  BY <1>1, IdentityInvariant, PTL

\* No assignment ends in a foreign-key error: the roles that lock_roles_by_ids
\* found are there until it commits.
THEOREM AssignmentsAreComplete == IdentitySpec => []~leaked
<1>1. IdentityInv => ~leaked
  BY DEF IdentityInv, TablesInv
<1> QED
  BY <1>1, IdentityInvariant, PTL

=============================================================================
