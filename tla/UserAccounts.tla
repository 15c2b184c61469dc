---------------------------- MODULE UserAccounts ----------------------------
(***************************************************************************)
(* Users, roles, login and lockout: internal/store/user_store*.go and      *)
(* role_store.go, internal/api/{user,auth,role}_handlers.go with the       *)
(* middleware in front of them, and internal/auth.                         *)
(*                                                                         *)
(* A statement or a transaction of the store is one step, a handler is a   *)
(* request that passes from one statement to the next with the rows it has *)
(* read. Nothing locks a row between them.                                 *)
(*                                                                         *)
(* Names and e-mail addresses, hashes and last_login decide nothing and    *)
(* are left out; a person is present or not, so that UpdatePersonForUser,  *)
(* which changes its name, is no step of its own. The id of a user is      *)
(* fresh and no statement changes a user name: the name is NameOf[id].     *)
(***************************************************************************)
EXTENDS Integers, FiniteSets

CONSTANTS Users,             \* ids that uuid.NewString may return
          NameOf,            \* NameOf[u]: the user name of u
          FirstAdmin,        \* the user that BootstrapAdmin created
          AdminRole,         \* "role-admin"
          OtherRoles,        \* ids of roles made through the API
          RoleNames,         \* names that a role may be given
          Permissions,       \* permissions these handlers ask for
          PermSets,          \* permission lists that a role may be given
          Reqs,              \* slots for requests in flight
          MaxFailedAttempts, \* maxFailedAttempts
          LockDuration,      \* lockDuration, in units of the clock
          MaxFaults,         \* bound: failing store calls and crashes
          MaxRoleWrites,     \* bound: roles created and edits begun
          MaxTokens,         \* bound: tokens that clients keep
          Absent,            \* no row
          Idle               \* no request

Roles == OtherRoles \cup {AdminRole}

ASSUME AccountAssumption ==
    /\ FirstAdmin \in Users
    /\ MaxFailedAttempts \in Nat \ {0}
    /\ LockDuration \in Nat \ {0}
    /\ MaxFaults \in Nat
    /\ MaxRoleWrites \in Nat
    /\ MaxTokens \in Nat
    /\ "admin" \in RoleNames
    /\ PermSets \subseteq SUBSET Permissions

VARIABLES users,      \* table users
          fresh,      \* ids not used so far
          persons,    \* users that a person in table parties refers to
          roles,      \* table roles
          tokens,     \* signed tokens that have not expired
          reqs,       \* reqs[q]: where the handler in slot q is
          faults,     \* failures so far
          roleWrites  \* writes to roles so far

accountVars == <<users, fresh, persons, roles, tokens, reqs, faults, roleWrites>>

(***************************************************************************)
(* Rows. A lock is the time left until locked_until: NoLock is NULL, 0 a   *)
(* lock that has expired. Counts beyond MaxFailedAttempts act alike.       *)
(***************************************************************************)
NoLock == -1

User == [role: Roles, active: BOOLEAN,
         attempts: 0..MaxFailedAttempts, lock: NoLock..LockDuration]

Role == [name: RoleNames, perms: SUBSET Permissions, system: BOOLEAN]

Token == [user: Users, perms: SUBSET Permissions]

Stage == {"wrong", "right", "token", "count", "delete", "insert",
          "person", "rollback"}

\* What a handler keeps of the user it has read: the whole row to save it,
\* otherwise its role.
UserReq == [at: Stage, user: Users, role: Roles]
SaveReq == [at: {"save"}, user: Users, row: User]
RoleReq == [at: {"saveRole"}, role: Roles, row: Role]

AccountsTypeOK ==
    /\ users \in [Users -> User \cup {Absent}]
    /\ fresh \in SUBSET Users
    /\ persons \in SUBSET Users
    /\ roles \in [Roles -> Role \cup {Absent}]
    /\ tokens \in SUBSET Token
    /\ reqs \in [Reqs -> UserReq \cup SaveReq \cup RoleReq \cup {Idle}]
    /\ faults \in 0..MaxFaults
    /\ roleWrites \in 0..MaxRoleWrites

NewUser(r) == [role |-> r, active |-> TRUE, attempts |-> 0, lock |-> NoLock]

\* The tables as migrations and BootstrapAdmin leave them.
Bootstrapped ==
    /\ users = [u \in Users |->
                    IF u = FirstAdmin THEN NewUser(AdminRole) ELSE Absent]
    /\ roles = [r \in Roles |->
                    IF r = AdminRole
                    THEN [name |-> "admin", perms |-> Permissions, system |-> TRUE]
                    ELSE Absent]
    /\ tokens = {}
    /\ reqs = [q \in Reqs |-> Idle]
    /\ faults = 0

AccountsInit ==
    /\ Bootstrapped
    /\ fresh = Users \ {FirstAdmin}
    /\ persons = {FirstAdmin}
    /\ roleWrites = 0

Exists(u) == users[u] # Absent
NameTaken(n) == \E u \in Users : Exists(u) /\ NameOf[u] = n
LockInForce(row) == row.lock > 0

\* IncrementFailedAttempts
Failed(row) ==
    LET n == IF row.attempts < MaxFailedAttempts THEN row.attempts + 1
                                                 ELSE MaxFailedAttempts
    IN  [row EXCEPT !.attempts = n,
                    !.lock = IF n >= MaxFailedAttempts THEN LockDuration ELSE @]

\* faulty variant: the lock outlives the counter
ResetCounterOnly(row) == [row EXCEPT !.attempts = 0]

\* ResetFailedAttempts
Reset(row) == [row EXCEPT !.attempts = 0, !.lock = NoLock]

\* GenerateToken: a role that is gone gives no permissions
TokenFor(u, r) ==
    [user |-> u, perms |-> IF roles[r] = Absent THEN {} ELSE roles[r].perms]

(***************************************************************************)
(* Requests                                                                *)
(***************************************************************************)
Go(q, at, u, r) == reqs' = [reqs EXCEPT ![q] = [at |-> at, user |-> u, role |-> r]]
Save(q, u, row) == reqs' = [reqs EXCEPT ![q] = [at |-> "save", user |-> u, row |-> row]]
Return(q) == reqs' = [reqs EXCEPT ![q] = Idle]
At(q, stage) == reqs[q] # Idle /\ reqs[q].at = stage

\* A store call fails; the bound keeps the number of failures small.
Fault == faults < MaxFaults /\ faults' = faults + 1

\* RequireAuth, RequirePermission: what counts is the list in the token.
Authorized(t, perm) == t \in tokens /\ perm \in t.perms

\* faulty variant: the lock is not looked at
LoginAcceptedLocked(row) == row.active

LoginAccepted(row) == row.active /\ ~LockInForce(row)

\* Login: read the user, check it and compare the password with its hash.
LoginRead(q, u) ==
    /\ reqs[q] = Idle
    /\ Exists(u)
    /\ LoginAccepted(users[u])
    /\ \E result \in {"wrong", "right"} : Go(q, result, u, users[u].role)
    /\ UNCHANGED <<users, fresh, persons, roles, tokens, faults, roleWrites>>

\* faulty variant: a user that is gone is saved as an empty row
LoginWrongUpserts(q) ==
    /\ At(q, "wrong")
    /\ Return(q)
    /\ users' = [users EXCEPT ![reqs[q].user] =
                     IF @ # Absent THEN Failed(@)
                     ELSE [role |-> "", active |-> FALSE, attempts |-> 1, lock |-> NoLock]]
    /\ UNCHANGED <<fresh, persons, roles, tokens, faults, roleWrites>>

\* Wrong password: one transaction on the row as it is now; errors are ignored.
LoginWrong(q) ==
    /\ At(q, "wrong")
    /\ Return(q)
    /\ LET u == reqs[q].user
       IN  \/ /\ users' = IF Exists(u) THEN [users EXCEPT ![u] = Failed(@)] ELSE users
              /\ UNCHANGED faults
           \/ /\ Fault
              /\ UNCHANGED users
    /\ UNCHANGED <<fresh, persons, roles, tokens, roleWrites>>

\* Right password: the counter and the lock are reset; errors are ignored.
LoginRight(q) ==
    /\ At(q, "right")
    /\ LET u == reqs[q].user
       IN  /\ Go(q, "token", u, reqs[q].role)
           /\ \/ /\ users' = IF Exists(u) THEN [users EXCEPT ![u] = Reset(@)] ELSE users
                 /\ UNCHANGED faults
              \/ /\ Fault
                 /\ UNCHANGED users
    /\ UNCHANGED <<fresh, persons, roles, tokens, roleWrites>>

\* Refresh: the user must exist and be active; a lock does not matter.
RefreshRead(q, t) ==
    /\ reqs[q] = Idle
    /\ t \in tokens
    /\ Exists(t.user)
    /\ users[t.user].active
    /\ Go(q, "token", t.user, users[t.user].role)
    /\ UNCHANGED <<users, fresh, persons, roles, tokens, faults, roleWrites>>

\* End of Login and Refresh: read the role of the user as it was read, sign.
IssueToken(q) ==
    /\ At(q, "token")
    /\ LET t == TokenFor(reqs[q].user, reqs[q].role)
       IN  tokens' = IF Cardinality(tokens) < MaxTokens THEN tokens \cup {t} ELSE {t}
    /\ Return(q)
    /\ UNCHANGED <<users, fresh, persons, roles, faults, roleWrites>>

\* ValidateToken fails from some moment on, whatever happened to the user.
TokenExpires(t) ==
    /\ tokens' = tokens \ {t}
    /\ t \in tokens
    /\ UNCHANGED <<users, fresh, persons, roles, reqs, faults, roleWrites>>

\* ChangePassword: the row is read, and written back with another hash.
ChangePasswordRead(q, t) ==
    /\ reqs[q] = Idle
    /\ t \in tokens
    /\ Exists(t.user)
    /\ Save(q, t.user, users[t.user])
    /\ UNCHANGED <<users, fresh, persons, roles, tokens, faults, roleWrites>>

\* Update: the row is read and changed; a role must exist to be assigned. Save
\* also saves the Role that was preloaded, from which GORM may take role_id back.
UpdateRead(q, t, u, active, r) ==
    /\ reqs[q] = Idle
    /\ Authorized(t, "users:write")
    /\ Exists(u)
    /\ r = users[u].role \/ roles[r] # Absent
    /\ \E saved \in {r, users[u].role} :
           Save(q, u, [users[u] EXCEPT !.active = active, !.role = saved])
    /\ UNCHANGED <<users, fresh, persons, roles, tokens, faults, roleWrites>>

\* UserStore.Update: GORM's Save writes every column and inserts a row that is
\* gone, unless the name is taken by now. The column is_active defaults to true,
\* so that an insertion does not keep FALSE.
SaveUser(q) ==
    /\ At(q, "save")
    /\ Return(q)
    /\ LET u == reqs[q].user
           row == reqs[q].row
       IN  users' = IF Exists(u) THEN [users EXCEPT ![u] = row]
                    ELSE IF NameTaken(NameOf[u]) THEN users
                    ELSE [users EXCEPT ![u] = [row EXCEPT !.active = TRUE]]
    /\ UNCHANGED <<fresh, persons, roles, tokens, faults, roleWrites>>

(***************************************************************************)
(* Creation and deletion of users                                          *)
(***************************************************************************)
\* Create: the name is free and the role exists when they are looked up.
CreateRead(q, t, u, r) ==
    /\ reqs[q] = Idle
    /\ Authorized(t, "users:write")
    /\ u \in fresh
    /\ ~NameTaken(NameOf[u])
    /\ roles[r] # Absent
    /\ fresh' = fresh \ {u}
    /\ Go(q, "insert", u, r)
    /\ UNCHANGED <<users, persons, roles, tokens, faults, roleWrites>>

\* The unique index refuses a name that has been taken meanwhile.
CreateInsert(q) ==
    /\ At(q, "insert")
    /\ LET u == reqs[q].user
       IN  IF NameTaken(NameOf[u])
           THEN Return(q) /\ UNCHANGED users
           ELSE /\ users' = [users EXCEPT ![u] = NewUser(reqs[q].role)]
                /\ Go(q, "person", u, reqs[q].role)
    /\ UNCHANGED <<fresh, persons, roles, tokens, faults, roleWrites>>

\* syncPersonOrRollback: CreatePersonForUser, or the way to the rollback.
CreatePerson(q) ==
    /\ At(q, "person")
    /\ LET u == reqs[q].user
       IN  \/ /\ persons' = persons \cup {u}
              /\ Return(q)
              /\ UNCHANGED faults
           \/ /\ Fault
              /\ Go(q, "rollback", u, reqs[q].role)
              /\ UNCHANGED persons
    /\ UNCHANGED <<users, fresh, roles, tokens, roleWrites>>

\* The compensating Delete may fail as well, which is only logged.
Rollback(q) ==
    /\ At(q, "rollback")
    /\ Return(q)
    /\ \/ /\ users' = [users EXCEPT ![reqs[q].user] = Absent]
          /\ UNCHANGED faults
       \/ /\ Fault
          /\ UNCHANGED users
    /\ UNCHANGED <<fresh, persons, roles, tokens, roleWrites>>

\* Delete: not oneself; the role that is read with the user decides whether
\* administrators are counted.
DeleteRead(q, t, u) ==
    /\ reqs[q] = Idle
    /\ Authorized(t, "users:delete")
    /\ u # t.user
    /\ Exists(u)
    /\ LET role == roles[users[u].role]
           admin == role # Absent /\ role.name = "admin"
       IN  Go(q, IF admin THEN "count" ELSE "delete", u, users[u].role)
    /\ UNCHANGED <<users, fresh, persons, roles, tokens, faults, roleWrites>>

ActiveWith(r) == {u \in Users : Exists(u) /\ users[u].role = r /\ users[u].active}

\* List, then refuse to delete the last active administrator.
DeleteCount(q) ==
    /\ At(q, "count")
    /\ IF Cardinality(ActiveWith(reqs[q].role)) <= 1
       THEN Return(q)
       ELSE Go(q, "delete", reqs[q].user, reqs[q].role)
    /\ UNCHANGED <<users, fresh, persons, roles, tokens, faults, roleWrites>>

\* The user is deleted, its person is not.
DeleteUser(q) ==
    /\ At(q, "delete")
    /\ users' = [users EXCEPT ![reqs[q].user] = Absent]
    /\ Return(q)
    /\ UNCHANGED <<fresh, persons, roles, tokens, faults, roleWrites>>

(***************************************************************************)
(* Roles                                                                   *)
(***************************************************************************)
RoleNameTaken(n, r) == \E s \in Roles \ {r} : roles[s] # Absent /\ roles[s].name = n

\* Create: the look-up and the unique index refuse the same names.
RoleCreate(t, r, n, perms) ==
    /\ Authorized(t, "roles:write")
    /\ roles[r] = Absent
    /\ ~RoleNameTaken(n, r)
    /\ roleWrites < MaxRoleWrites
    /\ roleWrites' = roleWrites + 1
    /\ roles' = [roles EXCEPT ![r] = [name |-> n, perms |-> perms, system |-> FALSE]]
    /\ UNCHANGED <<users, fresh, persons, tokens, reqs, faults>>

\* Update: any role, system roles included, is read and changed, ...
RoleUpdateRead(q, t, r, n, perms) ==
    /\ reqs[q] = Idle
    /\ Authorized(t, "roles:write")
    /\ roles[r] # Absent
    /\ roleWrites < MaxRoleWrites
    /\ roleWrites' = roleWrites + 1
    /\ reqs' = [reqs EXCEPT ![q] =
                   [at |-> "saveRole", role |-> r,
                    row |-> [roles[r] EXCEPT !.name = n, !.perms = perms]]]
    /\ UNCHANGED <<users, fresh, persons, roles, tokens, faults>>

\* ... then saved as a whole, or inserted again, unless its name is taken.
SaveRole(q) ==
    /\ At(q, "saveRole")
    /\ Return(q)
    /\ LET r == reqs[q].role
       IN  roles' = IF RoleNameTaken(reqs[q].row.name, r) THEN roles
                    ELSE [roles EXCEPT ![r] = reqs[q].row]
    /\ UNCHANGED <<users, fresh, persons, tokens, faults, roleWrites>>

\* Delete: not a system role. The foreign key of users refuses a role in use on
\* the connection that has foreign_keys on, and no other: both may happen.
RoleDelete(t, r) ==
    /\ Authorized(t, "roles:write")
    /\ roles[r] # Absent
    /\ ~roles[r].system
    /\ roles' = [roles EXCEPT ![r] = Absent]
    /\ UNCHANGED <<users, fresh, persons, tokens, reqs, faults, roleWrites>>

(***************************************************************************)
(* Time and restarts                                                       *)
(***************************************************************************)
Elapse(row) == [row EXCEPT !.lock = IF @ > 0 THEN @ - 1 ELSE @]

\* Timestamps are absolute: those in copies grow old with those in rows.
ClockTick ==
    /\ users' = [u \in Users |-> IF Exists(u) THEN Elapse(users[u]) ELSE Absent]
    /\ reqs' = [q \in Reqs |->
                   IF At(q, "save") THEN [reqs[q] EXCEPT !.row = Elapse(@)] ELSE reqs[q]]
    /\ UNCHANGED <<fresh, persons, roles, tokens, faults, roleWrites>>

\* The process dies and is started again: requests are lost, and the tokens too
\* if the secret is generated. BootstrapAdmin makes an administrator with its
\* person when there is no user at all (in steps: see module Startup).
Restart ==
    /\ Fault
    /\ reqs' = [q \in Reqs |-> Idle]
    /\ tokens' \in {tokens, {}}
    /\ \/ /\ \A u \in Users : ~Exists(u)
          /\ \E u \in fresh : /\ users' = [users EXCEPT ![u] = NewUser(AdminRole)]
                              /\ fresh' = fresh \ {u}
                              /\ persons' = persons \cup {u}
       \/ /\ \E u \in Users : Exists(u)
          /\ UNCHANGED <<users, fresh, persons>>
    /\ UNCHANGED <<roles, roleWrites>>

-----------------------------------------------------------------------------
\* What a request in flight does next; its handler runs to its end.
Proceed(q) ==
    \/ LoginWrong(q) \/ LoginRight(q) \/ IssueToken(q) \/ SaveUser(q)
    \/ CreateInsert(q) \/ CreatePerson(q) \/ Rollback(q)
    \/ DeleteCount(q) \/ DeleteUser(q) \/ SaveRole(q)

Request(q) ==
    \/ \E u \in Users : LoginRead(q, u)
    \/ \E t \in tokens :
        \/ RefreshRead(q, t)
        \/ ChangePasswordRead(q, t)
        \/ \E u \in Users, r \in Roles :
            \/ \E active \in BOOLEAN : UpdateRead(q, t, u, active, r)
            \/ CreateRead(q, t, u, r)
        \/ \E u \in Users : DeleteRead(q, t, u)
        \/ \E r \in Roles, n \in RoleNames, perms \in PermSets :
            RoleUpdateRead(q, t, r, n, perms)

RoleRequest ==
    \E t \in tokens, r \in Roles :
        \/ \E n \in RoleNames, perms \in PermSets : RoleCreate(t, r, n, perms)
        \/ RoleDelete(t, r)

AccountsNext ==
    \/ \E q \in Reqs : Proceed(q) \/ Request(q)
    \/ RoleRequest
    \/ \E t \in tokens : TokenExpires(t)
    \/ ClockTick
    \/ Restart

AccountsSpec == AccountsInit /\ [][AccountsNext]_accountVars

\* Handlers run to their end, and time passes.
AccountsFairness ==
    /\ WF_accountVars(ClockTick)
    /\ \A q \in Reqs : WF_accountVars(Proceed(q))

-----------------------------------------------------------------------------
\* The two columns of a lock belong together: locked_until is set on no account
\* whose failed_attempts is below the limit, although whole rows are written back
\* from old copies (UserStore.Update) while logins count and reset. The copies in
\* flight have to agree as well.
LockEarned ==
    LET Agrees(row) == row.lock # NoLock => row.attempts = MaxFailedAttempts
    IN  /\ \A u \in Users : Exists(u) => Agrees(users[u])
        /\ \A q \in Reqs : At(q, "save") => Agrees(reqs[q].row)

\* Nobody can keep an account locked for ever by trying wrong passwords: Login
\* refuses a locked account before it counts, so that every lock runs out.
LockExpires ==
    \A u \in Users : []<>(Exists(u) => ~LockInForce(users[u]))

\* Deleting an administrator leaves an active administrator
\* (docs/end-user-guide.md: "The last active admin user cannot be deleted").
LastAdminKept ==
    [][\A u \in Users :
          (Exists(u) /\ users'[u] = Absent /\ u \in ActiveWith(AdminRole))
              => ActiveWith(AdminRole)' # {}]_accountVars
=============================================================================
