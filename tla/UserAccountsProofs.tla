------------------------- MODULE UserAccountsProofs -------------------------
(***************************************************************************)
(* Proofs about UserAccounts, for every number of users, roles, requests   *)
(* and faults: the tables keep their types, and no account is locked that  *)
(* has not failed often enough.                                            *)
(***************************************************************************)
EXTENDS UserAccounts, TLAPS

-----------------------------------------------------------------------------
(* Rows *)

\* A row that exists is a user.
LEMMA RowOf ==
    ASSUME AccountsTypeOK, NEW u \in Users, Exists(u)
    PROVE  users[u] \in User
BY DEF AccountsTypeOK, Exists

\* IncrementFailedAttempts and ResetFailedAttempts make users of users.
LEMMA FailedType ==
    ASSUME NEW row \in User
    PROVE  Failed(row) \in User
<1>. DEFINE n == IF row.attempts < MaxFailedAttempts THEN row.attempts + 1
                 ELSE MaxFailedAttempts
            lock == IF n >= MaxFailedAttempts THEN LockDuration ELSE row.lock
<1>1. n \in 0..MaxFailedAttempts
  BY AccountAssumption DEF User
<1>2. lock \in NoLock..LockDuration
  BY AccountAssumption DEF User, NoLock
<1>3. Failed(row) = [row EXCEPT !.attempts = n, !.lock = lock]
  BY DEF Failed
<1>. HIDE DEF n, lock
<1>. QED
  BY <1>1, <1>2, <1>3 DEF User

\* ResetFailedAttempts
LEMMA ResetType ==
    ASSUME NEW row \in User
    PROVE  Reset(row) \in User
<1>1. 0 \in 0..MaxFailedAttempts /\ NoLock \in NoLock..LockDuration
  BY AccountAssumption DEF NoLock
<1>. QED
  BY <1>1 DEF Reset, User

\* Time passes for a lock.
LEMMA ElapseType ==
    ASSUME NEW row \in User
    PROVE  Elapse(row) \in User
BY AccountAssumption DEF Elapse, User, NoLock

\* The row that Create inserts
LEMMA NewUserType ==
    ASSUME NEW r \in Roles
    PROVE  NewUser(r) \in User
BY AccountAssumption DEF NewUser, User, NoLock

\* What a request in flight holds is told by its stage.
LEMMA UserReqAt ==
    ASSUME AccountsTypeOK, NEW q \in Reqs, NEW s \in Stage, At(q, s)
    PROVE  reqs[q] \in UserReq
<1>1. reqs[q] \in UserReq \cup SaveReq \cup RoleReq
  BY DEF AccountsTypeOK, At
<1>. QED
  BY <1>1 DEF At, UserReq, SaveReq, RoleReq, Stage

\* A request that will save a user holds a whole row ...
LEMMA SaveReqAt ==
    ASSUME AccountsTypeOK, NEW q \in Reqs, At(q, "save")
    PROVE  reqs[q] \in SaveReq
<1>1. reqs[q] \in UserReq \cup SaveReq \cup RoleReq
  BY DEF AccountsTypeOK, At
<1>. QED
  BY <1>1 DEF At, UserReq, SaveReq, RoleReq, Stage

\* ... and one that will save a role holds a role.
LEMMA RoleReqAt ==
    ASSUME AccountsTypeOK, NEW q \in Reqs, At(q, "saveRole")
    PROVE  reqs[q] \in RoleReq
<1>1. reqs[q] \in UserReq \cup SaveReq \cup RoleReq
  BY DEF AccountsTypeOK, At
<1>. QED
  BY <1>1 DEF At, UserReq, SaveReq, RoleReq, Stage

\* A request that goes on or returns keeps the type of reqs.
LEMMA GoType ==
    ASSUME AccountsTypeOK, NEW q \in Reqs, NEW s \in Stage, NEW u \in Users,
           NEW r \in Roles, Go(q, s, u, r)
    PROVE  reqs' \in [Reqs -> UserReq \cup SaveReq \cup RoleReq \cup {Idle}]
<1>1. [at |-> s, user |-> u, role |-> r] \in UserReq
  BY DEF UserReq
<1>. QED
  BY <1>1 DEF AccountsTypeOK, Go

\* A request that is to save a user holds a user.
LEMMA SaveType ==
    ASSUME AccountsTypeOK, NEW q \in Reqs, NEW u \in Users, NEW row \in User,
           Save(q, u, row)
    PROVE  reqs' \in [Reqs -> UserReq \cup SaveReq \cup RoleReq \cup {Idle}]
<1>1. [at |-> "save", user |-> u, row |-> row] \in SaveReq
  BY DEF SaveReq
<1>. QED
  BY <1>1 DEF AccountsTypeOK, Save

\* A request that ends leaves its slot idle.
LEMMA ReturnType ==
    ASSUME AccountsTypeOK, NEW q \in Reqs, Return(q)
    PROVE  reqs' \in [Reqs -> UserReq \cup SaveReq \cup RoleReq \cup {Idle}]
BY DEF AccountsTypeOK, Return

\* A failing call is counted within its bound.
LEMMA FaultType ==
    ASSUME AccountsTypeOK, Fault
    PROVE  faults' \in 0..MaxFaults
BY AccountAssumption DEF AccountsTypeOK, Fault

\* A token carries permissions of a role.
LEMMA TokenType ==
    ASSUME AccountsTypeOK, NEW u \in Users, NEW r \in Roles
    PROVE  TokenFor(u, r) \in Token
BY DEF AccountsTypeOK, TokenFor, Token, Role

-----------------------------------------------------------------------------
(* Type correctness *)

\* BootstrapAdmin leaves well-formed tables.
LEMMA InitTypeOK == AccountsInit => AccountsTypeOK
<1>. SUFFICES ASSUME AccountsInit PROVE AccountsTypeOK
  OBVIOUS
<1>1. users \in [Users -> User \cup {Absent}]
  BY NewUserType DEF AccountsInit, Bootstrapped, Roles
<1>2. roles \in [Roles -> Role \cup {Absent}]
  BY AccountAssumption DEF AccountsInit, Bootstrapped, Role
<1>3. reqs \in [Reqs -> UserReq \cup SaveReq \cup RoleReq \cup {Idle}]
  BY DEF AccountsInit, Bootstrapped
<1>4. fresh \in SUBSET Users /\ persons \in SUBSET Users /\ tokens \in SUBSET Token
  BY AccountAssumption DEF AccountsInit, Bootstrapped
<1>5. faults \in 0..MaxFaults /\ roleWrites \in 0..MaxRoleWrites
  BY AccountAssumption DEF AccountsInit, Bootstrapped
<1>. QED
  BY <1>1, <1>2, <1>3, <1>4, <1>5 DEF AccountsTypeOK

\* The steps of Login
LEMMA LoginTypeOK ==
    ASSUME AccountsTypeOK, NEW q \in Reqs,
           \/ \E u \in Users : LoginRead(q, u)
           \/ LoginWrong(q)
           \/ LoginRight(q)
    PROVE  AccountsTypeOK'
<1>1. ASSUME NEW u \in Users, LoginRead(q, u) PROVE AccountsTypeOK'
  <2>1. users[u].role \in Roles
    BY <1>1, RowOf DEF LoginRead, User
  <2>2. PICK result \in {"wrong", "right"} : Go(q, result, u, users[u].role)
    BY <1>1 DEF LoginRead
  <2>3. reqs' \in [Reqs -> UserReq \cup SaveReq \cup RoleReq \cup {Idle}]
    BY <2>1, <2>2, GoType DEF Stage
  <2>. QED
    BY <1>1, <2>3 DEF LoginRead, AccountsTypeOK
<1>2. ASSUME LoginWrong(q) PROVE AccountsTypeOK'
  <2>1. reqs[q].user \in Users
    BY <1>2, UserReqAt DEF LoginWrong, Stage, UserReq
  <2>2. reqs' \in [Reqs -> UserReq \cup SaveReq \cup RoleReq \cup {Idle}]
    BY <1>2, ReturnType DEF LoginWrong
  <2>3. users' \in [Users -> User \cup {Absent}]
    <3>1. Exists(reqs[q].user) => Failed(users[reqs[q].user]) \in User
      BY <2>1, RowOf, FailedType
    <3>. QED
      BY <1>2, <2>1, <3>1 DEF LoginWrong, AccountsTypeOK
  <2>4. faults' \in 0..MaxFaults
    BY <1>2, FaultType DEF LoginWrong, AccountsTypeOK
  <2>. QED
    BY <1>2, <2>2, <2>3, <2>4 DEF LoginWrong, AccountsTypeOK
<1>3. ASSUME LoginRight(q) PROVE AccountsTypeOK'
  <2>1. reqs[q].user \in Users /\ reqs[q].role \in Roles
    BY <1>3, UserReqAt DEF LoginRight, Stage, UserReq
  <2>2. reqs' \in [Reqs -> UserReq \cup SaveReq \cup RoleReq \cup {Idle}]
    BY <1>3, <2>1, GoType DEF LoginRight, Stage
  <2>3. users' \in [Users -> User \cup {Absent}]
    <3>1. Exists(reqs[q].user) => Reset(users[reqs[q].user]) \in User
      BY <2>1, RowOf, ResetType
    <3>. QED
      BY <1>3, <2>1, <3>1 DEF LoginRight, AccountsTypeOK
  <2>4. faults' \in 0..MaxFaults
    BY <1>3, FaultType DEF LoginRight, AccountsTypeOK
  <2>. QED
    BY <1>3, <2>2, <2>3, <2>4 DEF LoginRight, AccountsTypeOK
<1>. QED
  BY <1>1, <1>2, <1>3

\* The steps of Refresh and ChangePassword, and tokens
LEMMA SessionTypeOK ==
    ASSUME AccountsTypeOK, NEW q \in Reqs,
           \/ IssueToken(q)
           \/ \E t \in tokens : \/ RefreshRead(q, t)
                               \/ ChangePasswordRead(q, t)
                               \/ TokenExpires(t)
    PROVE  AccountsTypeOK'
<1>0. \A t \in tokens : t \in Token /\ t.user \in Users
  BY DEF AccountsTypeOK, Token
<1>1. ASSUME IssueToken(q) PROVE AccountsTypeOK'
  <2>1. reqs[q].user \in Users /\ reqs[q].role \in Roles
    BY <1>1, UserReqAt DEF IssueToken, Stage, UserReq
  <2>2. reqs' \in [Reqs -> UserReq \cup SaveReq \cup RoleReq \cup {Idle}]
    BY <1>1, ReturnType DEF IssueToken
  <2>3. tokens' \in SUBSET Token
    BY <1>1, <2>1, TokenType DEF IssueToken, AccountsTypeOK
  <2>. QED
    BY <1>1, <2>2, <2>3 DEF IssueToken, AccountsTypeOK
<1>2. ASSUME NEW t \in tokens, RefreshRead(q, t) PROVE AccountsTypeOK'
  <2>1. users[t.user].role \in Roles
    BY <1>0, <1>2, RowOf DEF RefreshRead, User
  <2>2. reqs' \in [Reqs -> UserReq \cup SaveReq \cup RoleReq \cup {Idle}]
    BY <1>0, <1>2, <2>1, GoType DEF RefreshRead, Stage
  <2>. QED
    BY <1>2, <2>2 DEF RefreshRead, AccountsTypeOK
<1>3. ASSUME NEW t \in tokens, ChangePasswordRead(q, t) PROVE AccountsTypeOK'
  <2>1. reqs' \in [Reqs -> UserReq \cup SaveReq \cup RoleReq \cup {Idle}]
    BY <1>0, <1>3, RowOf, SaveType DEF ChangePasswordRead
  <2>. QED
    BY <1>3, <2>1 DEF ChangePasswordRead, AccountsTypeOK
<1>4. ASSUME NEW t \in tokens, TokenExpires(t) PROVE AccountsTypeOK'
  BY <1>4 DEF TokenExpires, AccountsTypeOK
<1>. QED
  BY <1>1, <1>2, <1>3, <1>4

\* The steps that read a user and save it
LEMMA SaveTypeOK ==
    ASSUME AccountsTypeOK, NEW q \in Reqs,
           \/ \E t \in tokens, u \in Users, r \in Roles, active \in BOOLEAN :
                 UpdateRead(q, t, u, active, r)
           \/ SaveUser(q)
    PROVE  AccountsTypeOK'
<1>1. ASSUME NEW t \in tokens, NEW u \in Users, NEW r \in Roles, NEW active \in BOOLEAN,
             UpdateRead(q, t, u, active, r)
      PROVE  AccountsTypeOK'
  <2>1. users[u] \in User
    BY <1>1, RowOf DEF UpdateRead
  <2>2. PICK saved \in {r, users[u].role} :
            Save(q, u, [users[u] EXCEPT !.active = active, !.role = saved])
    BY <1>1 DEF UpdateRead
  <2>3. [users[u] EXCEPT !.active = active, !.role = saved] \in User
    BY <2>1, <2>2 DEF User
  <2>4. reqs' \in [Reqs -> UserReq \cup SaveReq \cup RoleReq \cup {Idle}]
    BY <2>2, <2>3, SaveType
  <2>. QED
    BY <1>1, <2>4 DEF UpdateRead, AccountsTypeOK
<1>2. ASSUME SaveUser(q) PROVE AccountsTypeOK'
  <2>1. reqs[q].user \in Users /\ reqs[q].row \in User
    BY <1>2, SaveReqAt DEF SaveUser, SaveReq
  <2>2. [reqs[q].row EXCEPT !.active = TRUE] \in User
    BY <2>1 DEF User
  <2>3. users' \in [Users -> User \cup {Absent}]
    BY <1>2, <2>1, <2>2 DEF SaveUser, AccountsTypeOK
  <2>4. reqs' \in [Reqs -> UserReq \cup SaveReq \cup RoleReq \cup {Idle}]
    BY <1>2, ReturnType DEF SaveUser
  <2>. QED
    BY <1>2, <2>3, <2>4 DEF SaveUser, AccountsTypeOK
<1>. QED
  BY <1>1, <1>2

\* The steps of UserHandler.Create with its rollback
LEMMA CreateTypeOK ==
    ASSUME AccountsTypeOK, NEW q \in Reqs,
           \/ \E t \in tokens, u \in Users, r \in Roles : CreateRead(q, t, u, r)
           \/ CreateInsert(q)
           \/ CreatePerson(q)
           \/ Rollback(q)
    PROVE  AccountsTypeOK'
<1>1. ASSUME NEW t \in tokens, NEW u \in Users, NEW r \in Roles, CreateRead(q, t, u, r)
      PROVE  AccountsTypeOK'
  <2>1. reqs' \in [Reqs -> UserReq \cup SaveReq \cup RoleReq \cup {Idle}]
    BY <1>1, GoType DEF CreateRead, Stage
  <2>. QED
    BY <1>1, <2>1 DEF CreateRead, AccountsTypeOK
<1>2. ASSUME CreateInsert(q) PROVE AccountsTypeOK'
  <2>1. reqs[q].user \in Users /\ reqs[q].role \in Roles
    BY <1>2, UserReqAt DEF CreateInsert, Stage, UserReq
  <2>2. reqs' \in [Reqs -> UserReq \cup SaveReq \cup RoleReq \cup {Idle}]
    BY <1>2, <2>1, GoType, ReturnType DEF CreateInsert, Stage
  <2>3. users' \in [Users -> User \cup {Absent}]
    BY <1>2, <2>1, NewUserType DEF CreateInsert, AccountsTypeOK
  <2>. QED
    BY <1>2, <2>2, <2>3 DEF CreateInsert, AccountsTypeOK
<1>3. ASSUME CreatePerson(q) PROVE AccountsTypeOK'
  <2>1. reqs[q].user \in Users /\ reqs[q].role \in Roles
    BY <1>3, UserReqAt DEF CreatePerson, Stage, UserReq
  <2>2. reqs' \in [Reqs -> UserReq \cup SaveReq \cup RoleReq \cup {Idle}]
    BY <1>3, <2>1, GoType, ReturnType DEF CreatePerson, Stage
  <2>3. persons' \in SUBSET Users
    BY <1>3, <2>1 DEF CreatePerson, AccountsTypeOK
  <2>4. faults' \in 0..MaxFaults
    BY <1>3, FaultType DEF CreatePerson, AccountsTypeOK
  <2>. QED
    BY <1>3, <2>2, <2>3, <2>4 DEF CreatePerson, AccountsTypeOK
<1>4. ASSUME Rollback(q) PROVE AccountsTypeOK'
  <2>1. reqs' \in [Reqs -> UserReq \cup SaveReq \cup RoleReq \cup {Idle}]
    BY <1>4, ReturnType DEF Rollback
  <2>2. users' \in [Users -> User \cup {Absent}]
    BY <1>4 DEF Rollback, AccountsTypeOK
  <2>3. faults' \in 0..MaxFaults
    BY <1>4, FaultType DEF Rollback, AccountsTypeOK
  <2>. QED
    BY <1>4, <2>1, <2>2, <2>3 DEF Rollback, AccountsTypeOK
<1>. QED
  BY <1>1, <1>2, <1>3, <1>4

\* The steps of UserHandler.Delete
LEMMA DeleteTypeOK ==
    ASSUME AccountsTypeOK, NEW q \in Reqs,
           \/ \E t \in tokens, u \in Users : DeleteRead(q, t, u)
           \/ DeleteCount(q)
           \/ DeleteUser(q)
    PROVE  AccountsTypeOK'
<1>1. ASSUME NEW t \in tokens, NEW u \in Users, DeleteRead(q, t, u) PROVE AccountsTypeOK'
  <2>1. users[u].role \in Roles
    BY <1>1, RowOf DEF DeleteRead, User
  <2>2. PICK s \in {"count", "delete"} : Go(q, s, u, users[u].role)
    BY <1>1 DEF DeleteRead
  <2>3. reqs' \in [Reqs -> UserReq \cup SaveReq \cup RoleReq \cup {Idle}]
    BY <2>1, <2>2, GoType DEF Stage
  <2>. QED
    BY <1>1, <2>3 DEF DeleteRead, AccountsTypeOK
<1>2. ASSUME DeleteCount(q) PROVE AccountsTypeOK'
  <2>1. reqs[q].user \in Users /\ reqs[q].role \in Roles
    BY <1>2, UserReqAt DEF DeleteCount, Stage, UserReq
  <2>2. reqs' \in [Reqs -> UserReq \cup SaveReq \cup RoleReq \cup {Idle}]
    BY <1>2, <2>1, GoType, ReturnType DEF DeleteCount, Stage
  <2>. QED
    BY <1>2, <2>2 DEF DeleteCount, AccountsTypeOK
<1>3. ASSUME DeleteUser(q) PROVE AccountsTypeOK'
  <2>1. reqs' \in [Reqs -> UserReq \cup SaveReq \cup RoleReq \cup {Idle}]
    BY <1>3, ReturnType DEF DeleteUser
  <2>2. users' \in [Users -> User \cup {Absent}]
    BY <1>3 DEF DeleteUser, AccountsTypeOK
  <2>. QED
    BY <1>3, <2>1, <2>2 DEF DeleteUser, AccountsTypeOK
<1>. QED
  BY <1>1, <1>2, <1>3

\* The steps of RoleHandler
LEMMA RoleTypeOK ==
    ASSUME AccountsTypeOK,
           \/ \E q \in Reqs : SaveRole(q)
           \/ \E t \in tokens, r \in Roles : RoleDelete(t, r)
           \/ \E t \in tokens, r \in Roles, n \in RoleNames, perms \in PermSets :
                 \/ RoleCreate(t, r, n, perms)
                 \/ \E q \in Reqs : RoleUpdateRead(q, t, r, n, perms)
    PROVE  AccountsTypeOK'
<1>0. PermSets \subseteq SUBSET Permissions
  BY AccountAssumption
<1>1. ASSUME NEW t \in tokens, NEW r \in Roles, NEW n \in RoleNames, NEW perms \in PermSets,
             RoleCreate(t, r, n, perms)
      PROVE  AccountsTypeOK'
  <2>1. [name |-> n, perms |-> perms, system |-> FALSE] \in Role
    BY <1>0 DEF Role
  <2>2. roles' \in [Roles -> Role \cup {Absent}]
    BY <1>1, <2>1 DEF RoleCreate, AccountsTypeOK
  <2>3. roleWrites' \in 0..MaxRoleWrites
    BY <1>1, AccountAssumption DEF RoleCreate, AccountsTypeOK
  <2>. QED
    BY <1>1, <2>2, <2>3 DEF RoleCreate, AccountsTypeOK
<1>2. ASSUME NEW q \in Reqs, NEW t \in tokens, NEW r \in Roles, NEW n \in RoleNames,
             NEW perms \in PermSets, RoleUpdateRead(q, t, r, n, perms)
      PROVE  AccountsTypeOK'
  <2>1. roles[r] \in Role
    BY <1>2 DEF RoleUpdateRead, AccountsTypeOK
  <2>2. [roles[r] EXCEPT !.name = n, !.perms = perms] \in Role
    BY <1>0, <2>1 DEF Role
  <2>3. [at |-> "saveRole", role |-> r,
         row |-> [roles[r] EXCEPT !.name = n, !.perms = perms]] \in RoleReq
    BY <2>2 DEF RoleReq
  <2>4. reqs' \in [Reqs -> UserReq \cup SaveReq \cup RoleReq \cup {Idle}]
    BY <1>2, <2>3 DEF RoleUpdateRead, AccountsTypeOK
  <2>5. roleWrites' \in 0..MaxRoleWrites
    <3>1. roleWrites < MaxRoleWrites /\ roleWrites' = roleWrites + 1
      BY <1>2 DEF RoleUpdateRead
    <3>2. roleWrites \in 0..MaxRoleWrites
      BY DEF AccountsTypeOK
    <3>. QED
      BY <3>1, <3>2, AccountAssumption
  <2>. QED
    BY <1>2, <2>4, <2>5 DEF RoleUpdateRead, AccountsTypeOK
<1>3. ASSUME NEW q \in Reqs, SaveRole(q) PROVE AccountsTypeOK'
  <2>1. reqs[q].role \in Roles /\ reqs[q].row \in Role
    BY <1>3, RoleReqAt DEF SaveRole, RoleReq
  <2>2. roles' \in [Roles -> Role \cup {Absent}]
    BY <1>3, <2>1 DEF SaveRole, AccountsTypeOK
  <2>3. reqs' \in [Reqs -> UserReq \cup SaveReq \cup RoleReq \cup {Idle}]
    BY <1>3, ReturnType DEF SaveRole
  <2>. QED
    BY <1>3, <2>2, <2>3 DEF SaveRole, AccountsTypeOK
<1>4. ASSUME NEW t \in tokens, NEW r \in Roles, RoleDelete(t, r) PROVE AccountsTypeOK'
  <2>1. roles' \in [Roles -> Role \cup {Absent}]
    BY <1>4 DEF RoleDelete, AccountsTypeOK
  <2>. QED
    BY <1>4, <2>1 DEF RoleDelete, AccountsTypeOK
<1>. QED
  BY <1>1, <1>2, <1>3, <1>4

\* The clock and restarts
LEMMA TimeTypeOK ==
    ASSUME AccountsTypeOK, ClockTick \/ Restart
    PROVE  AccountsTypeOK'
<1>1. ASSUME ClockTick PROVE AccountsTypeOK'
  <2>1. users' \in [Users -> User \cup {Absent}]
    BY <1>1, RowOf, ElapseType DEF ClockTick
  <2>2. ASSUME NEW q \in Reqs, At(q, "save")
        PROVE  [reqs[q] EXCEPT !.row = Elapse(@)] \in SaveReq
    <3>1. reqs[q] \in SaveReq
      BY <2>2, SaveReqAt
    <3>2. Elapse(reqs[q].row) \in User
      BY <3>1, ElapseType DEF SaveReq
    <3>. QED
      BY <3>1, <3>2 DEF SaveReq
  <2>3. reqs' \in [Reqs -> UserReq \cup SaveReq \cup RoleReq \cup {Idle}]
    BY <1>1, <2>2 DEF ClockTick, AccountsTypeOK
  <2>. QED
    BY <1>1, <2>1, <2>3 DEF ClockTick, AccountsTypeOK
<1>2. ASSUME Restart PROVE AccountsTypeOK'
  <2>1. NewUser(AdminRole) \in User
    BY NewUserType DEF Roles
  <2>2. fresh \in SUBSET Users /\ persons \in SUBSET Users
    BY DEF AccountsTypeOK
  <2>3. /\ users' \in [Users -> User \cup {Absent}]
        /\ fresh' \in SUBSET Users
        /\ persons' \in SUBSET Users
    BY <1>2, <2>1, <2>2 DEF Restart, AccountsTypeOK
  <2>4. reqs' \in [Reqs -> UserReq \cup SaveReq \cup RoleReq \cup {Idle}]
    BY <1>2 DEF Restart
  <2>5. faults' \in 0..MaxFaults
    BY <1>2, FaultType DEF Restart
  <2>6. tokens' \in SUBSET Token
    BY <1>2 DEF Restart, AccountsTypeOK
  <2>. QED
    BY <1>2, <2>3, <2>4, <2>5, <2>6 DEF Restart, AccountsTypeOK
<1>. QED
  BY <1>1, <1>2

\* Every step keeps the types.
LEMMA StepTypeOK == AccountsTypeOK /\ [AccountsNext]_accountVars => AccountsTypeOK'
<1>. SUFFICES ASSUME AccountsTypeOK, [AccountsNext]_accountVars PROVE AccountsTypeOK'
  OBVIOUS
<1>1. ASSUME NEW q \in Reqs, Proceed(q) PROVE AccountsTypeOK'
  BY <1>1, LoginTypeOK, SessionTypeOK, SaveTypeOK, CreateTypeOK, DeleteTypeOK, RoleTypeOK
     DEF Proceed
<1>2. ASSUME NEW q \in Reqs, Request(q) PROVE AccountsTypeOK'
  BY <1>2, LoginTypeOK, SessionTypeOK, SaveTypeOK, CreateTypeOK, DeleteTypeOK, RoleTypeOK
     DEF Request
<1>3. ASSUME RoleRequest PROVE AccountsTypeOK'
  BY <1>3, RoleTypeOK DEF RoleRequest
<1>4. ASSUME NEW t \in tokens, TokenExpires(t) PROVE AccountsTypeOK'
  BY <1>4 DEF TokenExpires, AccountsTypeOK
<1>5. CASE ClockTick \/ Restart
  BY <1>5, TimeTypeOK
<1>6. CASE UNCHANGED accountVars
  BY <1>6 DEF accountVars, AccountsTypeOK
<1>. QED
  BY <1>1, <1>2, <1>3, <1>4, <1>5, <1>6 DEF AccountsNext

\* Every table and every request in flight keeps its type, although whole rows are
\* written back by UserStore.Update and RoleStore.Update after they may be gone.
THEOREM AccountsTypeCorrect == AccountsSpec => []AccountsTypeOK
BY InitTypeOK, StepTypeOK, PTL DEF AccountsSpec

-----------------------------------------------------------------------------
(* The two columns of a lock *)

\* LockEarned of one row
Agrees(row) == row.lock # NoLock => row.attempts = MaxFailedAttempts

\* LockEarned, said with Agrees
LEMMA LockEarnedRows ==
    LockEarned <=> /\ \A u \in Users : Exists(u) => Agrees(users[u])
                   /\ \A q \in Reqs : At(q, "save") => Agrees(reqs[q].row)
BY DEF LockEarned, Agrees

\* IncrementFailedAttempts locks only at the limit.
LEMMA FailedAgrees ==
    ASSUME NEW row \in User, Agrees(row)
    PROVE  Agrees(Failed(row))
<1>. DEFINE n == IF row.attempts < MaxFailedAttempts THEN row.attempts + 1
                 ELSE MaxFailedAttempts
            lock == IF n >= MaxFailedAttempts THEN LockDuration ELSE row.lock
<1>1. Failed(row) = [row EXCEPT !.attempts = n, !.lock = lock]
  BY DEF Failed
<1>2. lock # NoLock => n = MaxFailedAttempts
  BY AccountAssumption DEF User, Agrees, NoLock
<1>3. Failed(row).attempts = n /\ Failed(row).lock = lock
  BY <1>1 DEF User
<1>. QED
  BY <1>2, <1>3 DEF Agrees

\* ResetFailedAttempts clears counter and lock together.
LEMMA ResetAgrees ==
    ASSUME NEW row \in User
    PROVE  Agrees(Reset(row))
BY DEF Reset, Agrees, User

\* Time does not touch the counter.
LEMMA ElapseAgrees ==
    ASSUME NEW row \in User, Agrees(row)
    PROVE  Agrees(Elapse(row))
<1>1. Elapse(row).attempts = row.attempts
  BY DEF Elapse, User
<1>2. Elapse(row).lock = IF row.lock > 0 THEN row.lock - 1 ELSE row.lock
  BY DEF Elapse, User
<1>3. Elapse(row).lock # NoLock => row.lock # NoLock
  BY <1>2, AccountAssumption DEF User, NoLock
<1>. QED
  BY <1>1, <1>3 DEF Agrees

\* A new user is not locked.
LEMMA NewUserAgrees ==
    ASSUME NEW r
    PROVE  Agrees(NewUser(r))
BY DEF NewUser, Agrees

\* It is enough that every row a step writes, and every copy it makes, agrees.
RowsKept == \A u \in Users : users'[u] # Absent => users'[u] = users[u] \/ Agrees(users'[u])
CopiesKept ==
    \A q \in Reqs : At(q, "save")' => reqs'[q] = reqs[q] \/ Agrees(reqs'[q].row)

\* A step that leaves agreeing rows and copies keeps LockEarned.
LEMMA KeptIsEnough ==
    ASSUME LockEarned, RowsKept, CopiesKept
    PROVE  LockEarned'
<1>1. \A u \in Users : users'[u] # Absent => Agrees(users'[u])
  BY LockEarnedRows DEF RowsKept, Exists
<1>2. \A q \in Reqs : At(q, "save")' => Agrees(reqs'[q].row)
  BY LockEarnedRows DEF CopiesKept, At
<1>. QED
  BY <1>1, <1>2 DEF LockEarned, Agrees, Exists

\* A request that goes on without a row to save adds no copy.
LEMMA GoKeeps ==
    ASSUME AccountsTypeOK, NEW q \in Reqs, NEW s \in Stage, NEW u, NEW r, Go(q, s, u, r)
    PROVE  CopiesKept
BY DEF AccountsTypeOK, Go, CopiesKept, At, Stage

\* A request that ends drops its copy.
LEMMA ReturnKeeps ==
    ASSUME AccountsTypeOK, NEW q \in Reqs, Return(q)
    PROVE  CopiesKept
BY DEF AccountsTypeOK, Return, CopiesKept, At

\* A request that is to save an agreeing row adds an agreeing copy.
LEMMA SaveKeeps ==
    ASSUME AccountsTypeOK, NEW q \in Reqs, NEW u, NEW row, Agrees(row), Save(q, u, row)
    PROVE  CopiesKept
<1>1. \A p \in Reqs \ {q} : reqs'[p] = reqs[p]
  BY DEF AccountsTypeOK, Save
<1>2. reqs'[q].row = row
  BY DEF AccountsTypeOK, Save
<1>. QED
  BY <1>1, <1>2 DEF CopiesKept

\* The steps of Login
LEMMA LoginKeepsLocks ==
    ASSUME AccountsTypeOK, LockEarned, NEW q \in Reqs,
           \/ \E u \in Users : LoginRead(q, u)
           \/ LoginWrong(q)
           \/ LoginRight(q)
    PROVE  LockEarned'
<1>1. ASSUME NEW u \in Users, LoginRead(q, u) PROVE LockEarned'
  <2>1. PICK result \in {"wrong", "right"} : Go(q, result, u, users[u].role)
    BY <1>1 DEF LoginRead
  <2>2. CopiesKept
    BY <2>1, GoKeeps DEF Stage
  <2>3. RowsKept
    BY <1>1 DEF LoginRead, RowsKept
  <2>. QED
    BY <2>2, <2>3, KeptIsEnough
<1>2. ASSUME LoginWrong(q) PROVE LockEarned'
  <2>1. reqs[q].user \in Users
    BY <1>2, UserReqAt DEF LoginWrong, Stage, UserReq
  <2>2. Exists(reqs[q].user) => Agrees(Failed(users[reqs[q].user]))
    BY <2>1, RowOf, FailedAgrees, LockEarnedRows
  <2>3. RowsKept
    BY <1>2, <2>1, <2>2 DEF LoginWrong, RowsKept, AccountsTypeOK
  <2>4. CopiesKept
    BY <1>2, ReturnKeeps DEF LoginWrong
  <2>. QED
    BY <2>3, <2>4, KeptIsEnough
<1>3. ASSUME LoginRight(q) PROVE LockEarned'
  <2>1. reqs[q].user \in Users
    BY <1>3, UserReqAt DEF LoginRight, Stage, UserReq
  <2>2. Exists(reqs[q].user) => Agrees(Reset(users[reqs[q].user]))
    BY <2>1, RowOf, ResetAgrees
  <2>3. RowsKept
    BY <1>3, <2>1, <2>2 DEF LoginRight, RowsKept, AccountsTypeOK
  <2>4. CopiesKept
    BY <1>3, GoKeeps DEF LoginRight, Stage
  <2>. QED
    BY <2>3, <2>4, KeptIsEnough
<1>. QED
  BY <1>1, <1>2, <1>3

\* Whole rows that are saved agree, since the copies in flight do.
LEMMA SavesKeepLocks ==
    ASSUME AccountsTypeOK, LockEarned, NEW q \in Reqs,
           \/ \E t \in tokens : ChangePasswordRead(q, t)
           \/ \E t \in tokens, u \in Users, r \in Roles, active \in BOOLEAN :
                 UpdateRead(q, t, u, active, r)
           \/ SaveUser(q)
    PROVE  LockEarned'
<1>1. ASSUME NEW t \in tokens, ChangePasswordRead(q, t) PROVE LockEarned'
  <2>1. t.user \in Users
    BY DEF AccountsTypeOK, Token
  <2>2. Agrees(users[t.user])
    BY <1>1, <2>1, LockEarnedRows DEF ChangePasswordRead
  <2>3. CopiesKept
    BY <1>1, <2>2, SaveKeeps DEF ChangePasswordRead
  <2>4. RowsKept
    BY <1>1 DEF ChangePasswordRead, RowsKept
  <2>. QED
    BY <2>3, <2>4, KeptIsEnough
<1>2. ASSUME NEW t \in tokens, NEW u \in Users, NEW r \in Roles, NEW active \in BOOLEAN,
             UpdateRead(q, t, u, active, r)
      PROVE  LockEarned'
  <2>1. users[u] \in User /\ Agrees(users[u])
    BY <1>2, RowOf, LockEarnedRows DEF UpdateRead
  <2>2. PICK saved \in {r, users[u].role} :
            Save(q, u, [users[u] EXCEPT !.active = active, !.role = saved])
    BY <1>2 DEF UpdateRead
  <2>3. Agrees([users[u] EXCEPT !.active = active, !.role = saved])
    BY <2>1 DEF Agrees, User
  <2>4. CopiesKept
    BY <2>2, <2>3, SaveKeeps
  <2>5. RowsKept
    BY <1>2 DEF UpdateRead, RowsKept
  <2>. QED
    BY <2>4, <2>5, KeptIsEnough
<1>3. ASSUME SaveUser(q) PROVE LockEarned'
  <2>1. reqs[q].user \in Users /\ reqs[q].row \in User
    BY <1>3, SaveReqAt DEF SaveUser, SaveReq
  <2>2. Agrees(reqs[q].row)
    BY <1>3, LockEarnedRows DEF SaveUser
  <2>3. Agrees([reqs[q].row EXCEPT !.active = TRUE])
    BY <2>1, <2>2 DEF Agrees, User
  <2>4. RowsKept
    BY <1>3, <2>1, <2>2, <2>3 DEF SaveUser, RowsKept, AccountsTypeOK
  <2>5. CopiesKept
    BY <1>3, ReturnKeeps DEF SaveUser
  <2>. QED
    BY <2>4, <2>5, KeptIsEnough
<1>. QED
  BY <1>1, <1>2, <1>3

\* Users that come and go
LEMMA CreateAndDeleteKeepLocks ==
    ASSUME AccountsTypeOK, LockEarned, NEW q \in Reqs,
           CreateInsert(q) \/ CreatePerson(q) \/ Rollback(q) \/ DeleteCount(q) \/ DeleteUser(q)
    PROVE  LockEarned'
<1>1. ASSUME CreateInsert(q) PROVE LockEarned'
  <2>1. Agrees(NewUser(reqs[q].role))
    BY NewUserAgrees
  <2>2. RowsKept
    BY <1>1, <2>1 DEF CreateInsert, RowsKept, AccountsTypeOK
  <2>3. CopiesKept
    BY <1>1, GoKeeps, ReturnKeeps DEF CreateInsert, Stage
  <2>. QED
    BY <2>2, <2>3, KeptIsEnough
<1>2. ASSUME CreatePerson(q) PROVE LockEarned'
  <2>1. RowsKept
    BY <1>2 DEF CreatePerson, RowsKept
  <2>2. CopiesKept
    BY <1>2, GoKeeps, ReturnKeeps DEF CreatePerson, Stage
  <2>. QED
    BY <2>1, <2>2, KeptIsEnough
<1>3. ASSUME Rollback(q) PROVE LockEarned'
  <2>1. RowsKept
    BY <1>3 DEF Rollback, RowsKept, AccountsTypeOK
  <2>2. CopiesKept
    BY <1>3, ReturnKeeps DEF Rollback
  <2>. QED
    BY <2>1, <2>2, KeptIsEnough
<1>4. ASSUME DeleteCount(q) PROVE LockEarned'
  <2>1. RowsKept
    BY <1>4 DEF DeleteCount, RowsKept
  <2>2. CopiesKept
    BY <1>4, GoKeeps, ReturnKeeps DEF DeleteCount, Stage
  <2>. QED
    BY <2>1, <2>2, KeptIsEnough
<1>5. ASSUME DeleteUser(q) PROVE LockEarned'
  <2>1. RowsKept
    BY <1>5 DEF DeleteUser, RowsKept, AccountsTypeOK
  <2>2. CopiesKept
    BY <1>5, ReturnKeeps DEF DeleteUser
  <2>. QED
    BY <2>1, <2>2, KeptIsEnough
<1>. QED
  BY <1>1, <1>2, <1>3, <1>4, <1>5

\* Requests that only read accounts, and those about roles
LEMMA ReadsKeepLocks ==
    ASSUME AccountsTypeOK, LockEarned, NEW q \in Reqs,
           \/ IssueToken(q) \/ SaveRole(q)
           \/ \E t \in tokens :
                \/ RefreshRead(q, t)
                \/ \E u \in Users : DeleteRead(q, t, u)
                \/ \E u \in Users, r \in Roles : CreateRead(q, t, u, r)
                \/ \E r \in Roles, n \in RoleNames, perms \in PermSets :
                      RoleUpdateRead(q, t, r, n, perms)
    PROVE  LockEarned'
<1>1. RowsKept
  BY DEF RowsKept, IssueToken, SaveRole, RefreshRead, DeleteRead, CreateRead, RoleUpdateRead
<1>2. ASSUME IssueToken(q) \/ SaveRole(q) PROVE CopiesKept
  BY <1>2, ReturnKeeps DEF IssueToken, SaveRole
<1>3. ASSUME NEW t \in tokens, RefreshRead(q, t) PROVE CopiesKept
  BY <1>3, GoKeeps DEF RefreshRead, Stage
<1>4. ASSUME NEW t \in tokens, NEW u \in Users, DeleteRead(q, t, u) PROVE CopiesKept
  <2>1. PICK s \in {"count", "delete"} : Go(q, s, u, users[u].role)
    BY <1>4 DEF DeleteRead
  <2>. QED
    BY <2>1, GoKeeps DEF Stage
<1>5. ASSUME NEW t \in tokens, NEW u \in Users, NEW r \in Roles, CreateRead(q, t, u, r)
      PROVE  CopiesKept
  BY <1>5, GoKeeps DEF CreateRead, Stage
<1>6. ASSUME NEW t \in tokens, NEW r \in Roles, NEW n \in RoleNames, NEW perms \in PermSets,
             RoleUpdateRead(q, t, r, n, perms)
      PROVE  CopiesKept
  <2>1. reqs'[q].at = "saveRole" /\ \A p \in Reqs \ {q} : reqs'[p] = reqs[p]
    BY <1>6 DEF RoleUpdateRead, AccountsTypeOK
  <2>. QED
    BY <2>1 DEF CopiesKept, At
<1>7. CopiesKept
  BY <1>2, <1>3, <1>4, <1>5, <1>6
<1>. QED
  BY <1>1, <1>7, KeptIsEnough

\* The clock and restarts
LEMMA TimeKeepsLocks ==
    ASSUME AccountsTypeOK, LockEarned, ClockTick \/ Restart
    PROVE  LockEarned'
<1>1. ASSUME ClockTick PROVE LockEarned'
  <2>1. \A u \in Users : Exists(u) => Agrees(Elapse(users[u]))
    BY RowOf, ElapseAgrees, LockEarnedRows
  <2>2. RowsKept
    BY <1>1, <2>1 DEF ClockTick, RowsKept
  <2>3. ASSUME NEW q \in Reqs, At(q, "save")
        PROVE  Agrees([reqs[q] EXCEPT !.row = Elapse(@)].row)
    <3>1. reqs[q] \in SaveReq
      BY <2>3, SaveReqAt
    <3>2. [reqs[q] EXCEPT !.row = Elapse(@)].row = Elapse(reqs[q].row)
      BY <3>1 DEF SaveReq
    <3>3. Agrees(Elapse(reqs[q].row))
      BY <2>3, <3>1, ElapseAgrees, LockEarnedRows DEF SaveReq
    <3>. QED
      BY <3>2, <3>3
  <2>4. CopiesKept
    BY <1>1, <2>3 DEF ClockTick, CopiesKept
  <2>. QED
    BY <2>2, <2>4, KeptIsEnough
<1>2. ASSUME Restart PROVE LockEarned'
  <2>1. RowsKept
    BY <1>2, NewUserAgrees DEF Restart, RowsKept, AccountsTypeOK
  <2>2. CopiesKept
    BY <1>2 DEF Restart, CopiesKept, At
  <2>. QED
    BY <2>1, <2>2, KeptIsEnough
<1>. QED
  BY <1>1, <1>2

\* The first administrator is not locked.
LEMMA InitLockEarned == AccountsInit => LockEarned
<1>. SUFFICES ASSUME AccountsInit PROVE LockEarned
  OBVIOUS
<1>1. \A u \in Users : Exists(u) => Agrees(users[u])
  BY NewUserAgrees DEF AccountsInit, Bootstrapped, Exists
<1>2. \A q \in Reqs : ~At(q, "save")
  BY DEF AccountsInit, Bootstrapped, At
<1>. QED
  BY <1>1, <1>2, LockEarnedRows

\* Every step keeps LockEarned.
LEMMA StepLockEarned ==
    AccountsTypeOK /\ LockEarned /\ [AccountsNext]_accountVars => LockEarned'
<1>. SUFFICES ASSUME AccountsTypeOK, LockEarned, [AccountsNext]_accountVars
              PROVE  LockEarned'
  OBVIOUS
<1>1. ASSUME NEW q \in Reqs, Proceed(q) PROVE LockEarned'
  BY <1>1, LoginKeepsLocks, SavesKeepLocks, CreateAndDeleteKeepLocks, ReadsKeepLocks
     DEF Proceed
<1>2. ASSUME NEW q \in Reqs, Request(q) PROVE LockEarned'
  BY <1>2, LoginKeepsLocks, SavesKeepLocks, ReadsKeepLocks DEF Request
<1>3. CASE UNCHANGED <<users, reqs>>
  BY <1>3, KeptIsEnough DEF RowsKept, CopiesKept
<1>4. RoleRequest => UNCHANGED <<users, reqs>>
  BY DEF RoleRequest, RoleCreate, RoleDelete
<1>5. ASSUME NEW t \in tokens, TokenExpires(t) PROVE UNCHANGED <<users, reqs>>
  BY <1>5 DEF TokenExpires
<1>6. CASE ClockTick \/ Restart
  BY <1>6, TimeKeepsLocks
<1>. QED
  BY <1>1, <1>2, <1>3, <1>4, <1>5, <1>6 DEF AccountsNext, accountVars

\* No account is locked without MaxFailedAttempts failures on record, and no copy
\* of a row that a handler will write back says otherwise.
THEOREM LockEarnedHolds == AccountsSpec => []LockEarned
<1>1. AccountsSpec => []AccountsTypeOK
  BY AccountsTypeCorrect
<1>. QED
  BY <1>1, InitLockEarned, StepLockEarned, PTL DEF AccountsSpec
=============================================================================
