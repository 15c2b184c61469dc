------------------------- MODULE PartyAccessProofs -------------------------
(***************************************************************************)
(* Proofs about PartyAccess, for every graph and every set of roles: an    *)
(* answer about projects neither loses a role that the user had all        *)
(* through the request nor invents one.                                    *)
(***************************************************************************)
EXTENDS PartyAccess, PartyGraphProofs

Ranks == -1 .. 2

-----------------------------------------------------------------------------
(* Ranks and permissions *)

\* A set of ranks that is not empty has a greatest one, and Max chooses it.
LEMMA MaxOfRanks ==
    ASSUME NEW S \in SUBSET Ranks, S # {}
    PROVE  Max(S) \in S /\ \A y \in S : y <= Max(S)
<1>1. \E x \in S : \A y \in S : x >= y
  <2>1. CASE 2 \in S
    BY <2>1 DEF Ranks
  <2>2. CASE 2 \notin S /\ 1 \in S
    BY <2>2 DEF Ranks
  <2>3. CASE 2 \notin S /\ 1 \notin S /\ 0 \in S
    BY <2>3 DEF Ranks
  <2>4. CASE 2 \notin S /\ 1 \notin S /\ 0 \notin S
    <3>1. \A y \in S : y = -1
      BY <2>4 DEF Ranks
    <3>. QED
      BY <3>1
  <2>. QED
    BY <2>1, <2>2, <2>3, <2>4
<1>. QED
  BY <1>1 DEF Max, Ranks

\* The lesser and the greater of two ranks.
LEMMA MinOfTwo ==
    ASSUME NEW x \in Ranks, NEW y \in Ranks
    PROVE  Min({x, y}) \in Ranks /\ Min({x, y}) <= x /\ Min({x, y}) <= y
<1>1. \E z \in {x, y} : \A w \in {x, y} : z =< w
  BY DEF Ranks
<1>. QED
  BY <1>1 DEF Min, Ranks

\* The same of the greater one.
LEMMA MaxOfTwo ==
    ASSUME NEW x \in Ranks, NEW y \in Ranks
    PROVE  Max({x, y}) \in Ranks /\ x <= Max({x, y}) /\ y <= Max({x, y})
<1>1. {x, y} \in SUBSET Ranks /\ {x, y} # {}
  OBVIOUS
<1>. QED
  BY <1>1, MaxOfRanks

\* rankRole knows four ranks.
LEMMA RankRoleType ==
    ASSUME NEW role
    PROVE  rankRole(role) \in Ranks
BY DEF rankRole, NoRank, Ranks

\* The rank of a set of roles bounds the ranks of its members, and is that of one
\* of them unless it is NoRank.
LEMMA RankBounds ==
    ASSUME NEW roles
    PROVE  /\ Rank(roles) \in Ranks
           /\ \A r \in roles : rankRole(r) <= Rank(roles)
           /\ Rank(roles) = NoRank \/ \E r \in roles : rankRole(r) = Rank(roles)
<1>. DEFINE S == {NoRank} \cup {rankRole(r) : r \in roles}
<1>1. S \in SUBSET Ranks /\ S # {}
  BY RankRoleType DEF NoRank, Ranks
<1>2. Rank(roles) = Max(S)
  BY DEF Rank
<1>3. Max(S) \in S /\ \A y \in S : y <= Max(S)
  <2>. HIDE DEF S
  <2>. QED
    BY <1>1, MaxOfRanks
<1>. QED
  BY <1>1, <1>2, <1>3

\* More roles, no lower rank.
LEMMA RankMonotone ==
    ASSUME NEW less, NEW more, less \subseteq more
    PROVE  Rank(less) <= Rank(more)
<1>1. CASE Rank(less) = NoRank
  BY <1>1, RankBounds DEF NoRank, Ranks
<1>2. CASE Rank(less) # NoRank
  BY <1>2, RankBounds
<1>. QED
  BY <1>1, <1>2

\* A role of higher rank grants what a lower one grants, and a role without rank
\* grants nothing.
LEMMA HigherGrantsMore ==
    ASSUME NEW low, NEW high, NEW permission \in projectRolePermissions(low),
           rankRole(low) <= rankRole(high)
    PROVE  permission \in projectRolePermissions(high)
BY DEF rankRole, projectRolePermissions, NoRank, Permissions

\* Only the roles of projects grant anything.
LEMMA OnlyProjectRolesGrant ==
    ASSUME NEW role \in Roles, NEW permission \in projectRolePermissions(role)
    PROVE  role \in ProjectRoles /\ 0 <= rankRole(role)
BY DEF rankRole, projectRolePermissions, NoRank, Roles

-----------------------------------------------------------------------------
(* The inductive invariant *)

RoleRanks == [Projects -> Ranks]

\* What the request has read at each of its steps.
ReaderOK ==
    \/ reader = Waiting
    \/ reader \in [at : {"person"}, ask : Asks]
    \/ reader \in [at : {"ancestors"}, ask : Asks, from : SUBSET Parties]
    \/ reader \in [at : {"roles"}, ask : Asks, roles : RoleRanks]
    \/ reader \in [at : {"done"}, ask : Asks, roles : RoleRanks]
    \/ reader \in [at : {"done"}, ask : Asks, allowed : BOOLEAN]

History == [least : [Parties \X Projects -> Ranks],
            most : [Parties \X Projects -> Ranks],
            reached : SUBSET Parties]

Reading == reader.at \in {"person", "ancestors", "roles"}

\* While the request reads, its history covers the present.
SeenCoversNow ==
    /\ \A a \in Parties, p \in Projects :
          seen.least[<<a, p>>] <= Through(a, p) /\ Has(a, p) <= seen.most[<<a, p>>]
    /\ Reachable \subseteq seen.reached

\* The parties that were read are some that the user reached, and all through which
\* the user had a role all the time.
AncestorsFit ==
    /\ reader.from \subseteq seen.reached
    /\ \A a \in Parties, p \in Projects : seen.least[<<a, p>>] # NoRank => a \in reader.from

\* The ranks that were read lie between the two histories.
RolesFit ==
    \A p \in Projects :
        /\ \A a \in Parties : seen.least[<<a, p>>] <= reader.roles[p]
        /\ \/ reader.roles[p] = NoRank
           \/ \E a \in seen.reached : reader.roles[p] <= seen.most[<<a, p>>]

\* So does a decision on a permission.
DecisionFits ==
    /\ \A a \in Parties :
          reader.ask.permission \in PermissionsUpTo(seen.least[<<a, reader.ask.project>>])
             => reader.allowed
    /\ reader.allowed =>
          \E a \in seen.reached :
             reader.ask.permission \in PermissionsUpTo(seen.most[<<a, reader.ask.project>>])

AccessInv ==
    /\ ReaderOK
    /\ reader.at # "idle" => seen \in History
    /\ Reading => SeenCoversNow
    /\ reader.at = "ancestors" => AncestorsFit
    /\ reader.at = "roles" \/ Answered("roles") => RolesFit
    /\ Answered("allowed") => DecisionFits

-----------------------------------------------------------------------------
(* The history *)

\* The ranks of the present are ranks.
LEMMA HasType ==
    \A a, p : Has(a, p) \in Ranks /\ Through(a, p) \in Ranks
<1>. TAKE a, p
<1>1. Has(a, p) \in Ranks
  BY RankBounds DEF Has
<1>. QED
  BY <1>1 DEF Through, NoRank, Ranks

\* What is true now, as a history of its own.
NowIsShown ==
    /\ SeenNow \in History
    /\ \A a \in Parties, p \in Projects :
          SeenNow.least[<<a, p>>] = Through(a, p) /\ SeenNow.most[<<a, p>>] = Has(a, p)
    /\ SeenNow.reached = Reachable

\* It is one in every state.
LEMMA NowIsHistory == NowIsShown
<1>1. Reachable \in SUBSET Parties
  BY AccessAssumption DEF Reachable
<1>2. [x \in Parties \X Projects |-> Through(x[1], x[2])] \in [Parties \X Projects -> Ranks]
  BY HasType
<1>3. [x \in Parties \X Projects |-> Has(x[1], x[2])] \in [Parties \X Projects -> Ranks]
  BY HasType
<1>. QED
  BY <1>1, <1>2, <1>3 DEF NowIsShown, SeenNow, History

\* A longer history has no higher least rank, no lower greatest rank, and no fewer
\* parties.
LEMMA SinceWidens ==
    ASSUME NEW s \in History, NEW n \in History
    PROVE  /\ SeenSince(s, n) \in History
           /\ \A a \in Parties, p \in Projects :
                 /\ SeenSince(s, n).least[<<a, p>>] <= s.least[<<a, p>>]
                 /\ SeenSince(s, n).least[<<a, p>>] <= n.least[<<a, p>>]
                 /\ s.most[<<a, p>>] <= SeenSince(s, n).most[<<a, p>>]
                 /\ n.most[<<a, p>>] <= SeenSince(s, n).most[<<a, p>>]
           /\ s.reached \cup n.reached = SeenSince(s, n).reached
<1>. DEFINE D == Parties \X Projects
            low == [x \in D |-> Min({s.least[x], n.least[x]})]
            high == [x \in D |-> Max({s.most[x], n.most[x]})]
<1>1. \A x \in D : s.least[x] \in Ranks /\ n.least[x] \in Ranks
                /\ s.most[x] \in Ranks /\ n.most[x] \in Ranks
  BY DEF History
<1>2. \A x \in D : low[x] \in Ranks /\ low[x] <= s.least[x] /\ low[x] <= n.least[x]
  BY <1>1, MinOfTwo
<1>3. \A x \in D : high[x] \in Ranks /\ s.most[x] <= high[x] /\ n.most[x] <= high[x]
  BY <1>1, MaxOfTwo
<1>4. low \in [D -> Ranks] /\ high \in [D -> Ranks]
  BY <1>2, <1>3
<1>5. SeenSince(s, n) = [least |-> low, most |-> high, reached |-> s.reached \cup n.reached]
  BY DEF SeenSince
<1>6. s.reached \cup n.reached \in SUBSET Parties
  BY DEF History
<1>. HIDE DEF low, high
<1>. QED
  BY <1>2, <1>3, <1>4, <1>5, <1>6 DEF History

\* A role that grants a permission is among the roles up to a rank, whatever the
\* history did to that rank.
LEMMA PermissionsMonotone ==
    ASSUME NEW low \in Ranks, NEW high \in Ranks, low <= high
    PROVE  PermissionsUpTo(low) \subseteq PermissionsUpTo(high)
<1>1. \A r : rankRole(r) <= low => rankRole(r) <= high
  BY RankRoleType DEF Ranks
<1>. QED
  BY <1>1 DEF PermissionsUpTo

-----------------------------------------------------------------------------
(* The steps of the request *)

\* No request, nothing to show.
LEMMA InitAccess == AccessInit => AccessInv
BY DEF AccessInit, Waiting, AccessInv, ReaderOK, Reading, Answered

\* What a reader without the graph changing leaves of the history.
LEMMA UnreadCovers ==
    ASSUME Unread, UNCHANGED seen, SeenCoversNow
    PROVE  SeenCoversNow'
BY DEF Unread, SeenCoversNow, Through, Has, Reachable, Live

\* The first step: a history begins.
LEMMA LookUpPersonKeeps ==
    ASSUME AccessInv, NEW ask \in Asks, LookUpPerson(ask)
    PROVE  AccessInv'
<1>1. /\ seen' \in History
      /\ \A a \in Parties, p \in Projects :
            seen'.least[<<a, p>>] = Through(a, p) /\ seen'.most[<<a, p>>] = Has(a, p)
      /\ seen'.reached = Reachable
  BY NowIsHistory DEF NowIsShown, LookUpPerson
<1>2. CASE Live(Person)
  <2>1. reader' = [at |-> "person", ask |-> ask]
    BY <1>2 DEF LookUpPerson
  <2>2. SeenCoversNow'
    <3>1. /\ \A a, p : Through(a, p)' = Through(a, p) /\ Has(a, p)' = Has(a, p)
          /\ Reachable' = Reachable
      BY DEF LookUpPerson, Unread, Through, Has, Reachable, Live
    <3>2. \A a, p : Through(a, p) <= Through(a, p) /\ Has(a, p) <= Has(a, p)
      BY HasType DEF Ranks
    <3>. QED
      BY <1>1, <3>1, <3>2 DEF SeenCoversNow
  <2>. QED
    BY <1>1, <2>1, <2>2 DEF AccessInv, ReaderOK, Reading, Answered
<1>3. CASE ~Live(Person)
  <2>1. reader' = [at |-> "done", ask |-> ask, roles |-> Nowhere]
    BY <1>3 DEF LookUpPerson
  <2>2. Nowhere \in RoleRanks /\ \A p \in Projects : Nowhere[p] = NoRank
    BY DEF Nowhere, RoleRanks, NoRank, Ranks
  <2>3. \A a \in Parties, p \in Projects : seen'.least[<<a, p>>] = NoRank
    BY <1>1, <1>3 DEF Through
  <2>4. RolesFit'
    BY <2>1, <2>2, <2>3 DEF RolesFit, NoRank
  <2>. QED
    BY <1>1, <2>1, <2>2, <2>4 DEF AccessInv, ReaderOK, Reading, Answered
<1>. QED
  BY <1>2, <1>3

\* The closure is read: what the user reaches now has been reached, and a party that
\* the user does not reach now has not given a role all the time.
LEMMA ReadAncestorsKeeps ==
    ASSUME AccessInv, ReadAncestors
    PROVE  AccessInv'
<1>1. reader \in [at : {"person"}, ask : Asks] /\ seen \in History /\ SeenCoversNow
  BY DEF ReadAncestors, AccessInv, ReaderOK, Waiting, Reading
<1>2. reader' = [at |-> "ancestors", ask |-> reader.ask, from |-> Reachable]
      /\ seen' = seen /\ Unread
  BY DEF ReadAncestors
<1>3. Reachable \in SUBSET Parties
  BY AccessAssumption DEF Reachable
<1>4. AncestorsFit'
  <2>1. ASSUME NEW a \in Parties, NEW p \in Projects, seen.least[<<a, p>>] # NoRank
        PROVE  a \in Reachable
    <3>1. seen.least[<<a, p>>] \in Ranks /\ seen.least[<<a, p>>] <= Through(a, p)
      BY <1>1 DEF SeenCoversNow, History
    <3>2. Through(a, p) # NoRank
      BY <2>1, <3>1 DEF NoRank, Ranks
    <3>. QED
      BY <3>2 DEF Through
  <2>. QED
    BY <1>1, <1>2, <2>1 DEF AncestorsFit, SeenCoversNow
<1>5. SeenCoversNow'
  BY <1>1, <1>2, UnreadCovers
<1>. QED
  BY <1>1, <1>2, <1>3, <1>4, <1>5 DEF AccessInv, ReaderOK, Reading, Answered

\* A relationship to a project is a membership of it.
LEMMA ToProject ==
    ASSUME Inv, NEW r \in relationships, NEW p \in Projects, r.to = p
    PROVE  r.name = "project_member" /\ r.role \in Roles /\ r.from \in Parties
BY DEF Inv, TypeOK, KindsKept, Projects, Relationship

\* What a party has in a project is among what GetProjectRoles reads for it.
LEMMA HasIsRead ==
    ASSUME Inv, NEW p \in Projects, NEW from, NEW a \in from
    PROVE  {r.role : r \in {r \in relationships : r.from = a /\ r.to = p}}
              \subseteq GetProjectRoles(from, p)
BY ToProject DEF GetProjectRoles

\* What GetProjectRoles reads, some party it was asked for has.
LEMMA ReadIsHad ==
    ASSUME Inv, NEW p \in Projects, NEW from, NEW role \in GetProjectRoles(from, p)
    PROVE  /\ role \in Roles
           /\ \E a \in from : rankRole(role) <= Has(a, p)
<1>1. PICK r \in relationships : r.from \in from /\ r.to = p /\ r.role = role
  BY DEF GetProjectRoles
<1>2. role \in Roles
  BY <1>1, ToProject
<1>3. rankRole(role) <= Has(r.from, p)
  BY <1>1, RankBounds DEF Has
<1>. QED
  BY <1>1, <1>2, <1>3

\* The roles are read.
LEMMA ReadMembershipsKeeps ==
    ASSUME Inv, AccessInv, ReadMemberships
    PROVE  AccessInv'
<1>. DEFINE roles == [p \in Projects |-> IF Live(p) THEN Rank(GetProjectRoles(reader.from, p))
                                         ELSE NoRank]
<1>1. /\ reader \in [at : {"ancestors"}, ask : Asks, from : SUBSET Parties]
      /\ seen \in History /\ SeenCoversNow /\ AncestorsFit
  BY DEF ReadMemberships, AccessInv, ReaderOK, Waiting, Reading
<1>2. reader' = [at |-> "roles", ask |-> reader.ask, roles |-> roles]
      /\ seen' = seen /\ Unread
  BY DEF ReadMemberships
<1>3. roles \in RoleRanks
  BY RankBounds DEF RoleRanks, NoRank, Ranks
<1>4. ASSUME NEW p \in Projects, NEW a \in Parties
      PROVE  seen.least[<<a, p>>] <= roles[p]
  <2>1. seen.least[<<a, p>>] \in Ranks /\ seen.least[<<a, p>>] <= Through(a, p)
    BY <1>1 DEF SeenCoversNow, History
  <2>2. CASE seen.least[<<a, p>>] = NoRank
    BY <1>3, <2>2 DEF RoleRanks, NoRank, Ranks
  <2>3. CASE seen.least[<<a, p>>] # NoRank
    <3>1. Through(a, p) # NoRank
      BY <2>1, <2>3 DEF NoRank, Ranks
    <3>2. Live(p) /\ Through(a, p) = Has(a, p)
      BY <3>1 DEF Through
    <3>3. a \in reader.from
      BY <1>1, <2>3 DEF AncestorsFit
    <3>4. Has(a, p) <= Rank(GetProjectRoles(reader.from, p))
      BY <3>3, HasIsRead, RankMonotone DEF Has
    <3>5. Has(a, p) \in Ranks /\ roles[p] \in Ranks
      BY <1>3, HasType DEF RoleRanks
    <3>. QED
      BY <2>1, <3>2, <3>4, <3>5 DEF Ranks
  <2>. QED
    BY <2>2, <2>3
<1>5. ASSUME NEW p \in Projects, roles[p] # NoRank
      PROVE  \E a \in seen.reached : roles[p] <= seen.most[<<a, p>>]
  <2>1. roles[p] = Rank(GetProjectRoles(reader.from, p))
    BY <1>5
  <2>2. PICK role \in GetProjectRoles(reader.from, p) : rankRole(role) = roles[p]
    BY <1>5, <2>1, RankBounds
  <2>3. PICK a \in reader.from : rankRole(role) <= Has(a, p)
    BY ReadIsHad
  <2>4. a \in seen.reached /\ a \in Parties
    BY <1>1 DEF AncestorsFit
  <2>5. Has(a, p) <= seen.most[<<a, p>>] /\ seen.most[<<a, p>>] \in Ranks
    BY <1>1, <2>4 DEF SeenCoversNow, History
  <2>6. Has(a, p) \in Ranks /\ roles[p] \in Ranks
    BY <1>3, HasType DEF RoleRanks
  <2>7. roles[p] <= seen.most[<<a, p>>]
    BY <2>2, <2>3, <2>5, <2>6 DEF Ranks
  <2>. QED
    BY <2>4, <2>7
<1>. HIDE DEF roles
<1>6. RolesFit'
  BY <1>2, <1>4, <1>5 DEF RolesFit
<1>7. SeenCoversNow'
  BY <1>1, <1>2, UnreadCovers
<1>. QED
  BY <1>1, <1>2, <1>3, <1>6, <1>7 DEF AccessInv, ReaderOK, Reading, Answered

\* Projects that are gone are left out: through none of them has the user had a role
\* all the time.
LEMMA FetchProjectsKeeps ==
    ASSUME AccessInv, FetchProjects
    PROVE  AccessInv'
<1>. DEFINE roles == [p \in Projects |-> IF Live(p) THEN reader.roles[p] ELSE NoRank]
<1>1. /\ reader \in [at : {"roles"}, ask : Asks, roles : RoleRanks]
      /\ seen \in History /\ SeenCoversNow /\ RolesFit
  BY DEF FetchProjects, AccessInv, ReaderOK, Waiting, Reading
<1>2. reader' = [at |-> "done", ask |-> reader.ask, roles |-> roles] /\ seen' = seen
  BY DEF FetchProjects
<1>3. roles \in RoleRanks
  BY <1>1 DEF RoleRanks, NoRank, Ranks
<1>4. ASSUME NEW p \in Projects, NEW a \in Parties
      PROVE  seen.least[<<a, p>>] <= roles[p]
  <2>1. CASE Live(p)
    BY <1>1, <2>1 DEF RolesFit
  <2>2. CASE ~Live(p)
    <3>1. Through(a, p) = NoRank /\ roles[p] = NoRank
      BY <2>2 DEF Through
    <3>. QED
      BY <1>1, <3>1 DEF SeenCoversNow
  <2>. QED
    BY <2>1, <2>2
<1>5. ASSUME NEW p \in Projects, roles[p] # NoRank
      PROVE  \E a \in seen.reached : roles[p] <= seen.most[<<a, p>>]
  BY <1>1, <1>5 DEF RolesFit
<1>. HIDE DEF roles
<1>6. RolesFit'
  BY <1>2, <1>4, <1>5 DEF RolesFit
<1>. QED
  BY <1>1, <1>2, <1>3, <1>6 DEF AccessInv, ReaderOK, Reading, Answered

\* RequireProjectPermission decides.
LEMMA CheckPermissionKeeps ==
    ASSUME Inv, AccessInv, CheckPermission
    PROVE  AccessInv'
<1>. DEFINE project == reader.ask.project
            permission == reader.ask.permission
            roles == GetProjectRoles(reader.from, project)
            allowed == \E role \in roles : permission \in projectRolePermissions(role)
<1>1. /\ reader \in [at : {"ancestors"}, ask : Asks, from : SUBSET Parties]
      /\ seen \in History /\ SeenCoversNow /\ AncestorsFit
  BY DEF CheckPermission, AccessInv, ReaderOK, Waiting, Reading
<1>2. reader' = [at |-> "done", ask |-> reader.ask, allowed |-> allowed] /\ seen' = seen
  BY DEF CheckPermission
<1>3. project \in Projects /\ reader.ask \in Asks
  BY <1>1, PartyAssumption DEF Asks, Projects
<1>4. ASSUME NEW a \in Parties, permission \in PermissionsUpTo(seen.least[<<a, project>>])
      PROVE  allowed
  <2>1. PICK low \in ProjectRoles : /\ rankRole(low) <= seen.least[<<a, project>>]
                                    /\ permission \in projectRolePermissions(low)
    BY <1>4 DEF PermissionsUpTo
  <2>2. 0 <= rankRole(low) /\ rankRole(low) \in Ranks
    BY <2>1, OnlyProjectRolesGrant, RankRoleType DEF Roles
  <2>3. seen.least[<<a, project>>] \in Ranks /\ Through(a, project) \in Ranks
    BY <1>1, <1>3, HasType DEF History
  <2>4. seen.least[<<a, project>>] <= Through(a, project)
    BY <1>1, <1>3 DEF SeenCoversNow
  <2>5. seen.least[<<a, project>>] # NoRank /\ Through(a, project) # NoRank
    BY <2>1, <2>2, <2>3, <2>4 DEF NoRank, Ranks
  <2>6. a \in reader.from
    BY <1>1, <1>3, <2>5 DEF AncestorsFit
  <2>7. Through(a, project) = Has(a, project)
    BY <2>5 DEF Through
  <2>8. PICK r \in relationships :
           r.from = a /\ r.to = project /\ rankRole(r.role) = Has(a, project)
    <3>. DEFINE had == {r.role : r \in {r \in relationships : r.from = a /\ r.to = project}}
    <3>1. Has(a, project) = Rank(had)
      BY DEF Has
    <3>2. \E role \in had : rankRole(role) = Rank(had)
      <4>. HIDE DEF had
      <4>. QED
        BY <2>5, <2>7, <3>1, RankBounds
    <3>. QED
      BY <3>1, <3>2
  <2>9. r.role \in roles
    BY <1>3, <2>6, <2>8, HasIsRead
  <2>10. rankRole(low) <= rankRole(r.role)
    BY <2>1, <2>2, <2>3, <2>4, <2>7, <2>8 DEF Ranks
  <2>11. permission \in projectRolePermissions(r.role)
    BY <2>1, <2>10, HigherGrantsMore
  <2>. QED
    BY <2>9, <2>11
<1>5. ASSUME allowed
      PROVE  \E a \in seen.reached : permission \in PermissionsUpTo(seen.most[<<a, project>>])
  <2>1. PICK role \in roles : permission \in projectRolePermissions(role)
    BY <1>5
  <2>2. role \in Roles
    BY <1>3, ReadIsHad
  <2>3. PICK a \in reader.from : rankRole(role) <= Has(a, project)
    BY <1>3, ReadIsHad
  <2>4. a \in seen.reached /\ a \in Parties
    BY <1>1 DEF AncestorsFit
  <2>5. Has(a, project) <= seen.most[<<a, project>>] /\ seen.most[<<a, project>>] \in Ranks
    BY <1>1, <1>3, <2>4 DEF SeenCoversNow, History
  <2>6. rankRole(role) \in Ranks /\ Has(a, project) \in Ranks
    BY RankRoleType, HasType
  <2>7. rankRole(role) <= seen.most[<<a, project>>]
    BY <2>3, <2>5, <2>6 DEF Ranks
  <2>8. role \in ProjectRoles
    BY <2>1, <2>2, OnlyProjectRolesGrant
  <2>9. permission \in PermissionsUpTo(seen.most[<<a, project>>])
    BY <2>1, <2>7, <2>8 DEF PermissionsUpTo
  <2>. QED
    BY <2>4, <2>9
<1>6. allowed \in BOOLEAN
  OBVIOUS
<1>. HIDE DEF allowed
<1>7. DecisionFits'
  BY <1>2, <1>4, <1>5 DEF DecisionFits
<1>. QED
  BY <1>1, <1>2, <1>3, <1>6, <1>7 DEF AccessInv, ReaderOK, Reading, Answered

\* The request ends and its history with it.
LEMMA EndRequestKeeps ==
    ASSUME AccessInv, EndRequest
    PROVE  AccessInv'
BY DEF EndRequest, Waiting, AccessInv, ReaderOK, Reading, Answered
-----------------------------------------------------------------------------
(* The steps of the graph *)

\* Whatever happens to the graph, the history takes it in, and what was read stays
\* between its two sides.
LEMMA GraphStepKeeps ==
    ASSUME AccessInv, GraphStep
    PROVE  AccessInv'
<1>1. reader' = reader
  BY DEF GraphStep
<1>2. CASE reader.at \in {"idle", "done"}
  <2>1. seen' = seen
    BY <1>2 DEF GraphStep
  <2>. QED
    BY <1>1, <1>2, <2>1 DEF AccessInv, ReaderOK, Reading, Answered, RolesFit, DecisionFits
<1>3. CASE Reading
  <2>. DEFINE now == SeenNow'
  <2>1. seen \in History
    BY <1>3 DEF AccessInv, Reading
  <2>2. seen' = SeenSince(seen, now)
    BY <1>3 DEF GraphStep, Reading
  <2>3. /\ now \in History
        /\ \A a \in Parties, p \in Projects :
              now.least[<<a, p>>] = Through(a, p)' /\ now.most[<<a, p>>] = Has(a, p)'
        /\ now.reached = Reachable'
    <3>1. NowIsShown'
      BY NowIsHistory, PTL
    <3>. QED
      BY <3>1 DEF NowIsShown
  <2>. HIDE DEF now
  <2>4. /\ seen' \in History
        /\ \A a \in Parties, p \in Projects :
              /\ seen'.least[<<a, p>>] <= seen.least[<<a, p>>]
              /\ seen'.least[<<a, p>>] <= now.least[<<a, p>>]
              /\ seen.most[<<a, p>>] <= seen'.most[<<a, p>>]
              /\ now.most[<<a, p>>] <= seen'.most[<<a, p>>]
        /\ seen.reached \cup now.reached = seen'.reached
    BY <2>1, <2>2, <2>3, SinceWidens
  <2>5. SeenCoversNow'
    BY <2>3, <2>4 DEF SeenCoversNow
  <2>6. ASSUME reader.at = "ancestors"
        PROVE  AncestorsFit'
    <3>1. AncestorsFit
      BY <2>6 DEF AccessInv
    <3>2. ASSUME NEW a \in Parties, NEW p \in Projects, seen'.least[<<a, p>>] # NoRank
          PROVE  a \in reader.from
      <4>1. seen.least[<<a, p>>] \in Ranks /\ seen'.least[<<a, p>>] \in Ranks
        BY <2>1, <2>4 DEF History
      <4>2. seen.least[<<a, p>>] # NoRank
        BY <2>4, <3>2, <4>1 DEF NoRank, Ranks
      <4>. QED
        BY <3>1, <4>2 DEF AncestorsFit
    <3>. QED
      BY <1>1, <2>4, <3>1, <3>2 DEF AncestorsFit
  <2>7. ASSUME reader.at = "roles"
        PROVE  RolesFit'
    <3>1. RolesFit /\ reader.roles \in RoleRanks
      BY <2>7 DEF AccessInv, ReaderOK, Waiting
    <3>2. ASSUME NEW p \in Projects, NEW a \in Parties
          PROVE  seen'.least[<<a, p>>] <= reader.roles[p]
      <4>1. /\ seen.least[<<a, p>>] \in Ranks /\ seen'.least[<<a, p>>] \in Ranks
            /\ reader.roles[p] \in Ranks
        BY <2>1, <2>4, <3>1 DEF History, RoleRanks
      <4>2. /\ seen'.least[<<a, p>>] <= seen.least[<<a, p>>]
            /\ seen.least[<<a, p>>] <= reader.roles[p]
        BY <2>4, <3>1 DEF RolesFit
      <4>. QED
        BY <4>1, <4>2 DEF Ranks
    <3>3. ASSUME NEW p \in Projects, reader.roles[p] # NoRank
          PROVE  \E a \in seen'.reached : reader.roles[p] <= seen'.most[<<a, p>>]
      <4>1. PICK a \in seen.reached : reader.roles[p] <= seen.most[<<a, p>>]
        BY <3>1, <3>3 DEF RolesFit
      <4>2. a \in Parties /\ a \in seen'.reached
        BY <2>1, <2>4 DEF History
      <4>3. /\ seen.most[<<a, p>>] \in Ranks /\ seen'.most[<<a, p>>] \in Ranks
            /\ reader.roles[p] \in Ranks
        BY <2>1, <2>4, <3>1, <4>2 DEF History, RoleRanks
      <4>4. seen.most[<<a, p>>] <= seen'.most[<<a, p>>]
        BY <2>4, <4>2
      <4>5. reader.roles[p] <= seen'.most[<<a, p>>]
        BY <4>1, <4>3, <4>4 DEF Ranks
      <4>. QED
        BY <4>2, <4>5
    <3>. QED
      BY <1>1, <3>2, <3>3 DEF RolesFit
  <2>. QED
    BY <1>1, <1>3, <2>4, <2>5, <2>6, <2>7 DEF AccessInv, ReaderOK, Reading, Answered
<1>. QED
  BY <1>2, <1>3 DEF AccessInv, ReaderOK, Reading, Waiting

\* Stuttering steps.
LEMMA StutterKeepsAccess ==
    ASSUME AccessInv, UNCHANGED accessVars
    PROVE  AccessInv'
BY DEF AccessInv, accessVars, ReaderOK, Reading, SeenCoversNow, Through, Has, Reachable,
       Live, AncestorsFit, RolesFit, DecisionFits, Answered
-----------------------------------------------------------------------------
(* The theorems *)

\* Requests only read: with them, the graph still behaves as PartyGraph says.
THEOREM AccessKeepsGraph == AccessSpec => Spec
<1>1. AccessInit => Init
  BY DEF AccessInit
<1>2. [ReaderStep \/ GraphStep]_accessVars => [Next]_vars
  BY DEF ReaderStep, GraphStep, LookUpPerson, ReadAncestors, ReadMemberships,
         FetchProjects, CheckPermission, EndRequest, Unread, accessVars, vars
<1>. QED
  BY <1>1, <1>2, PTL DEF AccessSpec, Spec

\* The invariant of requests, from that of the graph.
THEOREM AccessInvariance == AccessSpec => []AccessInv
<1>1. Inv /\ AccessInv /\ [ReaderStep \/ GraphStep]_accessVars => AccessInv'
  <2>. SUFFICES ASSUME Inv, AccessInv, [ReaderStep \/ GraphStep]_accessVars
                PROVE  AccessInv'
    OBVIOUS
  <2>1. CASE ReaderStep
    BY <2>1, LookUpPersonKeeps, ReadAncestorsKeeps, ReadMembershipsKeeps,
       FetchProjectsKeeps, CheckPermissionKeeps, EndRequestKeeps DEF ReaderStep
  <2>2. CASE GraphStep
    BY <2>2, GraphStepKeeps
  <2>3. CASE UNCHANGED accessVars
    BY <2>3, StutterKeepsAccess
  <2>. QED
    BY <2>1, <2>2, <2>3
<1>2. AccessSpec => []Inv
  BY AccessKeepsGraph, Invariance, PTL
<1>. QED
  BY <1>1, <1>2, InitAccess, PTL DEF AccessSpec

\* A role that the user has all through a request is not lost in its answer, however
\* groups, members and roles change between its statements.
THEOREM KeepsAccessHolds == AccessSpec => []KeepsAccess
<1>1. AccessInv => KeepsAccess
  <2>. SUFFICES ASSUME AccessInv, NEW a \in Parties, NEW p \in Projects
                PROVE  /\ Answered("roles") => reader.roles[p] >= seen.least[<<a, p>>]
                       /\ /\ Answered("allowed") /\ p = reader.ask.project
                          /\ reader.ask.permission \in PermissionsUpTo(seen.least[<<a, p>>])
                          => reader.allowed
    BY DEF KeepsAccess
  <2>1. ASSUME Answered("roles")
        PROVE  reader.roles[p] >= seen.least[<<a, p>>]
    BY <2>1 DEF AccessInv, RolesFit
  <2>2. ASSUME Answered("allowed"), p = reader.ask.project,
               reader.ask.permission \in PermissionsUpTo(seen.least[<<a, p>>])
        PROVE  reader.allowed
    BY <2>2 DEF AccessInv, DecisionFits
  <2>. QED
    BY <2>1, <2>2
<1>. QED
  BY <1>1, AccessInvariance, PTL

\* No role and no permission is answered that was not given during the request to a
\* party that the user was, or was in, during the request.
THEOREM InventsNoAccessHolds == AccessSpec => []InventsNoAccess
<1>1. AccessInv => InventsNoAccess
  <2>. SUFFICES ASSUME AccessInv, NEW p \in Projects, reader.at = "done"
                PROVE  LET most == Max({NoRank} \cup {seen.most[<<a, p>>] : a \in seen.reached})
                       IN  /\ Answered("roles") => reader.roles[p] <= most
                           /\ Answered("allowed") /\ p = reader.ask.project /\ reader.allowed
                                 => reader.ask.permission \in PermissionsUpTo(most)
    BY DEF InventsNoAccess, Answered
  <2>. DEFINE S == {NoRank} \cup {seen.most[<<a, p>>] : a \in seen.reached}
              most == Max(S)
  <2>1. seen \in History
    BY DEF AccessInv
  <2>2. S \in SUBSET Ranks /\ S # {}
    <3>1. \A a \in seen.reached : seen.most[<<a, p>>] \in Ranks
      <4>. TAKE a \in seen.reached
      <4>1. <<a, p>> \in Parties \X Projects
        BY <2>1 DEF History
      <4>. QED
        BY <2>1, <4>1 DEF History
    <3>2. NoRank \in Ranks
      BY DEF NoRank, Ranks
    <3>. QED
      BY <3>1, <3>2
  <2>3. most \in Ranks /\ \A y \in S : y <= most
    <3>. HIDE DEF S
    <3>. QED
      BY <2>2, MaxOfRanks
  <2>4. \A a \in seen.reached : seen.most[<<a, p>>] \in Ranks /\ seen.most[<<a, p>>] <= most
    BY <2>2, <2>3
  <2>5. NoRank <= most
    BY <2>3
  <2>. HIDE DEF most
  <2>6. ASSUME Answered("roles")
        PROVE  reader.roles[p] <= most
    <3>1. RolesFit /\ reader.roles \in RoleRanks
      BY <2>6 DEF AccessInv, Answered, ReaderOK, Waiting
    <3>2. reader.roles[p] \in Ranks
      BY <3>1 DEF RoleRanks
    <3>3. CASE reader.roles[p] = NoRank
      BY <2>5, <3>3
    <3>4. CASE reader.roles[p] # NoRank
      <4>1. PICK a \in seen.reached : reader.roles[p] <= seen.most[<<a, p>>]
        BY <3>1, <3>4 DEF RolesFit
      <4>2. seen.most[<<a, p>>] \in Ranks /\ seen.most[<<a, p>>] <= most
        BY <2>4
      <4>. QED
        BY <2>3, <3>2, <4>1, <4>2 DEF Ranks
    <3>. QED
      BY <3>3, <3>4
  <2>7. ASSUME Answered("allowed"), p = reader.ask.project, reader.allowed
        PROVE  reader.ask.permission \in PermissionsUpTo(most)
    <3>1. PICK a \in seen.reached : reader.ask.permission \in PermissionsUpTo(seen.most[<<a, p>>])
      BY <2>7 DEF AccessInv, DecisionFits
    <3>. QED
      BY <2>3, <2>4, <3>1, PermissionsMonotone
  <2>. QED
    BY <2>6, <2>7 DEF most
<1>. QED
  BY <1>1, AccessInvariance, PTL
=============================================================================
