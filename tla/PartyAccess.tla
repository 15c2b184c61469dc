---------------------------- MODULE PartyAccess -----------------------------
(***************************************************************************)
(* What a user may do in projects, resolved while the party graph changes: *)
(* ResolveUserProjects behind GET /me/projects (internal/store/            *)
(* party_store_role_resolution.go) and RequireProjectPermission            *)
(* (internal/api/party_middleware.go), which no route uses yet.            *)
(*                                                                         *)
(* Either reads the person, the closure and the relationships in separate  *)
(* statements and holds no transaction. The graph is that of module        *)
(* PartyGraph. Nothing writes global_party_roles, so that no group has a   *)
(* global role and GetRolesForParties returns nothing.                     *)
(***************************************************************************)
EXTENDS PartyGraph, Integers, FiniteSetsExt

CONSTANTS Person,            \* the person of the user who asks
          TokenPermissions   \* permissions of the user's global role

ASSUME AccessAssumption == Person \in Parties /\ KindOf[Person] = "person"

VARIABLES reader,   \* the request: where it is and what it has read
          seen      \* history: what has been true since the request came

accessVars == <<status, relationships, closure, memberships, requests, reader, seen>>

Projects == {p \in Parties : KindOf[p] = "project"}

NoRank == -1

\* faulty variant: the lowest role wins
rankRoleLowest(role) ==
    CASE role = "project:owner" -> 0
      [] role = "project:developer" -> 1
      [] role = "project:viewer" -> 2
      [] OTHER -> NoRank

\* projectRoleRank
rankRole(role) ==
    CASE role = "project:owner" -> 2
      [] role = "project:developer" -> 1
      [] role = "project:viewer" -> 0
      [] OTHER -> NoRank

Permissions == {"catalog:read", "catalog:write", "catalog:delete"}

projectRolePermissions(role) ==
    CASE role = "project:owner" -> Permissions
      [] role = "project:developer" -> {"catalog:read", "catalog:write"}
      [] role = "project:viewer" -> {"catalog:read"}
      [] OTHER -> {}

\* GetPartyByUserID finds the person; AncestorGroupIDs reads the closure.
Reachable == {Person} \cup {a \in Parties : <<Person, a>> \in closure}

\* faulty variant: the members of the project, whoever they are
GetProjectRolesOfAll(from, p) ==
    {r.role : r \in {r \in relationships : r.to = p /\ r.name = "project_member"}}

\* GetProjectRoles, and the rows of one project in ResolveUserProjects
GetProjectRoles(from, p) ==
    {r.role : r \in {r \in relationships :
                        r.from \in from /\ r.to = p /\ r.name = "project_member"}}

\* The highest rank among roles
Rank(roles) == Max({NoRank} \cup {rankRole(r) : r \in roles})

Nowhere == [p \in Projects |-> NoRank]

-----------------------------------------------------------------------------
(* History of a request: for a party and a project, the least rank the     *)
(* user had all the time through that party, and the highest rank that the *)
(* party had; the parties the user could reach at some time.               *)

Has(a, p) == Rank({r.role : r \in {r \in relationships : r.from = a /\ r.to = p}})

Through(a, p) ==
    IF Live(Person) /\ Live(p) /\ a \in Reachable THEN Has(a, p) ELSE NoRank

SeenNow ==
    [least |-> [x \in Parties \X Projects |-> Through(x[1], x[2])],
     most |-> [x \in Parties \X Projects |-> Has(x[1], x[2])],
     reached |-> Reachable]

SeenSince(s, n) ==
    [least |-> [x \in Parties \X Projects |-> Min({s.least[x], n.least[x]})],
     most |-> [x \in Parties \X Projects |-> Max({s.most[x], n.most[x]})],
     reached |-> s.reached \cup n.reached]

NothingSeen == [least |-> <<>>, most |-> <<>>, reached |-> {}]

Waiting == [at |-> "idle"]

AccessInit == Init /\ reader = Waiting /\ seen = NothingSeen

-----------------------------------------------------------------------------
(* The request *)

Unread == UNCHANGED <<status, relationships, closure, memberships, requests>>

\* RequireAuth has let the user in. What is asked: the list of projects, or a
\* permission in one of them. A user without a person has no projects.
LookUpPerson(ask) ==
    /\ reader.at = "idle"
    /\ ask.permission \notin TokenPermissions
    /\ reader' = IF Live(Person) THEN [at |-> "person", ask |-> ask]
                 ELSE [at |-> "done", ask |-> ask, roles |-> Nowhere]
    /\ seen' = SeenNow
    /\ Unread

ReadAncestors ==
    /\ reader.at = "person"
    /\ reader' = [at |-> "ancestors", ask |-> reader.ask, from |-> Reachable]
    /\ UNCHANGED seen
    /\ Unread

\* ResolveUserProjects: one query for the roles in all projects that exist; the
\* highest role in each project counts.
ReadMemberships ==
    /\ reader.at = "ancestors"
    /\ reader.ask.permission = "none"
    /\ reader' = [at |-> "roles", ask |-> reader.ask,
                  roles |-> [p \in Projects |->
                                IF Live(p) THEN Rank(GetProjectRoles(reader.from, p))
                                ELSE NoRank]]
    /\ UNCHANGED seen
    /\ Unread

\* ResolveUserProjects: the projects themselves; one that is gone is left out.
FetchProjects ==
    /\ reader.at = "roles"
    /\ reader' = [at |-> "done", ask |-> reader.ask,
                  roles |-> [p \in Projects |->
                                IF Live(p) THEN reader.roles[p] ELSE NoRank]]
    /\ UNCHANGED seen
    /\ Unread

\* RequireProjectPermission: any role with the permission will do, and the project
\* need not exist.
CheckPermission ==
    /\ reader.at = "ancestors"
    /\ reader.ask.permission \in Permissions
    /\ reader' = [at |-> "done", ask |-> reader.ask,
                  allowed |-> \E role \in GetProjectRoles(reader.from, reader.ask.project) :
                                  reader.ask.permission \in projectRolePermissions(role)]
    /\ UNCHANGED seen
    /\ Unread

\* The answer is sent, or the request fails (500) and the client is none the wiser.
EndRequest ==
    /\ reader.at # "idle"
    /\ reader' = Waiting
    /\ seen' = NothingSeen
    /\ Unread

Asks == [permission : Permissions, project : Projects]
        \cup [permission : {"none"}, project : {DefaultProject}]

ReaderStep ==
    \/ \E ask \in Asks : LookUpPerson(ask)
    \/ ReadAncestors
    \/ ReadMemberships
    \/ FetchProjects
    \/ CheckPermission
    \/ EndRequest

GraphStep ==
    /\ Next
    /\ UNCHANGED reader
    /\ seen' = IF reader.at \in {"idle", "done"} THEN seen ELSE SeenSince(seen, SeenNow')

AccessSpec == AccessInit /\ [][ReaderStep \/ GraphStep]_accessVars

-----------------------------------------------------------------------------
(* Properties *)

Answered(field) == reader.at = "done" /\ field \in DOMAIN reader

\* What roles up to that rank grant
PermissionsUpTo(rank) ==
    UNION {projectRolePermissions(r) : r \in {r \in ProjectRoles : rankRole(r) <= rank}}

\* A user who has a role in a project all through a request, itself or through one
\* group, is not refused because roles were changed or groups rearranged meanwhile:
\* the project is listed with that role or a higher one, and every permission of
\* that role is granted (ADR-014: the highest role applies).
KeepsAccess ==
    \A a \in Parties, p \in Projects :
        /\ Answered("roles") => reader.roles[p] >= seen.least[<<a, p>>]
        /\ /\ Answered("allowed") /\ p = reader.ask.project
           /\ reader.ask.permission \in PermissionsUpTo(seen.least[<<a, p>>])
           => reader.allowed

\* No role is answered, and no permission granted, that was not given during the
\* request to the user or to a group the user was in during the request. The two
\* need not have been true together: closure and roles are read one after the other.
InventsNoAccess ==
    \A p \in Projects :
        LET most == Max({NoRank} \cup {seen.most[<<a, p>>] : a \in seen.reached})
        IN  /\ Answered("roles") => reader.roles[p] <= most
            /\ Answered("allowed") /\ p = reader.ask.project /\ reader.allowed
                  => reader.ask.permission \in PermissionsUpTo(most)
=============================================================================
