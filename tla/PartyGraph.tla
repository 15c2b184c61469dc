----------------------------- MODULE PartyGraph -----------------------------
(***************************************************************************)
(* The party archetype of AgentLens: persons, groups and projects, the     *)
(* membership edges between them, and the materialised closure of the      *)
(* group edges from which permissions are resolved (internal/store/party*, *)
(* internal/api/party_handlers.go, internal/api/catalog_project.go).       *)
(*                                                                         *)
(* A method of PartyStore is one statement or one transaction and is one   *)
(* step here, as on SQLite, the default backend, where transactions are    *)
(* serialised.  The HTTP handlers in front of it are not: AddMemberHandler *)
(* and UpdateMemberRoleHandler read, decide and then write in several      *)
(* steps, with other requests in between.                                  *)
(*                                                                         *)
(* A UUID is given to one party only, whose kind never changes, so the     *)
(* kind is a function of the id.  Names, versions and identifiers of       *)
(* parties are left out, and so is global_party_roles, which nothing       *)
(* writes.                                                                 *)
(***************************************************************************)
CONSTANTS
    Parties,         \* the ids of parties
    KindOf,          \* the kind of each of them
    DefaultProject,  \* the seeded system project, the only system party
    ProjectRoles,    \* project:owner, project:developer, project:viewer
    Entries,         \* catalog entry ids
    Requests,        \* concurrent member requests
    Absent           \* no request

Kinds == {"person", "group", "project"}

\* The configurations that drive the routes of /groups and /projects.
groupKindConfig ==
    [kind |-> "group", relationship |-> "group_member", roles |-> {"member"},
     contains |-> {"person", "group"}]

projectKindConfig ==
    [kind |-> "project", relationship |-> "project_member", roles |-> ProjectRoles,
     contains |-> {"person", "group"}]

KindConfigs == {groupKindConfig, projectKindConfig}

ASSUME PartyAssumption ==
    /\ KindOf \in [Parties -> Kinds]
    /\ DefaultProject \in Parties /\ KindOf[DefaultProject] = "project"

Roles == {"member"} \cup ProjectRoles

\* to_role is the kind of the target, which the relationship name determines.
Relationship == [from : Parties, role : Roles, to : Parties,
                 name : {"group_member", "project_member"}]

\* target: AddMemberHandler has found the target party; member: and the member
\* party; update: UpdateMemberRoleHandler has found rel and wants role instead.
Request == [stage : {"target", "member", "update"}, cfg : KindConfigs,
            rel : Relationship, role : Roles]

ASSUME RequestAssumption == Absent \notin Request

VARIABLES
    status,          \* of each party id: not used yet, a row of parties, deleted
    relationships,   \* party_relationships, unique over all its columns
    closure,         \* party_group_closures: pairs <<member, ancestor>>
    memberships,     \* catalog_project_memberships: pairs <<entry, project>>
    requests         \* handlers between two of their statements

vars == <<status, relationships, closure, memberships, requests>>

Live(p) == status[p] = "live"

TypeOK ==
    /\ status \in [Parties -> {"unused", "live", "deleted"}]
    /\ relationships \subseteq Relationship
    /\ closure \subseteq Parties \X Parties
    /\ memberships \subseteq Entries \X Parties
    /\ requests \in [Requests -> Request \cup {Absent}]

\* What migration 7 leaves: the default project and nothing else.
Init ==
    /\ status = [p \in Parties |-> IF p = DefaultProject THEN "live" ELSE "unused"]
    /\ relationships = {}
    /\ closure = {}
    /\ memberships = {}
    /\ requests = [q \in Requests |-> Absent]
-----------------------------------------------------------------------------
(* The closure *)

ContainmentRelationships == {"group_member"}

\* The containment edges among a set of relationships.
Edges(rels) ==
    {<<r.from, r.to>> : r \in {s \in rels : s.name \in ContainmentRelationships}}

\* S contains what x is a member of, and whatever the members of S are members of.
ClosedFrom(E, x, S) ==
    \A e \in E : e[1] = x \/ e[1] \in S => e[2] \in S

\* The recursive query of rebuildAllClosures: the least set of pairs that contains
\* the edges and, with <<m, a>>, the targets of all edges from a.
Ancestry(E) ==
    {e \in Parties \X Parties :
        \A S \in SUBSET Parties : ClosedFrom(E, e[1], S) => e[2] \in S}

rebuildAllClosures(rels) == closure' = Ancestry(Edges(rels))
-----------------------------------------------------------------------------
(* Parties *)

\* Groups and projects come from CreatePartyHandler, persons from
\* CreatePersonForUser when a user is created.
CreateParty(p) ==
    /\ status[p] = "unused"
    /\ status' = [status EXCEPT ![p] = "live"]
    /\ UNCHANGED <<relationships, closure, memberships, requests>>

\* DELETE /groups/{id} and /projects/{id}: whatever the route, the kind of the party
\* is not looked at.
DeleteParty(p) ==
    /\ Live(p) /\ p # DefaultProject
    /\ relationships' = {r \in relationships : r.from # p /\ r.to # p}
    /\ memberships' = {m \in memberships : m[2] # p}
    /\ rebuildAllClosures(relationships')
    /\ status' = [status EXCEPT ![p] = "deleted"]
    /\ UNCHANGED requests
-----------------------------------------------------------------------------
(* Members *)

\* AddMemberHandler: the role is checked and the target loaded.
LoadTarget(q, cfg, rel) ==
    /\ requests[q] = Absent
    /\ rel.name = cfg.relationship /\ rel.role \in cfg.roles
    /\ Live(rel.to) /\ KindOf[rel.to] = cfg.kind
    /\ requests' = [requests EXCEPT ![q] =
                      [stage |-> "target", cfg |-> cfg, rel |-> rel, role |-> rel.role]]
    /\ UNCHANGED <<status, relationships, closure, memberships>>

\* A faulty variant: the kind of the member is not checked.
LoadMemberAnyKind(q) ==
    /\ requests[q] # Absent /\ requests[q].stage = "target"
    /\ requests' = [requests EXCEPT ![q] =
                      IF Live(requests[q].rel.from) THEN [@ EXCEPT !.stage = "member"]
                      ELSE Absent]
    /\ UNCHANGED <<status, relationships, closure, memberships>>

\* AddMemberHandler: the member is loaded, and the request refused if there is none
\* or its kind is not allowed.
LoadMember(q) ==
    /\ requests[q] # Absent /\ requests[q].stage = "target"
    /\ requests' = [requests EXCEPT ![q] =
                      IF /\ Live(requests[q].rel.from)
                         /\ KindOf[requests[q].rel.from] \in requests[q].cfg.contains
                      THEN [@ EXCEPT !.stage = "member"]
                      ELSE Absent]
    /\ UNCHANGED <<status, relationships, closure, memberships>>

\* A faulty variant: only the opposite edge counts as a cycle.
CreatesTwoCycle(rel) ==
    rel.from = rel.to \/ <<rel.to, rel.from>> \in Edges(relationships)

\* AddMember refuses an edge to the party itself, and one to a party that the closure
\* table has as a member of the new member.
CreatesCycle(rel) ==
    rel.from = rel.to \/ <<rel.to, rel.from>> \in closure

\* A faulty variant: only the rows of the member itself are added.
RebuildForMember(rel) ==
    closure' = closure \cup {<<rel.from, rel.to>>}
                       \cup {e \in {rel.from} \X Parties : <<rel.to, e[2]>> \in closure}

AddMemberScoped(q) ==
    /\ requests[q] # Absent /\ requests[q].stage = "member"
    /\ LET rel == requests[q].rel
       IN  IF rel.name \in ContainmentRelationships
           THEN IF CreatesCycle(rel) THEN UNCHANGED <<relationships, closure>>
                ELSE relationships' = relationships \cup {rel} /\ RebuildForMember(rel)
           ELSE relationships' = relationships \cup {rel} /\ UNCHANGED closure
    /\ requests' = [requests EXCEPT ![q] = Absent]
    /\ UNCHANGED <<status, memberships>>

\* AddMember, one transaction, and the end of the request.  It does not look at the
\* parties again; an edge that exists already stays as it is.
AddMember(q) ==
    /\ requests[q] # Absent /\ requests[q].stage = "member"
    /\ LET rel == requests[q].rel
       IN  IF rel.name \in ContainmentRelationships
           THEN IF CreatesCycle(rel) THEN UNCHANGED <<relationships, closure>>
                ELSE /\ relationships' = relationships \cup {rel}
                     /\ rebuildAllClosures(relationships')
           ELSE relationships' = relationships \cup {rel} /\ UNCHANGED closure
    /\ requests' = [requests EXCEPT ![q] = Absent]
    /\ UNCHANGED <<status, memberships>>

\* RemoveMemberHandler: no party need exist, and every role of the member goes.
RemoveMember(cfg, from, to) ==
    /\ relationships' = {r \in relationships :
                           ~(r.from = from /\ r.to = to /\ r.name = cfg.relationship)}
    /\ IF cfg.relationship \in ContainmentRelationships
       THEN rebuildAllClosures(relationships')
       ELSE UNCHANGED closure
    /\ UNCHANGED <<status, memberships, requests>>

\* UpdateMemberRoleHandler: ListMembers, and the first row of the member, in whatever
\* order the rows come.
LookUpRole(q, cfg, rel, role) ==
    /\ requests[q] = Absent
    /\ role \in cfg.roles
    /\ rel \in relationships /\ rel.name = cfg.relationship
    /\ requests' = [requests EXCEPT ![q] =
                      [stage |-> "update", cfg |-> cfg, rel |-> rel, role |-> role]]
    /\ UNCHANGED <<status, relationships, closure, memberships>>

\* A faulty variant: the update does not ask for the role that was seen.
RowsOfMember(seen) ==
    {r \in relationships : r.from = seen.from /\ r.to = seen.to /\ r.name = seen.name}

\* The rows that UpdateMemberRole changes: the one that was seen, if it is still there.
RowsToUpdate(seen) == {r \in relationships : r = seen}

\* UpdateMemberRole: ErrMemberNotFound without such a row, a violation of the unique
\* index if the member has the new role already, else the row gets the new role.
UpdateMemberRole(q) ==
    /\ requests[q] # Absent /\ requests[q].stage = "update"
    /\ LET old == RowsToUpdate(requests[q].rel)
           new == {[r EXCEPT !.role = requests[q].role] : r \in old}
       IN  relationships' = IF new \cap (relationships \ old) # {} THEN relationships
                            ELSE (relationships \ old) \cup new
    /\ requests' = [requests EXCEPT ![q] = Absent]
    /\ UNCHANGED <<status, closure, memberships>>

\* The client goes away or the process stops: what was not committed is lost.
DropRequest(q) ==
    /\ requests[q] # Absent
    /\ requests' = [requests EXCEPT ![q] = Absent]
    /\ UNCHANGED <<status, relationships, closure, memberships>>
-----------------------------------------------------------------------------
(* Catalog entries of projects *)

\* Neither the entry nor the project need exist.
AssignToProject(entry, p) ==
    /\ memberships' = memberships \cup {<<entry, p>>}
    /\ UNCHANGED <<status, relationships, closure, requests>>

RemoveFromProject(entry, p) ==
    /\ memberships' = memberships \ {<<entry, p>>}
    /\ UNCHANGED <<status, relationships, closure, requests>>
-----------------------------------------------------------------------------
PartyStep ==
    \E p \in Parties :
        \/ CreateParty(p)
        \/ DeleteParty(p)
        \/ \E entry \in Entries : AssignToProject(entry, p) \/ RemoveFromProject(entry, p)

MemberStep ==
    \/ \E q \in Requests :
          \/ \E cfg \in KindConfigs, rel \in Relationship : LoadTarget(q, cfg, rel)
          \/ LoadMember(q)
          \/ AddMember(q)
          \/ \E cfg \in KindConfigs, rel \in relationships, role \in Roles :
                LookUpRole(q, cfg, rel, role)
          \/ UpdateMemberRole(q)
          \/ DropRequest(q)
    \/ \E cfg \in KindConfigs, from, to \in Parties : RemoveMember(cfg, from, to)

Next == PartyStep \/ MemberStep

Spec == Init /\ [][Next]_vars
-----------------------------------------------------------------------------
(* Properties *)

\* After every operation, in whatever order edges came and went and parties were
\* deleted, the closure table holds exactly the pairs that the group edges imply:
\* permissions are resolved from it without looking at the edges.
ClosureExact == closure = Ancestry(Edges(relationships))

\* No group is a member of itself, however indirectly: the check that AddMember makes
\* against the closure table is enough, although it never follows an edge.
Acyclic == \A p \in Parties : <<p, p>> \notin Ancestry(Edges(relationships))

\* Roles are inherited from groups only, and only by persons and groups: no project
\* is ever an ancestor or a member of a group, and nothing is a member of a person.
AncestorsAreGroups ==
    \A e \in closure : KindOf[e[2]] = "group" /\ KindOf[e[1]] \in {"person", "group"}

\* Changing a role is optimistic (UpdateMemberRoleHandler): whatever other requests
\* did since the row was seen, only that row may change, and a membership is neither
\* won nor lost.
RoleUpdateIsOptimistic ==
    [][\A q \in Requests :
          UpdateMemberRole(q) =>
             /\ relationships \ relationships' \subseteq {requests[q].rel}
             /\ {<<r.from, r.to, r.name>> : r \in relationships'}
                  = {<<r.from, r.to, r.name>> : r \in relationships}]_vars
=============================================================================
