-------------------------- MODULE PartyGraphProofs --------------------------
(***************************************************************************)
(* Proofs about PartyGraph, for every set of parties, roles and requests:  *)
(* the closure table is exact, the group graph has no cycle, and only      *)
(* groups are ancestors.                                                   *)
(***************************************************************************)
EXTENDS PartyGraph, TLAPS

-----------------------------------------------------------------------------
(* What the recursive query computes *)

\* The ancestry of a set of edges relates parties.
LEMMA AncestryType ==
    ASSUME NEW E
    PROVE  Ancestry(E) \in SUBSET (Parties \X Parties)
BY DEF Ancestry

\* Every edge is part of the ancestry.
LEMMA EdgeInAncestry ==
    ASSUME NEW E \in SUBSET (Parties \X Parties), NEW x, NEW y, <<x, y>> \in E
    PROVE  <<x, y>> \in Ancestry(E)
BY DEF Ancestry, ClosedFrom

\* What an ancestor is a member of is an ancestor as well.
LEMMA AncestryClosed ==
    ASSUME NEW E \in SUBSET (Parties \X Parties), NEW x, NEW y, NEW z,
           <<x, y>> \in Ancestry(E), <<y, z>> \in E
    PROVE  <<x, z>> \in Ancestry(E)
<1>1. x \in Parties /\ z \in Parties
  BY DEF Ancestry
<1>2. ASSUME NEW S \in SUBSET Parties, ClosedFrom(E, x, S)
      PROVE  z \in S
  <2>1. y \in S
    BY <1>2 DEF Ancestry
  <2>. QED
    BY <1>2, <2>1 DEF ClosedFrom
<1>. QED
  BY <1>1, <1>2 DEF Ancestry

\* The ancestry is the least such relation: a set of parties that is closed from x
\* contains all ancestors of x.
LEMMA AncestryLeast ==
    ASSUME NEW E, NEW x, NEW y, <<x, y>> \in Ancestry(E),
           NEW S \in SUBSET Parties, ClosedFrom(E, x, S)
    PROVE  y \in S
BY DEF Ancestry

\* The ancestors of an ancestor are ancestors.
LEMMA AncestryTransitive ==
    ASSUME NEW E \in SUBSET (Parties \X Parties), NEW x, NEW y, NEW z,
           <<x, y>> \in Ancestry(E), <<y, z>> \in Ancestry(E)
    PROVE  <<x, z>> \in Ancestry(E)
<1>. DEFINE S == {u \in Parties : <<x, u>> \in Ancestry(E)}
<1>1. ASSUME NEW e \in E, e[1] = y \/ e[1] \in S
      PROVE  e[2] \in S
  <2>1. e = <<e[1], e[2]>> /\ e[2] \in Parties
    OBVIOUS
  <2>2. <<x, e[1]>> \in Ancestry(E)
    BY <1>1
  <2>3. <<x, e[2]>> \in Ancestry(E)
    BY <2>1, <2>2, AncestryClosed
  <2>. QED
    BY <2>1, <2>3
<1>2. ClosedFrom(E, y, S)
  BY <1>1 DEF ClosedFrom
<1>3. z \in S
  <2>. HIDE DEF S
  <2>1. S \in SUBSET Parties
    BY DEF S
  <2>. QED
    BY <1>2, <2>1, AncestryLeast
<1>. QED
  BY <1>3

\* Fewer edges, fewer ancestors.
LEMMA AncestryMonotone ==
    ASSUME NEW E, NEW F, F \subseteq E, NEW x, NEW y, <<x, y>> \in Ancestry(F)
    PROVE  <<x, y>> \in Ancestry(E)
BY DEF Ancestry, ClosedFrom

\* The cycle check of AddMember is enough: an edge whose target is not below its
\* source closes no cycle.
LEMMA EdgeClosesNoCycle ==
    ASSUME NEW E \in SUBSET (Parties \X Parties),
           NEW f \in Parties, NEW t \in Parties,
           f # t, <<t, f>> \notin Ancestry(E),
           \A p \in Parties : <<p, p>> \notin Ancestry(E),
           NEW x \in Parties
    PROVE  <<x, x>> \notin Ancestry(E \cup {<<f, t>>})
<1>. DEFINE A == Ancestry(E)
            below == x = f \/ <<x, f>> \in A
            S == {u \in Parties : <<x, u>> \in A \/ (below /\ (u = t \/ <<t, u>> \in A))}
<1>1. ASSUME NEW e \in E, e[1] = x \/ e[1] \in S
      PROVE  e[2] \in S
  <2>1. e = <<e[1], e[2]>> /\ e[1] \in Parties /\ e[2] \in Parties
    OBVIOUS
  <2>2. CASE e[1] = x
    BY <2>1, <2>2, EdgeInAncestry
  <2>3. CASE <<x, e[1]>> \in A
    BY <2>1, <2>3, AncestryClosed
  <2>4. CASE below /\ e[1] = t
    <3>1. <<t, e[2]>> \in A
      BY <2>1, <2>4, EdgeInAncestry
    <3>. QED
      BY <2>1, <2>4, <3>1
  <2>5. CASE below /\ <<t, e[1]>> \in A
    <3>1. <<t, e[2]>> \in A
      BY <2>1, <2>5, AncestryClosed
    <3>. QED
      BY <2>1, <2>5, <3>1
  <2>. QED
    BY <1>1, <2>2, <2>3, <2>4, <2>5
<1>2. x = f \/ f \in S => t \in S
  <2>1. CASE below
    BY <2>1
  <2>2. CASE f \in S /\ ~below
    BY <2>2
  <2>. QED
    BY <2>1, <2>2
<1>3. ClosedFrom(E \cup {<<f, t>>}, x, S)
  <2>. HIDE DEF S
  <2>. SUFFICES ASSUME NEW e \in E \cup {<<f, t>>}, e[1] = x \/ e[1] \in S
                PROVE  e[2] \in S
    BY DEF ClosedFrom
  <2>1. CASE e \in E
    BY <1>1, <2>1
  <2>2. CASE e = <<f, t>>
    BY <1>2, <2>2
  <2>. QED
    BY <2>1, <2>2
<1>4. x \notin S
  <2>1. SUFFICES ASSUME below, x = t \/ <<t, x>> \in A
                 PROVE  FALSE
    OBVIOUS
  <2>2. CASE x = f
    BY <2>1, <2>2
  <2>3. CASE <<x, f>> \in A /\ x = t
    BY <2>3
  <2>4. CASE <<x, f>> \in A /\ <<t, x>> \in A
    BY <2>4, AncestryTransitive
  <2>. QED
    BY <2>1, <2>2, <2>3, <2>4
<1>. HIDE DEF S
<1>5. S \in SUBSET Parties
  BY DEF S
<1>. QED
  BY <1>3, <1>4, <1>5, AncestryLeast

\* If containment edges lead from persons and groups to groups, so do the pairs of
\* the ancestry.
LEMMA AncestryOfGroups ==
    ASSUME NEW E \in SUBSET (Parties \X Parties),
           \A e \in E : KindOf[e[2]] = "group" /\ KindOf[e[1]] \in {"person", "group"},
           NEW x, NEW y, <<x, y>> \in Ancestry(E)
    PROVE  KindOf[y] = "group" /\ KindOf[x] \in {"person", "group"}
<1>. DEFINE G == {p \in Parties : KindOf[p] = "group"}
<1>1. ClosedFrom(E, x, G)
  BY DEF ClosedFrom
<1>2. y \in G
  <2>. HIDE DEF G
  <2>1. G \in SUBSET Parties
    BY DEF G
  <2>. QED
    BY <1>1, <2>1, AncestryLeast
<1>3. PICK e \in E : e[1] = x
  <2>1. SUFFICES ASSUME \A e \in E : e[1] # x
                 PROVE  FALSE
    OBVIOUS
  <2>2. ClosedFrom(E, x, {})
    BY <2>1 DEF ClosedFrom
  <2>. QED
    BY <2>2, AncestryLeast
<1>. QED
  BY <1>2, <1>3
-----------------------------------------------------------------------------
(* The inductive invariant *)

\* Every containment edge, and every request about to add one, has been checked
\* against the kinds of its two parties.
KindsKept ==
    /\ \A r \in relationships :
          r.name = "group_member" =>
             KindOf[r.to] = "group" /\ KindOf[r.from] \in {"person", "group"}
    /\ \A q \in Requests :
          requests[q] # Absent /\ requests[q].stage \in {"target", "member"} =>
             /\ requests[q].rel.name = requests[q].cfg.relationship
             /\ KindOf[requests[q].rel.to] = requests[q].cfg.kind
             /\ requests[q].stage = "member" =>
                   KindOf[requests[q].rel.from] \in requests[q].cfg.contains

Inv == TypeOK /\ ClosureExact /\ Acyclic /\ KindsKept

\* The edges of a set of relationships relate parties.
LEMMA EdgesType ==
    ASSUME NEW rels \in SUBSET Relationship
    PROVE  Edges(rels) \in SUBSET (Parties \X Parties)
BY DEF Edges, Relationship

\* Rebuilding the closure after relationships were removed.
LEMMA RemovalKeepsGraph ==
    ASSUME Inv, relationships' \subseteq relationships,
           rebuildAllClosures(relationships')
    PROVE  ClosureExact' /\ Acyclic' /\ closure' \subseteq Parties \X Parties
<1>1. Edges(relationships') \subseteq Edges(relationships)
  BY DEF Edges
<1>2. Acyclic'
  BY <1>1, AncestryMonotone DEF Inv, Acyclic
<1>. QED
  BY <1>2, AncestryType DEF ClosureExact, rebuildAllClosures

\* A step that leaves containment edges and closure alone.
LEMMA SameEdgesKeepGraph ==
    ASSUME Inv, Edges(relationships') = Edges(relationships), closure' = closure
    PROVE  ClosureExact' /\ Acyclic'
BY DEF Inv, ClosureExact, Acyclic

\* The types of what a handler remembers between its statements.
LEMMA RequestFields ==
    ASSUME TypeOK, NEW q \in Requests, requests[q] # Absent
    PROVE  /\ requests[q] \in Request
           /\ requests[q].rel \in Relationship
           /\ requests[q].cfg \in KindConfigs
           /\ requests[q].role \in Roles
BY DEF TypeOK, Request

\* The migrated, empty party tables satisfy the invariant.
LEMMA InitInv == Init => Inv
<1>. SUFFICES ASSUME Init PROVE Inv
  OBVIOUS
<1>1. TypeOK
  BY DEF Init, TypeOK
<1>2. Edges(relationships) = {}
  BY DEF Init, Edges
<1>3. ASSUME NEW x \in Parties, NEW y \in Parties
      PROVE  <<x, y>> \notin Ancestry({})
  <2>1. ClosedFrom({}, x, {})
    BY DEF ClosedFrom
  <2>. QED
    BY <2>1, AncestryLeast
<1>4. Ancestry({}) = {}
  BY <1>3, AncestryType
<1>5. ClosureExact /\ Acyclic
  BY <1>2, <1>4 DEF Init, ClosureExact, Acyclic
<1>6. KindsKept
  BY DEF Init, KindsKept
<1>. QED
  BY <1>1, <1>5, <1>6 DEF Inv

\* One lemma per action: creating a party touches no edge.
LEMMA CreateKeeps ==
    ASSUME Inv, NEW p \in Parties, CreateParty(p)
    PROVE  Inv'
<1>1. TypeOK'
  BY DEF Inv, TypeOK, CreateParty
<1>2. ClosureExact' /\ Acyclic'
  BY SameEdgesKeepGraph DEF CreateParty
<1>3. KindsKept'
  BY DEF Inv, KindsKept, CreateParty
<1>. QED
  BY <1>1, <1>2, <1>3 DEF Inv

\* DeleteParty removes edges and rebuilds.
LEMMA DeleteKeeps ==
    ASSUME Inv, NEW p \in Parties, DeleteParty(p)
    PROVE  Inv'
<1>1. relationships' \subseteq relationships /\ rebuildAllClosures(relationships')
  BY DEF DeleteParty
<1>2. ClosureExact' /\ Acyclic' /\ closure' \subseteq Parties \X Parties
  BY <1>1, RemovalKeepsGraph
<1>3. TypeOK'
  BY <1>1, <1>2 DEF Inv, TypeOK, DeleteParty
<1>4. KindsKept'
  BY <1>1 DEF Inv, KindsKept, DeleteParty
<1>. QED
  BY <1>2, <1>3, <1>4 DEF Inv

\* RemoveMember rebuilds unless the removed edges are project memberships.
LEMMA RemoveKeeps ==
    ASSUME Inv, NEW cfg \in KindConfigs, NEW from, NEW to, RemoveMember(cfg, from, to)
    PROVE  Inv'
<1>1. relationships' \subseteq relationships
  BY DEF RemoveMember
<1>2. ClosureExact' /\ Acyclic' /\ closure' \subseteq Parties \X Parties
  <2>1. CASE cfg.relationship \in ContainmentRelationships
    BY <1>1, <2>1, RemovalKeepsGraph DEF RemoveMember
  <2>2. CASE cfg.relationship \notin ContainmentRelationships
    <3>1. Edges(relationships') = Edges(relationships)
      BY <2>2 DEF RemoveMember, Edges
    <3>. QED
      BY <2>2, <3>1, SameEdgesKeepGraph DEF RemoveMember, Inv, TypeOK
  <2>. QED
    BY <2>1, <2>2
<1>3. TypeOK'
  BY <1>1, <1>2 DEF Inv, TypeOK, RemoveMember
<1>4. KindsKept'
  BY <1>1 DEF Inv, KindsKept, RemoveMember
<1>. QED
  BY <1>2, <1>3, <1>4 DEF Inv

\* The first check of AddMemberHandler establishes the kind of the target.
LEMMA LoadTargetKeeps ==
    ASSUME Inv, NEW q \in Requests, NEW cfg \in KindConfigs, NEW rel \in Relationship,
           LoadTarget(q, cfg, rel)
    PROVE  Inv'
<1>1. TypeOK'
  <2>1. rel.role \in Roles
    BY DEF Relationship
  <2>. QED
    BY <2>1 DEF Inv, TypeOK, LoadTarget, Request
<1>2. ClosureExact' /\ Acyclic'
  BY SameEdgesKeepGraph DEF LoadTarget
<1>3. KindsKept'
  BY DEF Inv, TypeOK, KindsKept, LoadTarget
<1>. QED
  BY <1>1, <1>2, <1>3 DEF Inv

\* The second check of AddMemberHandler establishes the kind of the member.
LEMMA LoadMemberKeeps ==
    ASSUME Inv, NEW q \in Requests, LoadMember(q)
    PROVE  Inv'
<1>. USE DEF LoadMember
<1>1. /\ requests[q] \in Request
      /\ requests' \in [Requests -> Request \cup {Absent}]
      /\ \/ requests'[q] = Absent
         \/ /\ requests'[q].stage = "member"
            /\ requests'[q].rel = requests[q].rel /\ requests'[q].cfg = requests[q].cfg
            /\ KindOf[requests[q].rel.from] \in requests[q].cfg.contains
      /\ \A r \in Requests : r # q => requests'[r] = requests[r]
  BY DEF Inv, TypeOK, Request
<1>2. TypeOK'
  BY <1>1 DEF Inv, TypeOK
<1>3. ClosureExact' /\ Acyclic'
  BY SameEdgesKeepGraph
<1>4. KindsKept'
  BY <1>1 DEF Inv, KindsKept
<1>. QED
  BY <1>2, <1>3, <1>4 DEF Inv

\* The only step that can close a cycle.
LEMMA AddMemberKeeps ==
    ASSUME Inv, NEW q \in Requests, AddMember(q)
    PROVE  Inv'
<1>. DEFINE rel == requests[q].rel
<1>1. /\ rel \in Relationship /\ requests[q].cfg \in KindConfigs
      /\ requests[q].stage = "member"
      /\ rel.name = "group_member" =>
            KindOf[rel.to] = "group" /\ KindOf[rel.from] \in {"person", "group"}
  <2>1. rel \in Relationship /\ requests[q].cfg \in KindConfigs
    BY RequestFields DEF Inv, AddMember
  <2>. QED
    BY <2>1 DEF Inv, KindsKept, AddMember, KindConfigs, groupKindConfig, projectKindConfig
<1>2. /\ relationships' \in {relationships, relationships \cup {rel}}
      /\ requests' = [requests EXCEPT ![q] = Absent]
      /\ UNCHANGED <<status, memberships>>
  BY DEF AddMember
<1>3. KindsKept'
  BY <1>1, <1>2 DEF Inv, KindsKept, TypeOK
<1>4. ClosureExact' /\ Acyclic' /\ closure' \in SUBSET (Parties \X Parties)
  <2>1. CASE rel.name \in ContainmentRelationships /\ ~CreatesCycle(rel)
    <3>. DEFINE E == Edges(relationships)
    <3>1. relationships' = relationships \cup {rel} /\ closure' = Ancestry(Edges(relationships'))
      BY <2>1 DEF AddMember, rebuildAllClosures
    <3>2. Edges(relationships') = E \cup {<<rel.from, rel.to>>}
      BY <2>1, <3>1 DEF Edges
    <3>3. E \in SUBSET (Parties \X Parties) /\ rel.from \in Parties /\ rel.to \in Parties
      BY <1>1, EdgesType DEF Inv, TypeOK, Relationship
    <3>4. rel.from # rel.to /\ <<rel.to, rel.from>> \notin Ancestry(E)
      BY <2>1 DEF CreatesCycle, Inv, ClosureExact
    <3>5. \A p \in Parties : <<p, p>> \notin Ancestry(E)
      BY DEF Inv, Acyclic
    <3>. HIDE DEF E, rel
    <3>6. \A p \in Parties : <<p, p>> \notin Ancestry(Edges(relationships'))
      BY <3>2, <3>3, <3>4, <3>5, EdgeClosesNoCycle
    <3>. QED
      BY <3>1, <3>6, AncestryType DEF ClosureExact, Acyclic
  <2>2. CASE rel.name \in ContainmentRelationships /\ CreatesCycle(rel)
    BY <2>2, SameEdgesKeepGraph DEF AddMember, Inv, TypeOK
  <2>3. CASE rel.name \notin ContainmentRelationships
    <3>1. Edges(relationships') = Edges(relationships)
      BY <1>2, <2>3 DEF Edges
    <3>. QED
      BY <2>3, <3>1, SameEdgesKeepGraph DEF AddMember, Inv, TypeOK
  <2>. QED
    BY <2>1, <2>2, <2>3
<1>5. TypeOK'
  BY <1>1, <1>2, <1>4 DEF Inv, TypeOK
<1>. QED
  BY <1>3, <1>4, <1>5 DEF Inv

\* UpdateMemberRoleHandler only remembers a row.
LEMMA LookUpRoleKeeps ==
    ASSUME Inv, NEW q \in Requests, NEW cfg \in KindConfigs, NEW rel \in relationships,
           NEW role \in Roles, LookUpRole(q, cfg, rel, role)
    PROVE  Inv'
<1>1. TypeOK'
  BY DEF Inv, TypeOK, LookUpRole, Request
<1>2. ClosureExact' /\ Acyclic'
  BY SameEdgesKeepGraph DEF LookUpRole
<1>3. KindsKept'
  BY DEF Inv, TypeOK, KindsKept, LookUpRole
<1>. QED
  BY <1>1, <1>2, <1>3 DEF Inv

\* The row that UpdateMemberRole(q) writes.
NewRow(q) == [requests[q].rel EXCEPT !.role = requests[q].role]

\* UpdateMemberRole replaces the row that was seen by one that differs in its role
\* only, or changes nothing.
LEMMA RoleUpdateEffect ==
    ASSUME Inv, NEW q \in Requests, UpdateMemberRole(q)
    PROVE  /\ requests[q].rel \in Relationship /\ NewRow(q) \in Relationship
           /\ NewRow(q).from = requests[q].rel.from
           /\ NewRow(q).to = requests[q].rel.to
           /\ NewRow(q).name = requests[q].rel.name
           /\ \/ relationships' = relationships
              \/ /\ requests[q].rel \in relationships
                 /\ relationships' = (relationships \ {requests[q].rel}) \cup {NewRow(q)}
<1>. DEFINE seen == requests[q].rel
<1>1. seen \in Relationship /\ requests[q].role \in Roles
  BY RequestFields DEF Inv, UpdateMemberRole
<1>2. CASE seen \in relationships
  <2>1. RowsToUpdate(seen) = {seen}
    BY <1>2 DEF RowsToUpdate
  <2>. QED
    BY <1>1, <1>2, <2>1 DEF UpdateMemberRole, NewRow, Relationship
<1>3. CASE seen \notin relationships
  <2>1. RowsToUpdate(seen) = {}
    BY <1>3 DEF RowsToUpdate
  <2>. QED
    BY <1>1, <2>1 DEF UpdateMemberRole, NewRow, Relationship
<1>. QED
  BY <1>2, <1>3

\* A role update leaves the containment edges as they are, which is why it need not
\* rebuild the closure.
LEMMA UpdateRoleKeeps ==
    ASSUME Inv, NEW q \in Requests, UpdateMemberRole(q)
    PROVE  Inv'
<1>1. Edges(relationships') = Edges(relationships)
  BY RoleUpdateEffect DEF Edges
<1>2. ClosureExact' /\ Acyclic'
  BY <1>1, SameEdgesKeepGraph DEF UpdateMemberRole
<1>3. requests' = [requests EXCEPT ![q] = Absent] /\ UNCHANGED <<status, closure, memberships>>
  BY DEF UpdateMemberRole
<1>4. TypeOK'
  BY <1>3, RoleUpdateEffect DEF Inv, TypeOK
<1>5. KindsKept'
  BY <1>3, RoleUpdateEffect DEF Inv, TypeOK, KindsKept
<1>. QED
  BY <1>2, <1>4, <1>5 DEF Inv

\* A request that ends early leaves the tables alone.
LEMMA DropKeeps ==
    ASSUME Inv, NEW q \in Requests, DropRequest(q)
    PROVE  Inv'
<1>1. TypeOK'
  BY DEF Inv, TypeOK, DropRequest
<1>2. ClosureExact' /\ Acyclic'
  BY SameEdgesKeepGraph DEF DropRequest
<1>3. KindsKept'
  BY DEF Inv, TypeOK, KindsKept, DropRequest
<1>. QED
  BY <1>1, <1>2, <1>3 DEF Inv

\* Catalog memberships are no part of the group graph.
LEMMA MembershipsKeep ==
    ASSUME Inv, NEW entry \in Entries, NEW p \in Parties,
           AssignToProject(entry, p) \/ RemoveFromProject(entry, p)
    PROVE  Inv'
<1>. USE DEF AssignToProject, RemoveFromProject
<1>1. TypeOK'
  BY DEF Inv, TypeOK
<1>2. ClosureExact' /\ Acyclic'
  BY SameEdgesKeepGraph
<1>3. KindsKept'
  BY DEF Inv, KindsKept
<1>. QED
  BY <1>1, <1>2, <1>3 DEF Inv

\* Stuttering steps.
LEMMA StutterKeeps ==
    ASSUME Inv, UNCHANGED vars
    PROVE  Inv'
BY DEF Inv, TypeOK, ClosureExact, Acyclic, KindsKept, vars

\* The invariant holds in every reachable state.
THEOREM Invariance == Spec => []Inv
<1>1. Inv /\ [Next]_vars => Inv'
  <2>. SUFFICES ASSUME Inv, [Next]_vars PROVE Inv'
    OBVIOUS
  <2>1. CASE PartyStep
    BY <2>1, CreateKeeps, DeleteKeeps, MembershipsKeep DEF PartyStep
  <2>2. ASSUME NEW q \in Requests, NEW cfg \in KindConfigs, NEW rel \in Relationship,
               LoadTarget(q, cfg, rel)
        PROVE  Inv'
    BY <2>2, LoadTargetKeeps
  <2>3. ASSUME NEW q \in Requests, NEW cfg \in KindConfigs, NEW rel \in relationships,
               NEW role \in Roles, LookUpRole(q, cfg, rel, role)
        PROVE  Inv'
    BY <2>3, LookUpRoleKeeps
  <2>4. ASSUME NEW q \in Requests,
               LoadMember(q) \/ AddMember(q) \/ UpdateMemberRole(q) \/ DropRequest(q)
        PROVE  Inv'
    BY <2>4, LoadMemberKeeps, AddMemberKeeps, UpdateRoleKeeps, DropKeeps
  <2>5. ASSUME NEW cfg \in KindConfigs, NEW from \in Parties, NEW to \in Parties,
               RemoveMember(cfg, from, to)
        PROVE  Inv'
    BY <2>5, RemoveKeeps
  <2>6. CASE MemberStep
    BY <2>2, <2>3, <2>4, <2>5, <2>6 DEF MemberStep
  <2>7. CASE UNCHANGED vars
    BY <2>7, StutterKeeps
  <2>. QED
    BY <2>1, <2>6, <2>7 DEF Next
<1>. QED
  BY <1>1, InitInv, PTL DEF Spec

\* The closure table always holds exactly the pairs that the group edges imply, for
\* any number of parties and of concurrent requests.
THEOREM ClosureExactHolds == Spec => []ClosureExact
BY Invariance, PTL DEF Inv

\* The cycle check of AddMember keeps the group graph acyclic.
THEOREM AcyclicHolds == Spec => []Acyclic
BY Invariance, PTL DEF Inv

\* Only groups are ancestors, and only persons and groups have any.
THEOREM AncestorsAreGroupsHolds == Spec => []AncestorsAreGroups
<1>1. Inv => AncestorsAreGroups
  <2>. SUFFICES ASSUME Inv, NEW e \in closure
                PROVE  KindOf[e[2]] = "group" /\ KindOf[e[1]] \in {"person", "group"}
    BY DEF AncestorsAreGroups
  <2>1. e = <<e[1], e[2]>> /\ e \in Ancestry(Edges(relationships))
    BY DEF Inv, TypeOK, ClosureExact
  <2>2. \A d \in Edges(relationships) :
           KindOf[d[2]] = "group" /\ KindOf[d[1]] \in {"person", "group"}
    BY DEF Inv, KindsKept, Edges, ContainmentRelationships
  <2>3. Edges(relationships) \in SUBSET (Parties \X Parties)
    BY EdgesType DEF Inv, TypeOK
  <2>. QED
    BY <2>1, <2>2, <2>3, AncestryOfGroups
<1>. QED
  BY <1>1, Invariance, PTL

\* A role update changes the row it was meant for or nothing, whatever other requests
\* did in between.
THEOREM RoleUpdateIsOptimisticHolds == Spec => RoleUpdateIsOptimistic
<1>. DEFINE Safe == \A q \in Requests :
                      UpdateMemberRole(q) =>
                         /\ relationships \ relationships' \subseteq {requests[q].rel}
                         /\ {<<r.from, r.to, r.name>> : r \in relationships'}
                              = {<<r.from, r.to, r.name>> : r \in relationships}
<1>1. Inv => Safe
  BY RoleUpdateEffect
<1>. QED
  BY <1>1, Invariance, PTL DEF RoleUpdateIsOptimistic
=============================================================================
