------------------------- MODULE CatalogSystemProofs -------------------------
(***************************************************************************)
(* Proofs about CatalogSystem: the prober, the API and the discovery       *)
(* manager over one table, for every set of ids, cards, endpoints and      *)
(* sources and every setting of the prober.                                *)
(*                                                                         *)
(* Discovery keeps whole rows in memory and saves them later, which also   *)
(* brings back rows that were deleted meanwhile.  What holds of the rows   *)
(* must therefore hold of those copies, and "one entry per endpoint" must  *)
(* count a row that a late save may bring back as if it were there: that   *)
(* is OneHeldPerEndpoint.                                                  *)
(***************************************************************************)
EXTENDS CatalogSystem, HealthProberProofs, WellFoundedInduction

\* The row of id exists, or a copy of it that discovery holds may bring it back.
Held(id) ==
    \/ Present(id)
    \/ pass.listed[id] # Absent
    \/ pass.found # Absent /\ pass.found.id = id

Discovered(id) == sourceOf[id] # "push"

OneHeldPerEndpoint ==
    \A id, other \in Ids :
        /\ Held(id) /\ Held(other) /\ Discovered(id) /\ Discovered(other)
        /\ agentTypes[id].endpoint = agentTypes[other].endpoint
        => id = other

\* The entry that was found is one of discovery's own, at the endpoint of the card.
FoundOwned ==
    pass.found # Absent /\ pass.found.id # Absent =>
        /\ pass.found.row # Absent
        /\ Discovered(pass.found.id)
        /\ agentTypes[pass.found.id] # Absent
        /\ agentTypes[pass.found.id].endpoint = pass.found.at.endpoint

\* While an entry is about to be created, discovery has none at its endpoint.
NewIsMissing ==
    pass.found # Absent /\ pass.found.id = Absent =>
        \A id \in Ids : Present(id) /\ Discovered(id) =>
            agentTypes[id].endpoint # pass.found.at.endpoint

\* What the stage says about the copies that are held.
StageFits ==
    /\ pass.found # Absent => pass.stage = "upsert"
    /\ pass.stage # "mark" => \A id \in Ids : pass.listed[id] = Absent

ListedOwned ==
    \A id \in Ids : pass.listed[id] # Absent => Discovered(id) /\ agentTypes[id] # Absent

PushUsed == \A id \in Ids : sourceOf[id] = "push" => agentTypes[id] # Absent

Structure ==
    /\ OneHeldPerEndpoint /\ FoundOwned /\ NewIsMissing /\ StageFits /\ ListedOwned
    /\ PushUsed

SystemInv == SystemTypeOK /\ Structure /\ RowsTruthful

USE MaxAgeAssumption, CapAssumption, ProberAssumption, AbsentAssumption,
    JobAssumption, DiscoveryAssumption DEF Never, Stamps, Ages
-----------------------------------------------------------------------------
(* The operators *)

\* There is a first source, and every pass over one is a Pass.
LEMMA AtSourceType ==
    /\ Len(SourceOrder) \in Nat /\ Len(SourceOrder) >= 1
    /\ Idle \in Pass
    /\ \A n \in 1 .. Len(SourceOrder) : AtSource(n) \in Pass
<1>1. Len(SourceOrder) \in Nat /\ Len(SourceOrder) # 0
    OBVIOUS
<1>2. Nothing \in [Ids -> Row \cup {Absent}]
    BY DEF Nothing
<1>3. ASSUME NEW n \in 1 .. Len(SourceOrder) PROVE AtSource(n) \in Pass
    BY <1>2 DEF AtSource, Pass
<1>4. 1 \in 1 .. Len(SourceOrder)
    BY <1>1
<1>5. Idle \in Pass
    BY <1>2, <1>4 DEF AtSource, Idle, Pass
<1> QED
    BY <1>1, <1>3, <1>5

\* What a pass that starts or ends holds: nothing.
LEMMA FreshPass ==
    ASSUME NEW p, p = Idle \/ \E n \in 1 .. Len(SourceOrder) : p = AtSource(n)
    PROVE  /\ p \in Pass /\ p.found = Absent /\ p.stage # "mark"
           /\ \A id \in Ids : p.listed[id] = Absent
<1>1. p \in Pass
    BY AtSourceType
<1> QED
    BY <1>1 DEF Idle, AtSource, Nothing

LEMMA NextSourceFresh ==
    ASSUME DiscoveryTypeOK
    PROVE  NextSource = Idle \/ \E n \in 1 .. Len(SourceOrder) : NextSource = AtSource(n)
<1>1. pass.turn \in 1 .. Len(SourceOrder)
    BY DEF DiscoveryTypeOK, Pass
<1>2. \A a, b \in Nat : a \in 1 .. b /\ a < b => a + 1 \in 1 .. b
    OBVIOUS
<1>3. CASE pass.turn < Len(SourceOrder)
    BY <1>1, <1>2, <1>3, AtSourceType DEF NextSource
<1>4. CASE ~(pass.turn < Len(SourceOrder))
    BY <1>4 DEF NextSource
<1> QED
    BY <1>3, <1>4

\* The fields of a pass.
LEMMA PassFields ==
    ASSUME NEW p \in Pass
    PROVE  /\ p.stage \in {"idle", "source", "upsert", "mark"}
           /\ p.turn \in 1 .. Len(SourceOrder)
           /\ p.todo \in SUBSET Cards /\ p.seen \in SUBSET Ids
           /\ p.found \in Found \cup {Absent}
           /\ p.listed \in [Ids -> Row \cup {Absent}]
BY DEF Pass

\* The fields of what was found.
LEMMA FoundFields ==
    ASSUME NEW f \in Found
    PROVE  /\ f.at \in Cards /\ f.at \in AgentType
           /\ f.id \in Ids \cup {Absent} /\ f.row \in Row \cup {Absent}
BY DEF Found

\* A row with another last_seen, or marked offline, is a row, and so is an older one.
LEMMA RowEdits ==
    ASSUME NEW row \in Row
    PROVE  /\ [row EXCEPT !.seen = 0] \in Row
           /\ [row EXCEPT !.seen = 0].h = row.h
           /\ [row EXCEPT !.h.state = "offline"] \in Row
           /\ [row EXCEPT !.h.state = "offline"].h = [row.h EXCEPT !.state = "offline"]
           /\ OlderRow(row) \in Row /\ OlderRow(row).h = OlderHealth(row.h)
<1>1. row.h \in Health /\ row.seen \in Ages /\ row # Absent
    BY DEF Row
<1>2. [row.h EXCEPT !.state = "offline"] \in Health
    BY <1>1 DEF Health, LifecycleState
<1>3. Older(row.seen) \in Ages /\ OlderHealth(row.h) \in Health
    BY <1>1, OlderType, OlderHealthType
<1>4. 0 \in Ages
    OBVIOUS
<1>5. OlderRow(row) = [h |-> OlderHealth(row.h), seen |-> Older(row.seen)]
    BY <1>1 DEF OlderRow
<1>6. [row EXCEPT !.seen = 0] \in Row /\ [row EXCEPT !.seen = 0].h = row.h
    BY <1>1, <1>4 DEF Row
<1>7. OlderRow(row) \in Row /\ OlderRow(row).h = OlderHealth(row.h)
    BY <1>3, <1>5 DEF Row
<1>8. /\ [row EXCEPT !.h.state = "offline"] \in Row
      /\ [row EXCEPT !.h.state = "offline"].h = [row.h EXCEPT !.state = "offline"]
    BY <1>1, <1>2 DEF Row
<1> QED
    BY <1>6, <1>7, <1>8

\* A whole-row save leaves a well-formed table, touches no other entry, and either
\* does nothing or leaves exactly what was saved.
LEMMA UpdateRow ==
    ASSUME StoreTypeOK, NEW id \in Ids, NEW row \in Row, NEW at \in AgentType,
           Update(id, row, at)
    PROVE  /\ StoreTypeOK'
           /\ \A k \in Ids \ {id} : entries'[k] = entries[k] /\ agentTypes'[k] = agentTypes[k]
           /\ \/ UNCHANGED <<entries, agentTypes>>
              \/ entries'[id] = row /\ agentTypes'[id] = at
<1>1. row # Absent /\ at # Absent
    OBVIOUS
<1>2. CASE UpdateRefused(id, at)
    BY <1>2 DEF Update, StoreTypeOK, storeVars
<1>3. CASE ~UpdateRefused(id, at)
    BY <1>1, <1>3 DEF Update, StoreTypeOK
<1> QED
    BY <1>2, <1>3

\* A non-empty set of ids has a first one.
LEMMA FirstId ==
    ASSUME NEW S \in SUBSET Ids, S # {}
    PROVE  \E x \in S : \A y \in S : x <= y
<1> DEFINE R == OpToRel(<, Nat)
<1>1. IsWellFoundedOn(R, Nat)
    BY NatLessThanWellFounded
<1>2. PICK x \in S : \A y \in S : ~(<<y, x>> \in R)
    <2> HIDE DEF R
    <2> QED
        BY <1>1, WFMin
<1>3. \A y \in S : ~(y < x)
    BY <1>2 DEF OpToRel
<1> QED
    BY <1>3

\* FindByEndpoint returns an entry at the endpoint if there is one.
LEMMA FindByEndpointFinds ==
    ASSUME NEW e, Matches(e) # {}
    PROVE  /\ FindByEndpoint(e) \in Ids /\ Present(FindByEndpoint(e))
           /\ agentTypes[FindByEndpoint(e)].endpoint = e
<1>1. Matches(e) \in SUBSET Ids
    BY DEF Matches
<1>2. \E id \in Matches(e) : \A other \in Matches(e) : id <= other
    BY <1>1, FirstId
<1>3. FindByEndpoint(e) \in Matches(e)
    BY <1>2, Zenon DEF FindByEndpoint
<1> QED
    BY <1>3 DEF Matches
-----------------------------------------------------------------------------
(* Steps after which there is no copy of a row that was not there before *)

\* Rows and copies may have gone, aged or changed in the health columns; none is new.
Shrinks ==
    /\ \A id \in Ids : entries'[id] # Absent => entries[id] # Absent
    /\ pass'.found # Absent =>
          /\ pass.found # Absent /\ pass'.stage = pass.stage
          /\ pass'.found.id = pass.found.id /\ pass'.found.at = pass.found.at
          /\ pass.found.row # Absent => pass'.found.row # Absent
    /\ \A id \in Ids : pass'.listed[id] # Absent => pass.listed[id] # Absent
    /\ pass'.stage # "mark" => \A id \in Ids : pass'.listed[id] = Absent

\* Such steps keep everything that is said about which rows and copies there are.
LEMMA ShrinkingKeepsStructure ==
    ASSUME SystemTypeOK, Structure, Shrinks, UNCHANGED <<agentTypes, sourceOf>>
    PROVE  Structure'
<1>1. \A id \in Ids : Held(id)' => Held(id)
    BY DEF Held, Present, Shrinks
<1>2. OneHeldPerEndpoint'
    BY <1>1 DEF Structure, OneHeldPerEndpoint, Discovered
<1>3. FoundOwned'
    BY DEF Structure, FoundOwned, Shrinks, Discovered
<1>4. NewIsMissing'
    BY DEF Structure, NewIsMissing, Shrinks, Discovered, Present
<1>5. StageFits'
    BY DEF Structure, StageFits, Shrinks
<1>6. ListedOwned' /\ PushUsed'
    BY DEF Structure, ListedOwned, PushUsed, Shrinks, Discovered
<1> QED
    BY <1>2, <1>3, <1>4, <1>5, <1>6 DEF Structure

\* A pass that ends, or starts, holds nothing.
LEMMA FreshShrinks ==
    ASSUME SystemTypeOK, pass' = Idle \/ \E n \in 1 .. Len(SourceOrder) : pass' = AtSource(n),
           UNCHANGED entries
    PROVE  pass' \in Pass /\ Shrinks
BY FreshPass DEF Shrinks

\* The copies that the manager drops.
Drops ==
    \/ StartRun \/ DiscoverFails \/ CreateRefused \/ EndUpsert \/ QueryFails \/ SaveFails
    \/ \E cards \in SUBSET Cards : Discover(cards)
    \/ \E id \in Ids : MarkFails(id)

\* The steps of the manager that save, find and list nothing.
LEMMA DropsShrink ==
    ASSUME SystemTypeOK, StageFits, Drops
    PROVE  /\ UNCHANGED <<storeVars, sourceOf>>
           /\ pass' \in Pass /\ Shrinks
           /\ pass'.found \in {pass.found, Absent}
           /\ \A id \in Ids : pass'.listed[id] \in {pass.listed[id], Absent}
<1>0. pass \in Pass
    BY DEF SystemTypeOK, DiscoveryTypeOK
<1>1. UNCHANGED <<storeVars, sourceOf>>
    BY DEF Drops, StartRun, DiscoverFails, CreateRefused, EndUpsert, QueryFails, SaveFails,
           Discover, MarkFails
<1>2. ASSUME StartRun \/ DiscoverFails \/ EndUpsert \/ QueryFails
      PROVE  /\ pass' \in Pass /\ Shrinks /\ pass'.found = Absent
             /\ \A id \in Ids : pass'.listed[id] = Absent
    <2>1. pass' = Idle \/ \E n \in 1 .. Len(SourceOrder) : pass' = AtSource(n)
        <3>1. CASE StartRun
            <4>1. 1 \in 1 .. Len(SourceOrder)
                BY AtSourceType
            <4> QED
                BY <3>1, <4>1 DEF StartRun
        <3>2. CASE DiscoverFails \/ EndUpsert \/ QueryFails
            BY <3>2, NextSourceFresh
            DEF DiscoverFails, EndUpsert, QueryFails, SystemTypeOK
        <3> QED
            BY <1>2, <3>1, <3>2
    <2> QED
        BY <1>1, <2>1, FreshShrinks, FreshPass DEF storeVars
<1>3. ASSUME NEW cards \in SUBSET Cards, Discover(cards)
      PROVE  /\ pass' \in Pass /\ Shrinks /\ pass'.found = pass.found
             /\ pass'.listed = pass.listed
    <2>1. pass' = [pass EXCEPT !.stage = "upsert", !.todo = cards] /\ pass.stage = "source"
        BY <1>3 DEF Discover
    <2>2. /\ pass' \in Pass /\ pass'.stage = "upsert" /\ pass'.found = pass.found
          /\ pass'.listed = pass.listed
        BY <1>0, <2>1 DEF Pass
    <2> QED
        BY <1>1, <2>1, <2>2 DEF Shrinks, StageFits, storeVars
<1>4. ASSUME CreateRefused \/ SaveFails
      PROVE  /\ pass' \in Pass /\ Shrinks /\ pass'.found = Absent
             /\ pass'.listed = pass.listed
    <2>1. PICK s \in SUBSET Ids : pass' = [pass EXCEPT !.found = Absent, !.seen = s]
        <3>1. CASE CreateRefused
            <4>1. pass' = [pass EXCEPT !.found = Absent, !.seen = pass.seen]
                BY <1>0, <3>1 DEF CreateRefused, Pass
            <4> QED
                BY <1>0, <4>1, PassFields
        <3>2. CASE SaveFails
            BY <1>0, <3>2, PassFields DEF SaveFails
        <3> QED
            BY <1>4, <3>1, <3>2
    <2>2. /\ pass' \in Pass /\ pass'.stage = pass.stage /\ pass'.found = Absent
          /\ pass'.listed = pass.listed
        BY <1>0, <2>1 DEF Pass
    <2> QED
        BY <1>1, <2>2 DEF Shrinks, StageFits, storeVars
<1>5. ASSUME NEW id \in Ids, MarkFails(id)
      PROVE  /\ pass' \in Pass /\ Shrinks /\ pass'.found = pass.found
             /\ \A k \in Ids : pass'.listed[k] \in {pass.listed[k], Absent}
    <2> DEFINE l == [pass.listed EXCEPT ![id] = Absent]
    <2>1. pass' = [pass EXCEPT !.listed = l]
        BY <1>5 DEF MarkFails
    <2>2. /\ l \in [Ids -> Row \cup {Absent}]
          /\ \A k \in Ids : l[k] \in {pass.listed[k], Absent}
        BY <1>0, PassFields
    <2> HIDE DEF l
    <2>3. /\ pass' \in Pass /\ pass'.stage = pass.stage /\ pass'.found = pass.found
          /\ pass'.listed = l
        BY <1>0, <2>1, <2>2 DEF Pass
    <2> QED
        BY <1>1, <2>2, <2>3 DEF Shrinks, StageFits, storeVars
<1> QED
    BY <1>1, <1>2, <1>3, <1>4, <1>5 DEF Drops
-----------------------------------------------------------------------------
(* The steps of the manager that take a copy of a row, or write one *)

\* Find takes a copy of a row of discovery's own, or takes note that there is none, or
\* passes over the card.
LEMMA FindEffect ==
    ASSUME SystemTypeOK, StageFits, NEW at \in Cards, Find(at)
    PROVE  /\ pass' \in Pass /\ pass'.stage = "upsert" /\ pass.stage = "upsert"
           /\ pass'.listed = pass.listed
           /\ \/ pass'.found = Absent
              \/ /\ pass'.found = [at |-> at, id |-> Absent, row |-> Absent]
                 /\ Matches(at.endpoint) = {}
              \/ \E id \in Ids :
                    /\ Present(id) /\ Discovered(id) /\ agentTypes[id].endpoint = at.endpoint
                    /\ entries[id] \in Row
                    /\ pass'.found = [at |-> at, id |-> id, row |-> [entries[id] EXCEPT !.seen = 0]]
<1> DEFINE id == FindByEndpoint(at.endpoint)
           none == [at |-> at, id |-> Absent, row |-> Absent]
           some == [at |-> at, id |-> id, row |-> [entries[id] EXCEPT !.seen = 0]]
           found == IF Matches(at.endpoint) = {} THEN none
                    ELSE IF sourceOf[id] = "push" THEN Absent ELSE some
<1>0. pass \in Pass /\ StoreTypeOK
    BY DEF SystemTypeOK, DiscoveryTypeOK, TypeOK
<1>1. pass' = [pass EXCEPT !.todo = @ \ {at}, !.found = found] /\ pass.stage = "upsert"
    BY DEF Find
<1>2. CASE Matches(at.endpoint) = {}
    <2>1. found = none /\ none \in Found
        BY <1>2 DEF Found
    <2> HIDE DEF found, none
    <2>2. /\ pass' \in Pass /\ pass'.stage = "upsert" /\ pass'.listed = pass.listed
          /\ pass'.found = none
        BY <1>0, <1>1, <2>1, PassFields DEF Pass
    <2> QED
        BY <1>1, <1>2, <2>2 DEF none
<1>3. CASE Matches(at.endpoint) # {} /\ sourceOf[id] = "push"
    <2>1. found = Absent
        BY <1>3
    <2> HIDE DEF found
    <2> QED
        BY <1>0, <1>1, <2>1, PassFields DEF Pass
<1>4. CASE Matches(at.endpoint) # {} /\ sourceOf[id] # "push"
    <2>1. id \in Ids /\ Present(id) /\ agentTypes[id].endpoint = at.endpoint
        BY <1>4, FindByEndpointFinds
    <2>2. entries[id] \in Row /\ Discovered(id)
        BY <1>0, <1>4, <2>1 DEF StoreTypeOK, Present, Discovered
    <2>3. [entries[id] EXCEPT !.seen = 0] \in Row
        BY <2>2, RowEdits
    <2>4. found = some
        BY <1>4
    <2> HIDE DEF id, found
    <2>5. some \in Found
        BY <2>1, <2>3 DEF Found
    <2> HIDE DEF some
    <2>6. /\ pass' \in Pass /\ pass'.stage = "upsert" /\ pass'.listed = pass.listed
          /\ pass'.found = some
        BY <1>0, <1>1, <2>4, <2>5, PassFields DEF Pass
    <2> QED
        BY <1>1, <2>1, <2>2, <2>6 DEF some
<1> QED
    BY <1>2, <1>3, <1>4

\* Saving what was found: a whole-row save, then the copy is gone.
LEMMA SaveFoundEffect ==
    ASSUME SystemTypeOK, Structure, SaveFound
    PROVE  /\ pass.found \in Found /\ pass.found.id \in Ids
           /\ pass.found.row \in Row /\ pass.found.at \in AgentType
           /\ Update(pass.found.id, pass.found.row, pass.found.at)
           /\ pass' \in Pass /\ pass'.found = Absent /\ pass'.stage = pass.stage
           /\ pass'.listed = pass.listed /\ sourceOf' = sourceOf
<1>0. pass \in Pass
    BY DEF SystemTypeOK, DiscoveryTypeOK
<1>1. /\ pass.found # Absent /\ pass.found.id # Absent
      /\ Update(pass.found.id, pass.found.row, pass.found.at) /\ sourceOf' = sourceOf
      /\ pass' = [pass EXCEPT !.found = Absent, !.seen = @ \cup {pass.found.id}]
    BY DEF SaveFound
<1>2. pass.found \in Found
    BY <1>0, <1>1, PassFields
<1>3. pass.found.id \in Ids /\ pass.found.row \in Row /\ pass.found.at \in AgentType
    BY <1>1, <1>2, FoundFields DEF Structure, FoundOwned
<1>4. pass' \in Pass /\ pass'.found = Absent /\ pass'.stage = pass.stage
      /\ pass'.listed = pass.listed
    BY <1>0, <1>1, <1>3, PassFields DEF Pass
<1> QED
    BY <1>1, <1>2, <1>3, <1>4

\* Creating what was not found: a new row of this source under an unused id.
LEMMA CreateFoundEffect ==
    ASSUME SystemTypeOK, Structure, NEW id \in Ids, CreateFound(id)
    PROVE  /\ pass.found \in Found /\ pass.found.id = Absent /\ pass.found.at \in AgentType
           /\ Create(id, pass.found.at) /\ StoreTypeOK'
           /\ sourceOf' = [sourceOf EXCEPT ![id] = Source]
           /\ Source \in {"config", "k8s"}
           /\ pass.stage = "upsert" /\ \A k \in Ids : pass.listed[k] = Absent
           /\ pass' \in Pass /\ pass'.found = Absent /\ pass'.stage = "upsert"
           /\ pass'.listed = pass.listed
<1>0. pass \in Pass /\ StoreTypeOK
    BY DEF SystemTypeOK, DiscoveryTypeOK, TypeOK
<1>1. /\ pass.found # Absent /\ pass.found.id = Absent /\ Create(id, pass.found.at)
      /\ sourceOf' = [sourceOf EXCEPT ![id] = Source]
      /\ pass' = [pass EXCEPT !.found = Absent, !.seen = @ \cup {id}]
    BY DEF CreateFound
<1>2. pass.found \in Found /\ pass.found.at \in AgentType
    BY <1>0, <1>1, PassFields, FoundFields
<1>3. pass.stage = "upsert" /\ \A k \in Ids : pass.listed[k] = Absent
    BY <1>1 DEF Structure, StageFits
<1>4. Source \in {"config", "k8s"}
    BY <1>0, PassFields DEF Source
<1>5. pass' \in Pass /\ pass'.found = Absent /\ pass'.stage = pass.stage
      /\ pass'.listed = pass.listed
    BY <1>0, <1>1, PassFields DEF Pass
<1> QED
    BY <1>0, <1>1, <1>2, <1>3, <1>4, <1>5, CreateType

\* Listing takes a copy of rows of this source, marked offline.
LEMMA ListUnseenEffect ==
    ASSUME SystemTypeOK, StageFits, ListUnseen
    PROVE  /\ pass' \in Pass /\ pass'.stage = "mark" /\ pass'.found = Absent
           /\ pass.found = Absent
           /\ \A id \in Ids : pass'.listed[id] # Absent =>
                 /\ Present(id) /\ sourceOf[id] \in {"config", "k8s"} /\ entries[id] \in Row
                 /\ pass'.listed[id] = [entries[id] EXCEPT !.h.state = "offline"]
<1> DEFINE l == [id \in Ids |-> IF Present(id) /\ sourceOf[id] = Source /\ id \notin pass.seen
                                THEN [entries[id] EXCEPT !.h.state = "offline"]
                                ELSE Absent]
<1>0. pass \in Pass /\ StoreTypeOK
    BY DEF SystemTypeOK, DiscoveryTypeOK, TypeOK
<1>1. pass' = [pass EXCEPT !.stage = "mark", !.listed = l] /\ pass.found = Absent
    BY DEF ListUnseen
<1>2. Source \in {"config", "k8s"}
    BY <1>0, PassFields DEF Source
<1>3. \A id \in Ids : Present(id) => entries[id] \in Row
                                     /\ [entries[id] EXCEPT !.h.state = "offline"] \in Row
    <2>1. \A id \in Ids : Present(id) => entries[id] \in Row
        BY <1>0 DEF StoreTypeOK, Present
    <2> QED
        BY <2>1, RowEdits, Zenon
<1>4. l \in [Ids -> Row \cup {Absent}]
    BY <1>3
<1>5. \A id \in Ids : l[id] # Absent =>
          /\ Present(id) /\ sourceOf[id] \in {"config", "k8s"} /\ entries[id] \in Row
          /\ l[id] = [entries[id] EXCEPT !.h.state = "offline"]
    <2> SUFFICES ASSUME NEW id \in Ids, l[id] # Absent
                 PROVE  /\ Present(id) /\ sourceOf[id] = Source
                        /\ l[id] = [entries[id] EXCEPT !.h.state = "offline"]
        BY <1>2, <1>3
    <2> QED
        BY Zenon
<1> HIDE DEF l
<1>6. pass' \in Pass /\ pass'.stage = "mark" /\ pass'.found = pass.found /\ pass'.listed = l
    BY <1>0, <1>1, <1>4 DEF Pass
<1> QED
    BY <1>1, <1>5, <1>6

\* Marking saves a listed copy, then that copy is gone.
LEMMA MarkDownEffect ==
    ASSUME SystemTypeOK, Structure, NEW id \in Ids, MarkDown(id)
    PROVE  /\ pass.listed[id] \in Row /\ agentTypes[id] \in AgentType /\ Discovered(id)
           /\ Update(id, pass.listed[id], agentTypes[id])
           /\ pass' \in Pass /\ pass'.found = pass.found /\ pass'.stage = pass.stage
           /\ pass'.listed[id] = Absent
           /\ \A k \in Ids \ {id} : pass'.listed[k] = pass.listed[k]
           /\ sourceOf' = sourceOf
<1> DEFINE l == [pass.listed EXCEPT ![id] = Absent]
<1>0. pass \in Pass /\ StoreTypeOK
    BY DEF SystemTypeOK, DiscoveryTypeOK, TypeOK
<1>1. /\ pass' = [pass EXCEPT !.listed = l] /\ sourceOf' = sourceOf
      /\ pass.listed[id] # Absent /\ Update(id, pass.listed[id], agentTypes[id])
    BY DEF MarkDown
<1>2. pass.listed[id] \in Row /\ agentTypes[id] \in AgentType /\ Discovered(id)
    BY <1>0, <1>1, PassFields DEF Structure, ListedOwned, StoreTypeOK
<1>3. /\ l \in [Ids -> Row \cup {Absent}] /\ l[id] = Absent
      /\ \A k \in Ids \ {id} : l[k] = pass.listed[k]
    BY <1>0, PassFields
<1> HIDE DEF l
<1>4. pass' \in Pass /\ pass'.found = pass.found /\ pass'.stage = pass.stage /\ pass'.listed = l
    BY <1>0, <1>1, <1>3 DEF Pass
<1> QED
    BY <1>1, <1>2, <1>3, <1>4
-----------------------------------------------------------------------------
(* Which rows and copies there are: the manager *)

\* Find: the copy that is taken is of a row that is there.
LEMMA FindKeeps ==
    ASSUME SystemTypeOK, Structure, NEW at \in Cards, Find(at)
    PROVE  Structure'
<1>0. UNCHANGED <<entries, agentTypes, sourceOf>> /\ pass.found = Absent
    BY DEF Find, storeVars
<1>1. /\ pass' \in Pass /\ pass'.stage = "upsert" /\ pass.stage = "upsert"
      /\ pass'.listed = pass.listed
    BY FindEffect DEF Structure
<1>2. ListedOwned' /\ PushUsed' /\ StageFits'
    BY <1>0, <1>1 DEF Structure, ListedOwned, PushUsed, StageFits, Discovered
<1>3. CASE pass'.found = Absent
    <2>1. Shrinks
        BY <1>0, <1>1, <1>3 DEF Shrinks, Structure, StageFits
    <2> QED
        BY <1>0, <2>1, ShrinkingKeepsStructure
<1>4. CASE /\ pass'.found = [at |-> at, id |-> Absent, row |-> Absent]
           /\ Matches(at.endpoint) = {}
    <2>1. \A id \in Ids : Held(id)' => Held(id)
        BY <1>0, <1>1, <1>4 DEF Held, Present
    <2>2. OneHeldPerEndpoint' /\ FoundOwned'
        BY <1>0, <1>4, <2>1 DEF Structure, OneHeldPerEndpoint, FoundOwned, Discovered
    <2>3. NewIsMissing'
        BY <1>0, <1>4 DEF NewIsMissing, Matches, Present
    <2> QED
        BY <1>2, <2>2, <2>3 DEF Structure
<1>5. ASSUME NEW id \in Ids, Present(id), Discovered(id),
             agentTypes[id].endpoint = at.endpoint, entries[id] \in Row,
             pass'.found = [at |-> at, id |-> id, row |-> [entries[id] EXCEPT !.seen = 0]]
      PROVE  Structure'
    <2>1. \A k \in Ids : Held(k)' => Held(k)
        BY <1>0, <1>1, <1>5 DEF Held, Present
    <2>2. OneHeldPerEndpoint'
        BY <1>0, <2>1 DEF Structure, OneHeldPerEndpoint, Discovered
    <2>3. agentTypes[id] # Absent
        BY <1>5 DEF Present, SystemTypeOK, TypeOK, StoreTypeOK
    <2>4. [entries[id] EXCEPT !.seen = 0] # Absent
        BY <1>5, RowEdits
    <2>5. /\ pass'.found.id = id /\ pass'.found.at = at
          /\ pass'.found.row = [entries[id] EXCEPT !.seen = 0]
        BY <1>5
    <2>6. FoundOwned' /\ NewIsMissing'
        BY <1>0, <1>5, <2>3, <2>4, <2>5 DEF FoundOwned, NewIsMissing, Discovered
    <2> QED
        BY <1>2, <2>2, <2>6 DEF Structure
<1> QED
    BY <1>3, <1>4, <1>5, FindEffect DEF Structure

\* Saving what was found keeps its endpoint, and brings back no more than was held.
LEMMA SaveFoundKeeps ==
    ASSUME SystemTypeOK, Structure, SaveFound
    PROVE  StoreTypeOK' /\ Structure'
<1> DEFINE i == pass.found.id
<1>1. /\ i \in Ids /\ i # Absent /\ pass.found # Absent
      /\ pass.found.row \in Row /\ pass.found.at \in AgentType
      /\ Update(i, pass.found.row, pass.found.at)
      /\ pass'.found = Absent /\ pass'.stage = pass.stage
      /\ pass'.listed = pass.listed /\ sourceOf' = sourceOf
    BY SaveFoundEffect DEF SaveFound
<1>2. /\ StoreTypeOK'
      /\ \A k \in Ids \ {i} : entries'[k] = entries[k] /\ agentTypes'[k] = agentTypes[k]
      /\ \/ UNCHANGED <<entries, agentTypes>>
         \/ entries'[i] = pass.found.row /\ agentTypes'[i] = pass.found.at
    <2>1. StoreTypeOK
        BY DEF SystemTypeOK, TypeOK
    <2>2. PICK k \in Ids, r \in Row, a \in AgentType :
              k = i /\ r = pass.found.row /\ a = pass.found.at /\ Update(k, r, a)
        BY <1>1
    <2>3. /\ StoreTypeOK'
          /\ \A m \in Ids \ {k} : entries'[m] = entries[m] /\ agentTypes'[m] = agentTypes[m]
          /\ UNCHANGED <<entries, agentTypes>> \/ (entries'[k] = r /\ agentTypes'[k] = a)
        BY <2>1, <2>2, UpdateRow
    <2> QED
        BY <2>2, <2>3
<1>3. agentTypes[i].endpoint = pass.found.at.endpoint /\ agentTypes[i] # Absent /\ Discovered(i)
    BY <1>1 DEF Structure, FoundOwned
<1>4. \A k \in Ids : /\ agentTypes'[k].endpoint = agentTypes[k].endpoint
                     /\ agentTypes[k] # Absent => agentTypes'[k] # Absent
    BY <1>1, <1>2, <1>3
<1>5. \A k \in Ids : Held(k)' => Held(k)
    BY <1>1, <1>2 DEF Held, Present
<1>6. OneHeldPerEndpoint'
    BY <1>1, <1>4, <1>5 DEF Structure, OneHeldPerEndpoint, Discovered
<1>7. FoundOwned' /\ NewIsMissing' /\ StageFits' /\ ListedOwned' /\ PushUsed'
    BY <1>1, <1>4
    DEF Structure, FoundOwned, NewIsMissing, StageFits, ListedOwned, PushUsed, Discovered
<1> QED
    BY <1>2, <1>6, <1>7 DEF Structure

\* A new entry is the only one at its endpoint.
LEMMA CreateFoundKeeps ==
    ASSUME SystemTypeOK, Structure, NEW id \in Ids, CreateFound(id)
    PROVE  StoreTypeOK' /\ Structure' /\ sourceOf' \in [Ids -> SourceTypes \cup {Absent}]
           /\ sourceOf[id] # "push"
<1>1. /\ pass.found # Absent /\ pass.found.id = Absent /\ pass.found.at \in AgentType
      /\ Create(id, pass.found.at) /\ StoreTypeOK'
      /\ sourceOf' = [sourceOf EXCEPT ![id] = Source]
      /\ Source \in {"config", "k8s"}
      /\ \A k \in Ids : pass.listed[k] = Absent
      /\ pass'.found = Absent /\ pass'.stage = "upsert"
      /\ pass'.listed = pass.listed
    BY CreateFoundEffect DEF CreateFound
<1>2. /\ agentTypes[id] = Absent /\ agentTypes'[id] = pass.found.at
      /\ \A k \in Ids \ {id} : entries'[k] = entries[k] /\ agentTypes'[k] = agentTypes[k]
      /\ pass.found.at # Absent
    BY <1>1 DEF Create, SystemTypeOK, TypeOK, StoreTypeOK
<1>3. /\ sourceOf'[id] = Source /\ \A k \in Ids \ {id} : sourceOf'[k] = sourceOf[k]
      /\ sourceOf' \in [Ids -> SourceTypes \cup {Absent}]
    BY <1>1 DEF SystemTypeOK, DiscoveryTypeOK, SourceTypes
<1>4. \A k \in Ids \ {id} : Held(k)' => Present(k)
    BY <1>1, <1>2 DEF Held, Present
<1>5. ASSUME NEW k \in Ids \ {id}, Present(k), Discovered(k)
      PROVE  agentTypes[k].endpoint # pass.found.at.endpoint
    BY <1>1, <1>5 DEF Structure, NewIsMissing
<1>6. OneHeldPerEndpoint'
    <2> SUFFICES ASSUME NEW a \in Ids, NEW b \in Ids, Held(a)', Held(b)', Discovered(a)',
                        Discovered(b)', agentTypes'[a].endpoint = agentTypes'[b].endpoint
                 PROVE  a = b
        BY DEF OneHeldPerEndpoint
    <2>1. \A k \in Ids \ {id} : Discovered(k)' => Discovered(k)
        BY <1>3 DEF Discovered
    <2>2. CASE a = id \/ b = id
        BY <1>2, <1>4, <1>5, <2>1, <2>2
    <2>3. CASE a # id /\ b # id
        BY <1>2, <1>4, <2>1, <2>3 DEF Structure, OneHeldPerEndpoint, Held
    <2> QED
        BY <2>2, <2>3
<1>7. FoundOwned' /\ NewIsMissing' /\ StageFits' /\ ListedOwned' /\ PushUsed'
    BY <1>1, <1>2, <1>3
    DEF Structure, FoundOwned, NewIsMissing, StageFits, ListedOwned, PushUsed, Discovered
<1> QED
    BY <1>1, <1>2, <1>3, <1>6, <1>7 DEF Structure, PushUsed

\* Listing takes copies of rows that are there.
LEMMA ListUnseenKeeps ==
    ASSUME SystemTypeOK, Structure, ListUnseen
    PROVE  Structure'
<1>1. /\ UNCHANGED <<entries, agentTypes, sourceOf>>
      /\ pass'.stage = "mark" /\ pass'.found = Absent
    BY ListUnseenEffect DEF ListUnseen, storeVars, Structure
<1>2. \A id \in Ids : pass'.listed[id] # Absent => Present(id) /\ Discovered(id)
    BY ListUnseenEffect DEF Structure, Discovered
<1>3. \A id \in Ids : Held(id)' => Held(id)
    BY <1>1, <1>2 DEF Held, Present
<1>4. OneHeldPerEndpoint'
    BY <1>1, <1>3 DEF Structure, OneHeldPerEndpoint, Discovered
<1>5. \A id \in Ids : Present(id) => agentTypes[id] # Absent
    BY DEF SystemTypeOK, TypeOK, StoreTypeOK, Present
<1>6. FoundOwned' /\ NewIsMissing' /\ StageFits' /\ ListedOwned' /\ PushUsed'
    BY <1>1, <1>2, <1>5
    DEF Structure, FoundOwned, NewIsMissing, StageFits, ListedOwned, PushUsed, Discovered
<1> QED
    BY <1>4, <1>6 DEF Structure

\* Marking brings back no more than was held.
LEMMA MarkDownKeeps ==
    ASSUME SystemTypeOK, Structure, NEW id \in Ids, MarkDown(id)
    PROVE  StoreTypeOK' /\ Structure'
<1>1. /\ pass.listed[id] \in Row /\ agentTypes[id] \in AgentType /\ Discovered(id)
      /\ Update(id, pass.listed[id], agentTypes[id])
      /\ pass'.found = pass.found /\ pass'.stage = pass.stage
      /\ pass'.listed[id] = Absent
      /\ \A k \in Ids \ {id} : pass'.listed[k] = pass.listed[k]
      /\ sourceOf' = sourceOf /\ pass.listed[id] # Absent
    BY MarkDownEffect
<1>2. /\ StoreTypeOK'
      /\ \A k \in Ids \ {id} : entries'[k] = entries[k]
      /\ \A k \in Ids : agentTypes'[k] = agentTypes[k]
    BY <1>1, UpdateRow DEF SystemTypeOK, TypeOK
<1>3. pass.stage = "mark" /\ pass.found = Absent
    BY <1>1 DEF Structure, StageFits
<1>4. \A k \in Ids : Held(k)' => Held(k)
    BY <1>1, <1>2 DEF Held, Present
<1>5. OneHeldPerEndpoint'
    BY <1>1, <1>2, <1>4 DEF Structure, OneHeldPerEndpoint, Discovered
<1>6. FoundOwned' /\ NewIsMissing' /\ StageFits' /\ ListedOwned' /\ PushUsed'
    BY <1>1, <1>2, <1>3
    DEF Structure, FoundOwned, NewIsMissing, StageFits, ListedOwned, PushUsed, Discovered
<1> QED
    BY <1>2, <1>5, <1>6 DEF Structure

\* Every step of the manager, with or without a failing store.
LEMMA ManagerKeepsStructure ==
    ASSUME SystemTypeOK, Structure, DiscoveryStep \/ DiscoveryFault
    PROVE  StoreTypeOK' /\ DiscoveryTypeOK' /\ Structure'
<1>0. StoreTypeOK /\ sourceOf \in [Ids -> SourceTypes \cup {Absent}]
    BY DEF SystemTypeOK, TypeOK, DiscoveryTypeOK
<1>1. CASE Drops
    <2>1. UNCHANGED <<storeVars, sourceOf>> /\ pass' \in Pass /\ Shrinks
        BY <1>1, DropsShrink DEF Structure
    <2> QED
        BY <1>0, <2>1, ShrinkingKeepsStructure DEF storeVars, StoreTypeOK, DiscoveryTypeOK
<1>2. ASSUME NEW at \in Cards, Find(at) PROVE StoreTypeOK' /\ DiscoveryTypeOK' /\ Structure'
    BY <1>0, <1>2, FindKeeps, FindEffect
    DEF Find, storeVars, StoreTypeOK, DiscoveryTypeOK, Structure
<1>3. CASE SaveFound
    BY <1>0, <1>3, SaveFoundKeeps, SaveFoundEffect DEF DiscoveryTypeOK
<1>4. ASSUME NEW id \in Ids, CreateFound(id)
      PROVE  StoreTypeOK' /\ DiscoveryTypeOK' /\ Structure'
    BY <1>4, CreateFoundKeeps, CreateFoundEffect DEF DiscoveryTypeOK
<1>5. CASE ListUnseen
    BY <1>0, <1>5, ListUnseenKeeps, ListUnseenEffect
    DEF ListUnseen, storeVars, StoreTypeOK, DiscoveryTypeOK, Structure
<1>6. ASSUME NEW id \in Ids, MarkDown(id)
      PROVE  StoreTypeOK' /\ DiscoveryTypeOK' /\ Structure'
    BY <1>0, <1>6, MarkDownKeeps, MarkDownEffect DEF DiscoveryTypeOK
<1> QED
    BY <1>1, <1>2, <1>3, <1>4, <1>5, <1>6 DEF DiscoveryStep, DiscoveryFault, Drops
-----------------------------------------------------------------------------
(* Truthful copies under what is done to them *)

\* What RowsTruthful says of one copy.
True(id, h) == h \in Health /\ Truthful(id, h)

RowsTrue == \A id \in Ids : Present(id) => True(id, entries[id].h)

JobsTrue == \A w \in Workers : jobs[w] # Absent => True(jobs[w].id, jobs[w].h)

ListedTrue == \A id \in Ids : pass.listed[id] # Absent => True(id, pass.listed[id].h)

FoundTrue ==
    pass.found # Absent /\ pass.found.id # Absent => True(pass.found.id, pass.found.row.h)

\* RowsTruthful is that every row and every copy is true.
LEMMA TruthIsFourfold ==
    SystemTypeOK /\ FoundOwned =>
        (RowsTruthful <=> RowsTrue /\ JobsTrue /\ ListedTrue /\ FoundTrue)
<1> SUFFICES ASSUME SystemTypeOK, FoundOwned
             PROVE  RowsTruthful <=> RowsTrue /\ JobsTrue /\ ListedTrue /\ FoundTrue
    OBVIOUS
<1>0. pass \in Pass /\ StoreTypeOK /\ jobs \in [Workers -> Job \cup {Absent}]
    BY DEF SystemTypeOK, DiscoveryTypeOK, TypeOK
<1>1. \A id \in Ids : Present(id) => entries[id].h \in Health
    BY <1>0 DEF StoreTypeOK, Present, Row
<1>2. \A w \in Workers : jobs[w] # Absent => jobs[w].h \in Health
    BY <1>0 DEF Job
<1>3. \A id \in Ids : pass.listed[id] # Absent => pass.listed[id].h \in Health
    BY <1>0, PassFields DEF Row
<1>4. pass.found # Absent /\ pass.found.id # Absent => pass.found.row.h \in Health
    BY <1>0, PassFields, FoundFields DEF Row, FoundOwned
<1> QED
    BY <1>1, <1>2, <1>3, <1>4 DEF RowsTruthful, RowsTrue, JobsTrue, ListedTrue, FoundTrue, True

\* A copy stays true when time passes,
LEMMA TrueOlder ==
    ASSUME NEW id, NEW h, True(id, h)
    PROVE  True(id, OlderHealth(h))
<1>1. h \in Health /\ h.probed \in Stamps /\ h.succ \in Stamps
    BY DEF Health, True
<1>2. /\ OlderHealth(h) \in Health
      /\ OlderHealth(h).state = h.state /\ OlderHealth(h).fails = h.fails
      /\ OlderHealth(h).probed = Older(h.probed) /\ OlderHealth(h).succ = Older(h.succ)
    BY <1>1, OlderHealthType
<1>3. /\ Older(h.succ) >= Older(h.probed)
      /\ (Older(h.probed) = Never <=> h.probed = Never)
      /\ (Older(h.succ) = Never <=> h.succ = Never)
    BY <1>1, OlderType DEF True, Truthful
<1> HIDE DEF Never
<1> QED
    BY <1>2, <1>3 DEF True, Truthful

\* ... when an administrator, or the manager, sets the state,
LEMMA TruePatched ==
    ASSUME NEW id, NEW h, True(id, h), NEW g \in Health, g.state # "registered",
           g.fails = h.fails, g.probed = h.probed, g.succ = h.succ
    PROVE  True(id, g)
BY DEF True, Truthful

\* ... and when more failures have happened.
LEMMA TrueLater ==
    ASSUME NEW id \in Ids, NEW h, True(id, h), failures[id] \in 0 .. FailCap,
           failures'[id] \in 0 .. FailCap, failures[id] <= failures'[id]
    PROVE  True(id, h)'
BY DEF True, Truthful, Health

\* A new row is true.
LEMMA TrueNew ==
    ASSUME NEW id \in Ids, failures[id] \in 0 .. FailCap
    PROVE  True(id, NewHealth)
BY DEF True, Truthful, NewHealth, Health, LifecycleState

\* A probe of a true copy yields one, of which the failure that it counted is part.
LEMMA TrueProbed ==
    ASSUME NEW id \in Ids, NEW h, NEW at, NEW outcome \in Outcome, True(id, h),
           failures[id] \in 0 .. FailCap,
           failures'[id] = IF Failed(h, at, outcome) THEN CountUp(failures[id]) ELSE failures[id]
    PROVE  True(id, ProbeOne(h, at, outcome))'
<1>1. /\ h \in Health /\ h.fails \in 0 .. FailCap /\ h.probed \in Stamps /\ h.succ \in Stamps
      /\ h.fails <= failures[id]
    BY DEF Health, True, Truthful
<1>2. ProbeOne(h, at, outcome) \in Health
    BY <1>1, ProbeOneType
<1>a. CountUp(h.fails) <= CountUp(failures[id])
    BY <1>1 DEF CountUp
<1>3. CASE h.state = "deprecated"
    BY <1>1, <1>2, <1>3 DEF ProbeOne, Failed, NoRequest, True, Truthful
<1>4. CASE h.state # "deprecated" /\ at.endpoint = NoEndpoint
    <2>1. ProbeOne(h, at, outcome) = NoURLHealth(h) /\ Failed(h, at, outcome)
        BY <1>4 DEF ProbeOne, Failed, NoRequest
    <2>2. /\ NoURLHealth(h).state # "registered" /\ NoURLHealth(h).probed = 0
          /\ NoURLHealth(h).fails = CountUp(h.fails) /\ NoURLHealth(h).succ = h.succ
        BY DEF NoURLHealth
    <2>3. h.succ >= 0 /\ 0 # Never
        BY <1>1
    <2> QED
        BY <1>2, <1>a, <2>1, <2>2, <2>3 DEF True, Truthful
<1>5. CASE ~NoRequest(h, at) /\ outcome = "fail"
    <2>1. ProbeOne(h, at, outcome) = FailureHealth(h) /\ Failed(h, at, outcome)
        BY <1>5 DEF ProbeOne, Failed, NoRequest
    <2>2. /\ FailureHealth(h).state # "registered" /\ FailureHealth(h).probed = 0
          /\ FailureHealth(h).fails = CountUp(h.fails) /\ FailureHealth(h).succ = h.succ
        BY DEF FailureHealth
    <2>3. h.succ >= 0 /\ 0 # Never
        BY <1>1
    <2> QED
        BY <1>2, <1>a, <2>1, <2>2, <2>3 DEF True, Truthful
<1>6. CASE ~NoRequest(h, at) /\ outcome # "fail"
    <2>1. ProbeOne(h, at, outcome) = SuccessHealth(outcome = "slow") /\ ~Failed(h, at, outcome)
        BY <1>6 DEF ProbeOne, Failed, NoRequest
    <2> QED
        BY <1>1, <1>2, <2>1 DEF SuccessHealth, True, Truthful
<1> QED
    BY <1>3, <1>4, <1>5, <1>6 DEF NoRequest
-----------------------------------------------------------------------------
(* Truthful rows and jobs: the prober and the API *)

\* Failures are only added.
LEMMA FailuresGrow ==
    ASSUME TypeOK, TypeOK', [Next]_vars
    PROVE  \A id \in Ids : /\ failures[id] \in 0 .. FailCap /\ failures'[id] \in 0 .. FailCap
                           /\ failures[id] <= failures'[id]
<1>0. failures \in [Ids -> 0 .. FailCap] /\ failures' \in [Ids -> 0 .. FailCap]
    BY DEF TypeOK
<1>1. ASSUME NEW w \in Workers, NEW outcome \in Outcome, FinishProbe(w, outcome)
      PROVE  \A id \in Ids : failures[id] <= failures'[id]
    <2>1. \/ failures' = failures
          \/ failures' = [failures EXCEPT ![jobs[w].id] = CountUp(@)]
        BY <1>1 DEF FinishProbe
    <2> DEFINE i == jobs[w].id
    <2>2. failures' = failures \/ failures' = [failures EXCEPT ![i] = CountUp(failures[i])]
        BY <2>1
    <2>3. \A n \in 0 .. FailCap : n <= CountUp(n)
        BY DEF CountUp
    <2> HIDE DEF i
    <2> QED
        BY <1>0, <2>2, <2>3
<1>2. \/ failures' = failures
      \/ \E w \in Workers : \E outcome \in Outcome : FinishProbe(w, outcome)
    BY DEF Next, WorkerStep, Fault, ApiStep, StartCycle, EndCycle, Launch, WriteResult,
           ListFails, Restart, WriteFails, Register, DeleteEntry, PatchLifecycle,
           CancelRequest, ProbeEntry, Tick, vars
<1> QED
    BY <1>0, <1>1, <1>2

\* A probe ends: its result is true, and everything else stays so.
LEMMA FinishProbeKeepsTruth ==
    ASSUME TypeOK, TypeOK', RowsTrue, JobsTrue, NEW w \in Workers, NEW outcome \in Outcome,
           FinishProbe(w, outcome)
    PROVE  RowsTrue' /\ JobsTrue'
<1> DEFINE i == jobs[w].id
           at == agentTypes[i]
<1>1. UNCHANGED <<entries, agentTypes>> /\ jobs[w] # Absent
    BY DEF FinishProbe, Stage
<1>2. jobs[w] \in Job /\ i \in Ids /\ True(i, jobs[w].h)
    BY <1>1 DEF TypeOK, Job, JobsTrue
<1>3. \A k \in Ids : /\ failures[k] \in 0 .. FailCap /\ failures'[k] \in 0 .. FailCap
                     /\ failures[k] <= failures'[k]
    BY FailuresGrow DEF Next, WorkerStep
<1>4. failures'[i] = IF Failed(jobs[w].h, at, outcome) THEN CountUp(failures[i])
                     ELSE failures[i]
    <2> DEFINE failed == Failed(jobs[w].h, at, outcome)
    <2>1. failures' = IF failed THEN [failures EXCEPT ![i] = CountUp(@)] ELSE failures
        BY DEF FinishProbe, AgentTypeOf
    <2>2. failures \in [Ids -> 0 .. FailCap]
        BY DEF TypeOK
    <2> HIDE DEF failed, i
    <2>3. failures'[i] = IF failed THEN CountUp(failures[i]) ELSE failures[i]
        BY <1>2, <2>1, <2>2
    <2> QED
        BY <2>3 DEF failed
<1>5. /\ jobs'[w].id = i /\ jobs'[w].h = ProbeOne(jobs[w].h, at, outcome)
      /\ \A v \in Workers \ {w} : jobs'[v] = jobs[v]
    BY FinishProbeJob DEF AgentTypeOf
<1>6. True(jobs[w].id, jobs[w].h)'
    <2>1. PICK k, h, a : k \in Ids /\ k = i /\ h = jobs[w].h /\ a = at
        BY <1>2
    <2>2. True(k, ProbeOne(h, a, outcome))'
        BY <1>2, <1>3, <1>4, <2>1, TrueProbed
    <2> QED
        BY <1>5, <2>1, <2>2
<1>7. RowsTrue'
    <2> SUFFICES ASSUME NEW id \in Ids, Present(id)' PROVE True(id, entries[id].h)'
        BY DEF RowsTrue
    <2>1. PICK h : h = entries[id].h
        OBVIOUS
    <2>2. True(id, h) /\ h = entries'[id].h
        BY <1>1, <2>1 DEF RowsTrue, Present
    <2>3. True(id, h)'
        BY <1>3, <2>2, TrueLater
    <2> QED
        BY <2>2, <2>3
<1>8. JobsTrue'
    <2> SUFFICES ASSUME NEW v \in Workers, jobs'[v] # Absent PROVE True(jobs[v].id, jobs[v].h)'
        BY DEF JobsTrue
    <2>1. CASE v = w
        BY <1>6, <2>1
    <2>2. CASE v # w
        <3>1. jobs'[v] = jobs[v] /\ jobs[v] # Absent /\ jobs[v] \in Job
            BY <1>5, <2>2 DEF TypeOK
        <3>2. PICK k, h : k \in Ids /\ k = jobs[v].id /\ h = jobs[v].h
            BY <3>1 DEF Job
        <3>3. True(k, h)
            BY <3>1, <3>2 DEF JobsTrue
        <3>4. True(k, h)'
            BY <3>2, <1>3, <3>3, TrueLater
        <3> QED
            BY <3>1, <3>2, <3>4
    <2> QED
        BY <2>1, <2>2
<1> QED
    BY <1>7, <1>8

\* Every step of the prober and of the API keeps the rows and the jobs true.
LEMMA ProberKeepsTruth ==
    ASSUME TypeOK, TypeOK', RowsTrue, JobsTrue, [Next]_vars
    PROVE  RowsTrue' /\ JobsTrue'
<1> USE DEF RowsTrue, JobsTrue
<1>0. StoreTypeOK /\ jobs \in [Workers -> Job \cup {Absent}]
    BY DEF TypeOK
<1>a. \A w \in Workers : jobs[w] # Absent => jobs[w] \in Job /\ jobs[w].id \in Ids
    BY <1>0 DEF Job
<1>1. ASSUME NEW id \in Ids, NEW at \in AgentType, Register(id, at)
      PROVE  RowsTrue' /\ JobsTrue'
    <2>1. /\ \A k \in Ids \ {id} : entries'[k] = entries[k]
          /\ entries'[id].h = NewHealth /\ failures' = failures /\ jobs' = jobs
        BY <1>0, <1>1 DEF Register, Create, StoreTypeOK, proberVars
    <2>2. True(id, NewHealth)
        BY TrueNew DEF TypeOK
    <2> QED
        BY <2>1, <2>2 DEF True, Truthful, Present
<1>2. ASSUME NEW id \in Ids, DeleteEntry(id) PROVE RowsTrue' /\ JobsTrue'
    BY <1>0, <1>2 DEF DeleteEntry, Delete, Present, True, Truthful, StoreTypeOK, proberVars
<1>3. ASSUME NEW id \in Ids, NEW state \in {"deprecated", "active"}, PatchLifecycle(id, state)
      PROVE  RowsTrue' /\ JobsTrue'
    <2>1. /\ state \in LifecycleState /\ SetLifecycle(id, state) /\ Present(id)
          /\ UNCHANGED <<jobs, failures>>
        BY <1>3 DEF PatchLifecycle, SetLifecycle, LifecycleState, proberVars
    <2>2. /\ entries'[id].h \in Health /\ entries'[id].h.state # "registered"
          /\ entries'[id].h.fails = entries[id].h.fails
          /\ entries'[id].h.probed = entries[id].h.probed
          /\ entries'[id].h.succ = entries[id].h.succ
          /\ \A k \in Ids \ {id} : entries'[k] = entries[k]
        BY <1>0, <2>1, SetLifecycleRow DEF Row
    <2>3. True(id, entries[id].h)
        BY <2>1
    <2>4. True(id, entries[id].h)'
        BY <2>1, <2>2, <2>3 DEF True, Truthful
    <2> QED
        BY <2>1, <2>2, <2>4 DEF True, Truthful, Present
<1>4. ASSUME NEW c \in Callers, NEW id \in Ids, ProbeEntry(c, id) PROVE RowsTrue' /\ JobsTrue'
    <2>1. UNCHANGED <<entries, failures>>
        BY <1>4 DEF ProbeEntry
    <2>2. RowsTrue'
        BY <2>1 DEF True, Truthful, Present
    <2>3. \A w \in Workers :
              \/ jobs'[w] = jobs[w]
              \/ Present(id) /\ jobs'[w].id = id /\ jobs'[w].h = entries[id].h
        BY <1>4, ProbeEntryJobs
    <2>4. JobsTrue'
        BY <2>1, <2>3 DEF True, Truthful
    <2> QED
        BY <2>2, <2>4
<1>5. ASSUME NEW c \in Callers, CancelRequest(c) PROVE RowsTrue' /\ JobsTrue'
    BY <1>0, <1>5 DEF CancelRequest, True, Truthful, Present
<1>6. ASSUME StartCycle PROVE RowsTrue' /\ JobsTrue'
    <2>1. UNCHANGED <<entries, failures>>
        BY <1>6 DEF StartCycle
    <2>2. RowsTrue'
        BY <2>1 DEF True, Truthful, Present
    <2>3. \A w \in Workers :
              \/ jobs'[w] = jobs[w]
              \/ w \in Ids /\ Present(w) /\ jobs'[w].id = w /\ jobs'[w].h = entries[w].h
        BY <1>6, StartCycleJobs
    <2>4. JobsTrue'
        <3> SUFFICES ASSUME NEW w \in Workers, jobs'[w] # Absent
                     PROVE  True(jobs[w].id, jobs[w].h)'
            OBVIOUS
        <3>1. CASE jobs'[w] = jobs[w]
            BY <2>1, <3>1 DEF True, Truthful
        <3>2. CASE w \in Ids /\ Present(w) /\ jobs'[w].id = w /\ jobs'[w].h = entries[w].h
            <4>1. True(w, entries[w].h)
                BY <3>2
            <4> QED
                BY <2>1, <3>2, <4>1 DEF True, Truthful
        <3> QED
            BY <2>3, <3>1, <3>2
    <2> QED
        BY <2>2, <2>4
<1>7. ASSUME ListFails \/ EndCycle \/ UNCHANGED vars PROVE RowsTrue' /\ JobsTrue'
    BY <1>7 DEF ListFails, EndCycle, vars, True, Truthful, Present
<1>8. ASSUME NEW id \in Ids, Launch(id) PROVE RowsTrue' /\ JobsTrue'
    <2>1. UNCHANGED <<entries, failures>> /\ jobs[id] # Absent /\ id \in Workers
        BY <1>8 DEF Launch, FirstInQueue, Stage, Workers
    <2> QED
        BY <1>8, <2>1, LaunchJob DEF True, Truthful, Present
<1>9. ASSUME NEW w \in Workers, NEW outcome \in Outcome, FinishProbe(w, outcome)
      PROVE  RowsTrue' /\ JobsTrue'
    BY <1>9, FinishProbeKeepsTruth
<1>10. ASSUME NEW w \in Workers, WriteResult(w) PROVE RowsTrue' /\ JobsTrue'
    <2>1. /\ jobs[w] # Absent /\ UpdateHealth(jobs[w].id, jobs[w].h) /\ failures' = failures
        BY <1>10 DEF WriteResult, Stage
    <2>2. jobs[w].id \in Ids /\ jobs[w].h \in Health /\ True(jobs[w].id, jobs[w].h)
        BY <1>a, <2>1 DEF True
    <2>3. /\ \A k \in Ids : entries'[k] = Absent <=> entries[k] = Absent
          /\ Present(jobs[w].id) => entries'[jobs[w].id].h = jobs[w].h
          /\ \A k \in Ids \ {jobs[w].id} : entries'[k] = entries[k]
        BY <1>0, <2>1, <2>2, UpdateHealthRow
    <2>4. RowsTrue'
        BY <2>1, <2>2, <2>3 DEF True, Truthful, Present
    <2>5. JobsTrue'
        BY <1>0, <1>10, <2>1 DEF WriteResult, True, Truthful
    <2> QED
        BY <2>4, <2>5
<1>11. ASSUME NEW w \in Workers, WriteFails(w) PROVE RowsTrue' /\ JobsTrue'
    BY <1>0, <1>11 DEF WriteFails, True, Truthful, Present
<1>12. ASSUME Restart PROVE RowsTrue' /\ JobsTrue'
    BY <1>12 DEF Restart, True, Truthful, Present
<1>13. ASSUME Tick PROVE RowsTrue' /\ JobsTrue'
    <2>1. StoreTick /\ failures' = failures
        BY <1>13 DEF Tick
    <2>2. RowsTrue'
        <3> SUFFICES ASSUME NEW id \in Ids, Present(id)' PROVE True(id, entries[id].h)'
            OBVIOUS
        <3>1. Present(id) /\ entries'[id].h = OlderHealth(entries[id].h)
            BY <1>0, <2>1, StoreTickRow DEF Present
        <3>2. True(id, OlderHealth(entries[id].h))
            BY <3>1, TrueOlder
        <3> QED
            BY <2>1, <3>1, <3>2 DEF True, Truthful
    <2>3. JobsTrue'
        <3> SUFFICES ASSUME NEW w \in Workers, jobs'[w] # Absent
                     PROVE  True(jobs[w].id, jobs[w].h)'
            OBVIOUS
        <3>1. /\ jobs[w] # Absent /\ jobs'[w].id = jobs[w].id
              /\ jobs'[w].h = OlderHealth(jobs[w].h)
            BY <1>13, TickJobs
        <3>2. True(jobs[w].id, OlderHealth(jobs[w].h))
            BY <3>1, TrueOlder
        <3> QED
            BY <2>1, <3>1, <3>2 DEF True, Truthful
    <2> QED
        BY <2>2, <2>3
<1> QED
    BY <1>1, <1>2, <1>3, <1>4, <1>5, <1>6, <1>7, <1>8, <1>9, <1>10, <1>11, <1>12, <1>13
    DEF Next, WorkerStep, Fault, ApiStep
-----------------------------------------------------------------------------
(* Truthful copies of the manager *)

\* The manager keeps every row and copy true: it saves what it read, whatever happened
\* since, and takes copies of true rows.
LEMMA ManagerKeepsTruth ==
    ASSUME SystemTypeOK, Structure, RowsTrue, ListedTrue, FoundTrue, failures' = failures,
           DiscoveryStep \/ DiscoveryFault
    PROVE  RowsTrue' /\ ListedTrue' /\ FoundTrue'
<1> USE DEF RowsTrue, ListedTrue, FoundTrue
<1>0. StoreTypeOK /\ pass \in Pass
    BY DEF SystemTypeOK, DiscoveryTypeOK, TypeOK
<1>a. \A id, h : True(id, h)' <=> True(id, h)
    BY DEF True, Truthful
<1>1. CASE Drops
    <2>1. /\ entries' = entries /\ pass'.found \in {pass.found, Absent}
          /\ \A id \in Ids : pass'.listed[id] \in {pass.listed[id], Absent}
        BY <1>1, DropsShrink DEF Structure, storeVars
    <2> QED
        BY <2>1 DEF True, Truthful, Present
<1>2. ASSUME NEW at \in Cards, Find(at) PROVE RowsTrue' /\ ListedTrue' /\ FoundTrue'
    <2>1. entries' = entries /\ pass'.listed = pass.listed
        BY <1>2, FindEffect DEF Find, storeVars, Structure
    <2>2. RowsTrue' /\ ListedTrue'
        BY <2>1 DEF True, Truthful, Present
    <2>3. CASE pass'.found = Absent
        BY <2>2, <2>3
    <2>4. CASE pass'.found = [at |-> at, id |-> Absent, row |-> Absent]
        BY <2>2, <2>4
    <2>5. ASSUME NEW id \in Ids, Present(id), entries[id] \in Row,
                 pass'.found = [at |-> at, id |-> id, row |-> [entries[id] EXCEPT !.seen = 0]]
          PROVE  FoundTrue'
        <3> DEFINE row == [entries[id] EXCEPT !.seen = 0]
        <3>0. row.h = entries[id].h
            BY <2>5, RowEdits
        <3>1. pass'.found.id = id /\ pass'.found.row.h = entries[id].h
            <4> HIDE DEF row
            <4>1. pass'.found = [at |-> at, id |-> id, row |-> row]
                BY <2>5 DEF row
            <4> QED
                BY <3>0, <4>1
        <3>2. True(id, entries[id].h)
            BY <2>5
        <3> QED
            BY <3>1, <3>2 DEF True, Truthful
    <2> QED
        BY <1>2, <2>2, <2>3, <2>4, <2>5, FindEffect DEF Structure
<1>3. CASE SaveFound
    <2>1. /\ pass'.found = Absent /\ pass'.listed = pass.listed
          /\ pass.found # Absent /\ pass.found.id \in Ids /\ pass.found.id # Absent
          /\ pass.found.row \in Row
        BY <1>3, SaveFoundEffect DEF SaveFound
    <2>2. \/ entries' = entries
          \/ entries' = [entries EXCEPT ![pass.found.id] = pass.found.row]
        BY <1>3 DEF SaveFound, Update, storeVars
    <2>3. \A k \in Ids :
              \/ entries'[k] = entries[k]
              \/ k = pass.found.id /\ entries'[k] = pass.found.row
        BY <1>0, <2>1, <2>2 DEF StoreTypeOK
    <2> QED
        BY <2>1, <2>3 DEF True, Truthful, Present
<1>4. ASSUME NEW id \in Ids, CreateFound(id) PROVE RowsTrue' /\ ListedTrue' /\ FoundTrue'
    <2>1. pass'.found = Absent /\ pass'.listed = pass.listed /\ Create(id, pass.found.at)
        BY <1>4, CreateFoundEffect
    <2>2. /\ \A k \in Ids \ {id} : entries'[k] = entries[k]
          /\ entries'[id].h = NewHealth
        BY <1>0, <2>1 DEF Create, StoreTypeOK
    <2>3. True(id, NewHealth)
        BY TrueNew DEF SystemTypeOK, TypeOK
    <2> QED
        BY <2>1, <2>2, <2>3 DEF True, Truthful, Present
<1>5. CASE ListUnseen
    <2>1. entries' = entries /\ pass'.found = Absent
        BY <1>5, ListUnseenEffect DEF ListUnseen, storeVars, Structure
    <2>2. ASSUME NEW id \in Ids, pass'.listed[id] # Absent
          PROVE  True(id, pass.listed[id].h)'
        <3>1. /\ Present(id) /\ entries[id] \in Row
              /\ pass'.listed[id] = [entries[id] EXCEPT !.h.state = "offline"]
            BY <1>5, <2>2, ListUnseenEffect DEF Structure
        <3> DEFINE g == [entries[id].h EXCEPT !.state = "offline"]
                   row == [entries[id] EXCEPT !.h.state = "offline"]
        <3>2. row \in Row /\ row.h = g
            BY <3>1, RowEdits, Zenon
        <3>3. entries[id].h \in Health
            BY <3>1 DEF Row
        <3>4. /\ g.state = "offline" /\ g.fails = entries[id].h.fails
              /\ g.probed = entries[id].h.probed /\ g.succ = entries[id].h.succ
            BY <3>3 DEF Health
        <3>5. pass'.listed[id].h = g /\ g \in Health
            <4> HIDE DEF g
            <4> QED
                BY <3>1, <3>2 DEF Row
        <3>6. True(id, entries[id].h)
            BY <3>1
        <3> HIDE DEF g
        <3>7. True(id, g)
            BY <3>4, <3>5, <3>6, TruePatched
        <3> QED
            BY <3>5, <3>7 DEF True, Truthful
    <2> QED
        BY <2>1, <2>2 DEF True, Truthful, Present
<1>6. ASSUME NEW id \in Ids, MarkDown(id) PROVE RowsTrue' /\ ListedTrue' /\ FoundTrue'
    <2>1. /\ pass.listed[id] \in Row /\ pass.listed[id] # Absent
          /\ pass'.found = pass.found /\ pass'.listed[id] = Absent
          /\ \A k \in Ids \ {id} : pass'.listed[k] = pass.listed[k]
        BY <1>6, MarkDownEffect
    <2>2. \/ entries' = entries
          \/ entries' = [entries EXCEPT ![id] = pass.listed[id]]
        BY <1>6 DEF MarkDown, Update, storeVars
    <2>3. \A k \in Ids :
              \/ entries'[k] = entries[k]
              \/ k = id /\ entries'[k] = pass.listed[id]
        BY <1>0, <2>2 DEF StoreTypeOK
    <2> QED
        BY <2>1, <2>3 DEF True, Truthful, Present
<1> QED
    BY <1>1, <1>2, <1>3, <1>4, <1>5, <1>6 DEF DiscoveryStep, DiscoveryFault, Drops

\* Time passing ages the copies of the manager, and does nothing else to them.
LEMMA DiscoveryTickEffect ==
    ASSUME SystemTypeOK, FoundOwned, StageFits, DiscoveryTick
    PROVE  /\ pass' \in Pass /\ sourceOf' = sourceOf /\ pass'.stage = pass.stage
           /\ \A id \in Ids : pass'.listed[id] # Absent =>
                 /\ pass.listed[id] # Absent
                 /\ pass'.listed[id].h = OlderHealth(pass.listed[id].h)
           /\ pass'.found # Absent =>
                 /\ pass.found # Absent
                 /\ pass'.found.id = pass.found.id /\ pass'.found.at = pass.found.at
                 /\ pass.found.row # Absent =>
                       /\ pass'.found.row # Absent
                       /\ pass'.found.row.h = OlderHealth(pass.found.row.h)
<1> DEFINE l == [id \in Ids |-> OlderRow(pass.listed[id])]
           f == IF pass.found = Absent THEN Absent
                ELSE [at |-> pass.found.at, id |-> pass.found.id,
                      row |-> OlderRow(pass.found.row)]
<1>0. pass \in Pass
    BY DEF SystemTypeOK, DiscoveryTypeOK
<1>1. pass' = [pass EXCEPT !.found = f, !.listed = l] /\ sourceOf' = sourceOf
    BY DEF DiscoveryTick
<1>2. OlderRow(Absent) = Absent
    BY DEF OlderRow
<1>3. ASSUME NEW id \in Ids
      PROVE  /\ l[id] \in Row \cup {Absent}
             /\ l[id] # Absent => /\ pass.listed[id] # Absent
                                  /\ l[id].h = OlderHealth(pass.listed[id].h)
    <2>1. l[id] = OlderRow(pass.listed[id]) /\ pass.listed[id] \in Row \cup {Absent}
        BY <1>0, PassFields
    <2> HIDE DEF l
    <2> QED
        BY <1>2, <2>1, RowEdits
<1>4. /\ f \in Found \cup {Absent}
      /\ f # Absent => /\ pass.found # Absent
                       /\ f.id = pass.found.id /\ f.at = pass.found.at
                       /\ pass.found.row # Absent =>
                             f.row # Absent /\ f.row.h = OlderHealth(pass.found.row.h)
    <2>1. CASE pass.found = Absent
        BY <2>1
    <2>2. CASE pass.found # Absent
        <3>1. pass.found \in Found /\ pass.found.row \in Row \cup {Absent}
            BY <1>0, <2>2, PassFields, FoundFields
        <3>2. OlderRow(pass.found.row) \in Row \cup {Absent}
            BY <1>2, <3>1, RowEdits
        <3>3. f = [at |-> pass.found.at, id |-> pass.found.id,
                   row |-> OlderRow(pass.found.row)]
            BY <2>2
        <3>4. /\ f \in Found /\ f.id = pass.found.id /\ f.at = pass.found.at
              /\ f.row = OlderRow(pass.found.row)
            <4> HIDE DEF f
            <4> QED
                BY <3>1, <3>2, <3>3, FoundFields DEF Found
        <3> HIDE DEF f
        <3>5. pass.found.row # Absent =>
                  f.row # Absent /\ f.row.h = OlderHealth(pass.found.row.h)
            BY <3>1, <3>4, RowEdits
        <3> QED
            BY <2>2, <3>4, <3>5
    <2> QED
        BY <2>1, <2>2
<1>5. l \in [Ids -> Row \cup {Absent}]
    BY <1>3
<1> HIDE DEF f, l
<1>6. /\ pass' \in Pass /\ pass'.stage = pass.stage /\ pass'.found = f /\ pass'.listed = l
    BY <1>0, <1>1, <1>4, <1>5 DEF Pass
<1> QED
    BY <1>1, <1>3, <1>4, <1>6
-----------------------------------------------------------------------------
(* The system *)

\* No step of the prober or of the API, creation apart, adds a row or changes an agent
\* type.
LEMMA HealthStepShrinks ==
    ASSUME SystemTypeOK, Structure, HealthStep
    PROVE  UNCHANGED <<agentTypes, sourceOf, pass>> /\ Shrinks
<1>0. StoreTypeOK /\ \A w \in Workers : jobs[w] # Absent => jobs[w].id \in Ids
                                                            /\ jobs[w].h \in Health
    BY DEF SystemTypeOK, TypeOK, Job
<1>1. UNCHANGED <<agentTypes, sourceOf, pass>>
    BY DEF HealthStep, discoveryVars, WorkerStep, StartCycle, EndCycle, Launch, WriteResult,
           FinishProbe, ListFails, WriteFails, DeleteEntry, Delete, PatchLifecycle,
           CancelRequest, ProbeEntry
<1>2. ASSUME NEW w \in Workers, WriteResult(w)
      PROVE  \A id \in Ids : entries'[id] # Absent => entries[id] # Absent
    <2>1. jobs[w] # Absent /\ UpdateHealth(jobs[w].id, jobs[w].h)
        BY <1>2 DEF WriteResult, Stage
    <2> QED
        BY <1>0, <2>1, UpdateHealthRow
<1>3. ASSUME NEW i \in Ids, DeleteEntry(i)
      PROVE  \A id \in Ids : entries'[id] # Absent => entries[id] # Absent
    BY <1>0, <1>3 DEF DeleteEntry, Delete, StoreTypeOK
<1>4. ASSUME NEW i \in Ids, NEW state \in {"deprecated", "active"}, PatchLifecycle(i, state)
      PROVE  \A id \in Ids : entries'[id] # Absent => entries[id] # Absent
    BY <1>0, <1>4 DEF PatchLifecycle, SetLifecycle, StoreTypeOK, Present
<1>5. \/ entries' = entries
      \/ \E w \in Workers : WriteResult(w)
      \/ \E i \in Ids : DeleteEntry(i)
      \/ \E i \in Ids : \E state \in {"deprecated", "active"} : PatchLifecycle(i, state)
    BY DEF HealthStep, WorkerStep, StartCycle, EndCycle, Launch,
           FinishProbe, ListFails, WriteFails, CancelRequest, ProbeEntry
<1>6. \A id \in Ids : entries'[id] # Absent => entries[id] # Absent
    BY <1>2, <1>3, <1>4, <1>5
<1> QED
    BY <1>1, <1>6 DEF Shrinks, Structure, StageFits

\* An entry that comes through the API is not one of the manager's.
LEMMA PushKeeps ==
    ASSUME SystemTypeOK, Structure, NEW id \in Ids, NEW at \in AgentType, PushEntry(id, at)
    PROVE  DiscoveryTypeOK' /\ Structure'
<1>1. /\ agentTypes[id] = Absent /\ agentTypes'[id] = at /\ at # Absent
      /\ \A k \in Ids \ {id} : entries'[k] = entries[k] /\ agentTypes'[k] = agentTypes[k]
      /\ pass' = pass /\ entries[id] = Absent
    BY DEF PushEntry, Register, Create, Pushed, SystemTypeOK, TypeOK, StoreTypeOK
<1>2. /\ sourceOf'[id] = "push" /\ \A k \in Ids \ {id} : sourceOf'[k] = sourceOf[k]
      /\ DiscoveryTypeOK'
    BY DEF PushEntry, Pushed, SystemTypeOK, DiscoveryTypeOK, SourceTypes
<1>3. \A k \in Ids \ {id} : Held(k)' => Held(k)
    BY <1>1 DEF Held, Present
<1>4. pass.found # Absent => pass.found.id \in Ids \cup {Absent}
    BY PassFields, FoundFields DEF SystemTypeOK, DiscoveryTypeOK
<1>5. OneHeldPerEndpoint'
    BY <1>1, <1>2, <1>3 DEF Structure, OneHeldPerEndpoint, Discovered
<1>6. FoundOwned'
    BY <1>1, <1>2, <1>4 DEF Structure, FoundOwned, Discovered
<1>7. NewIsMissing'
    BY <1>1, <1>2 DEF Structure, NewIsMissing, Discovered, Present
<1>8. StageFits' /\ ListedOwned' /\ PushUsed'
    BY <1>1, <1>2 DEF Structure, StageFits, ListedOwned, PushUsed, Discovered
<1> QED
    BY <1>2, <1>5, <1>6, <1>7, <1>8 DEF Structure

\* Every step of the system is one of the prober's specification as far as the prober's
\* variables are concerned, or one of the manager.
LEMMA StepSplits ==
    ASSUME [SystemNext]_systemVars
    PROVE  \/ /\ [Next]_vars
              /\ \/ HealthStep \/ SystemRestart \/ SystemTick \/ UNCHANGED systemVars
                 \/ \E id \in Ids, at \in AgentType : PushEntry(id, at)
           \/ /\ DiscoveryStep \/ DiscoveryFault
              /\ UNCHANGED proberRest /\ (faults' = faults \/ DiscoveryFails)
BY DEF SystemNext, HealthStep, PushEntry, SystemRestart, SystemTick, DiscoveryRuns,
       DiscoveryFails, Next, WorkerStep, Fault, ApiStep, systemVars

\* The inductive invariant holds initially: there is no row and no copy.
LEMMA InitSystemInv == SystemInit => SystemInv
<1> SUFFICES ASSUME SystemInit PROVE SystemInv
    OBVIOUS
<1>1. TypeOK
    BY InitType DEF SystemInit
<1>2. /\ \A id \in Ids : ~Present(id) /\ sourceOf[id] = Absent
      /\ \A w \in Workers : jobs[w] = Absent
    BY DEF SystemInit, Init, StoreInit, Present, DiscoveryInit, Nothing
<1>3. /\ pass \in Pass /\ pass.found = Absent /\ pass.stage # "mark"
      /\ \A id \in Ids : pass.listed[id] = Absent
    BY FreshPass DEF SystemInit, DiscoveryInit
<1>4. DiscoveryTypeOK
    BY <1>3 DEF DiscoveryTypeOK, SystemInit, DiscoveryInit, Nothing
<1>5. PushUsed
    <2>1. Absent # "push"
        BY DEF SourceTypes
    <2> QED
        BY <1>2, <2>1 DEF PushUsed
<1>6. Structure
    BY <1>2, <1>3, <1>5
    DEF Structure, OneHeldPerEndpoint, FoundOwned, NewIsMissing, StageFits, ListedOwned, Held
<1>7. RowsTruthful
    BY <1>2, <1>3 DEF RowsTruthful
<1> QED
    BY <1>1, <1>4, <1>6, <1>7 DEF SystemInv, SystemTypeOK

\* Every step keeps the types and the structure.
LEMMA NextStructure ==
    SystemTypeOK /\ Structure /\ [SystemNext]_systemVars => SystemTypeOK' /\ Structure'
<1> SUFFICES ASSUME SystemTypeOK, Structure, [SystemNext]_systemVars
             PROVE  SystemTypeOK' /\ Structure'
    OBVIOUS
<1>0. TypeOK /\ StoreTypeOK /\ DiscoveryTypeOK /\ sourceOf \in [Ids -> SourceTypes \cup {Absent}]
    BY DEF SystemTypeOK, TypeOK, DiscoveryTypeOK
<1>1. [Next]_vars => TypeOK'
    BY <1>0, NextType
<1>2. ASSUME HealthStep PROVE DiscoveryTypeOK' /\ Structure'
    BY <1>0, <1>2, HealthStepShrinks, ShrinkingKeepsStructure DEF DiscoveryTypeOK
<1>3. ASSUME NEW id \in Ids, NEW at \in AgentType, PushEntry(id, at)
      PROVE  DiscoveryTypeOK' /\ Structure'
    BY <1>3, PushKeeps
<1>4. ASSUME SystemRestart PROVE DiscoveryTypeOK' /\ Structure'
    <2>1. pass' = Idle /\ UNCHANGED <<sourceOf, entries, agentTypes>>
        BY <1>4 DEF SystemRestart, Restart, DiscoveryRestart
    <2> QED
        BY <1>0, <2>1, FreshShrinks, ShrinkingKeepsStructure DEF DiscoveryTypeOK
<1>5. ASSUME SystemTick PROVE DiscoveryTypeOK' /\ Structure'
    <2>1. StoreTick /\ UNCHANGED agentTypes /\ DiscoveryTick
        BY <1>5 DEF SystemTick, Tick, StoreTick
    <2>2. \A id \in Ids : entries'[id] # Absent => entries[id] # Absent
        BY <1>0, <2>1, StoreTickRow
    <2>3. Shrinks /\ pass' \in Pass /\ sourceOf' = sourceOf
        BY <2>1, <2>2, DiscoveryTickEffect DEF Shrinks, Structure, StageFits
    <2> QED
        BY <1>0, <2>1, <2>3, ShrinkingKeepsStructure DEF DiscoveryTypeOK
<1>6. ASSUME UNCHANGED systemVars PROVE DiscoveryTypeOK' /\ Structure'
    <2>1. UNCHANGED <<pass, sourceOf, entries, agentTypes>>
        BY <1>6 DEF systemVars, vars, discoveryVars
    <2>2. Shrinks
        BY <2>1 DEF Shrinks, Structure, StageFits
    <2> QED
        BY <1>0, <2>1, <2>2, ShrinkingKeepsStructure DEF DiscoveryTypeOK
<1>7. ASSUME DiscoveryStep \/ DiscoveryFault, UNCHANGED proberRest,
             faults' = faults \/ DiscoveryFails
      PROVE  SystemTypeOK' /\ Structure'
    <2>1. StoreTypeOK' /\ DiscoveryTypeOK' /\ Structure'
        BY <1>7, ManagerKeepsStructure
    <2>2. UNCHANGED <<jobs, cycling, tick, phase, lastCall, lastCleanup, failures>>
        BY <1>7 DEF proberRest, proberVars
    <2>3. faults' \in 0 .. MaxFaults
        BY <1>0, <1>7 DEF DiscoveryFails, TypeOK
    <2>4. TypeOK'
        <3>1. cycling' \in BOOLEAN /\ tick' \in BOOLEAN
            BY <1>0, <2>2, Zenon DEF TypeOK
        <3>2. Limiter!LimiterTypeOK'
            BY <1>0, <2>2 DEF TypeOK, Limiter!LimiterTypeOK
        <3> QED
            BY <1>0, <2>1, <2>2, <2>3, <3>1, <3>2 DEF TypeOK
    <2> QED
        BY <2>1, <2>4 DEF SystemTypeOK
<1> QED
    BY <1>1, <1>2, <1>3, <1>4, <1>5, <1>6, <1>7, StepSplits DEF SystemTypeOK

\* Every step keeps the rows and copies true.
LEMMA NextTruth ==
    SystemInv /\ SystemTypeOK' /\ Structure' /\ [SystemNext]_systemVars => RowsTruthful'
<1> SUFFICES ASSUME SystemInv, SystemTypeOK', Structure', [SystemNext]_systemVars
             PROVE  RowsTruthful'
    OBVIOUS
<1>0. /\ SystemTypeOK /\ Structure /\ TypeOK /\ TypeOK'
      /\ RowsTrue /\ JobsTrue /\ ListedTrue /\ FoundTrue
    BY TruthIsFourfold DEF SystemInv, SystemTypeOK, Structure
<1>a. SUFFICES RowsTrue' /\ JobsTrue' /\ ListedTrue' /\ FoundTrue'
    <2>1. FoundOwned'
        BY DEF Structure
    <2> QED
        BY <1>a, <2>1, TruthIsFourfold, PTL
<1>1. ASSUME [Next]_vars,
             \/ HealthStep \/ SystemRestart \/ SystemTick \/ UNCHANGED systemVars
             \/ \E id \in Ids, at \in AgentType : PushEntry(id, at)
      PROVE  RowsTrue' /\ JobsTrue' /\ ListedTrue' /\ FoundTrue'
    <2>1. RowsTrue' /\ JobsTrue'
        BY <1>0, <1>1, ProberKeepsTruth
    <2>2. \A id \in Ids : /\ failures[id] \in 0 .. FailCap /\ failures'[id] \in 0 .. FailCap
                          /\ failures[id] <= failures'[id]
        BY <1>0, <1>1, FailuresGrow
    <2>a. ASSUME NEW id \in Ids, NEW h, True(id, h) PROVE True(id, h)'
        BY <2>2, <2>a, TrueLater
    <2>b. pass.found # Absent /\ pass.found.id # Absent => pass.found.id \in Ids
        BY <1>0, PassFields, FoundFields DEF SystemTypeOK, DiscoveryTypeOK
    <2>3. CASE pass' = pass
        <3>1. ASSUME NEW id \in Ids, pass'.listed[id] # Absent PROVE True(id, pass.listed[id].h)'
            <4>1. PICK h : h = pass.listed[id].h
                OBVIOUS
            <4>2. True(id, h)
                BY <1>0, <2>3, <3>1, <4>1 DEF ListedTrue
            <4> QED
                BY <2>3, <2>a, <4>1, <4>2
        <3>2. ASSUME pass'.found # Absent, pass'.found.id # Absent
              PROVE  True(pass.found.id, pass.found.row.h)'
            <4>1. PICK k, h : k \in Ids /\ k = pass.found.id /\ h = pass.found.row.h
                BY <2>3, <2>b, <3>2
            <4>2. True(k, h)
                BY <1>0, <2>3, <3>2, <4>1 DEF FoundTrue
            <4> QED
                BY <2>3, <2>a, <4>1, <4>2
        <3> QED
            BY <2>1, <3>1, <3>2 DEF ListedTrue, FoundTrue
    <2>4. CASE SystemRestart
        <3>1. pass' = Idle
            BY <2>4 DEF SystemRestart, DiscoveryRestart
        <3>2. pass'.found = Absent /\ \A id \in Ids : pass'.listed[id] = Absent
            BY <3>1, FreshPass
        <3> QED
            BY <2>1, <3>2 DEF ListedTrue, FoundTrue
    <2>5. CASE SystemTick
        <3>1. failures' = failures /\ DiscoveryTick
            BY <2>5 DEF SystemTick, Tick
        <3>2. /\ \A id \in Ids : pass'.listed[id] # Absent =>
                    /\ pass.listed[id] # Absent
                    /\ pass'.listed[id].h = OlderHealth(pass.listed[id].h)
              /\ pass'.found # Absent =>
                    /\ pass.found # Absent /\ pass'.found.id = pass.found.id
                    /\ pass.found.row # Absent =>
                          pass'.found.row.h = OlderHealth(pass.found.row.h)
            BY <1>0, <3>1, DiscoveryTickEffect DEF Structure
        <3>3. ASSUME NEW id \in Ids, pass'.listed[id] # Absent PROVE True(id, pass.listed[id].h)'
            <4>1. True(id, OlderHealth(pass.listed[id].h))
                BY <1>0, <3>2, <3>3, TrueOlder DEF ListedTrue
            <4> QED
                BY <3>1, <3>2, <3>3, <4>1 DEF True, Truthful
        <3>4. ASSUME pass'.found # Absent, pass'.found.id # Absent
              PROVE  True(pass.found.id, pass.found.row.h)'
            <4>1. pass.found # Absent /\ pass.found.id # Absent /\ pass.found.row # Absent
                BY <1>0, <3>2, <3>4 DEF Structure, FoundOwned
            <4>2. True(pass.found.id, OlderHealth(pass.found.row.h))
                BY <1>0, <4>1, TrueOlder DEF FoundTrue
            <4> QED
                BY <3>1, <3>2, <3>4, <4>1, <4>2 DEF True, Truthful
        <3> QED
            BY <2>1, <3>3, <3>4 DEF ListedTrue, FoundTrue
    <2> QED
        BY <1>1, <2>3, <2>4, <2>5
        DEF HealthStep, PushEntry, Pushed, discoveryVars, systemVars
<1>2. ASSUME DiscoveryStep \/ DiscoveryFault, UNCHANGED proberRest
      PROVE  RowsTrue' /\ JobsTrue' /\ ListedTrue' /\ FoundTrue'
    <2>1. failures' = failures /\ jobs' = jobs
        BY <1>2 DEF proberRest, proberVars
    <2>2. JobsTrue'
        BY <1>0, <2>1 DEF JobsTrue, True, Truthful
    <2> QED
        BY <1>0, <1>2, <2>1, <2>2, ManagerKeepsTruth
<1> QED
    BY <1>1, <1>2, StepSplits

\* The inductive invariant holds of every behaviour.
LEMMA SystemInvariance == SystemSpec => []SystemInv
<1>1. SystemInv /\ [SystemNext]_systemVars => SystemInv'
    BY NextStructure, NextTruth DEF SystemInv
<1> QED
    BY <1>1, InitSystemInv, PTL DEF SystemSpec

\* Everything that writes the catalog keeps its types, together.
THEOREM SystemTypeCorrect == SystemSpec => []SystemTypeOK
<1>1. SystemInv => SystemTypeOK
    BY DEF SystemInv
<1> QED
    BY <1>1, SystemInvariance, PTL

\* However many probes, administrators and passes of the manager overwrite each other's
\* rows with copies however old, every row reports a state its entry really was in.
THEOREM RowsTruthfulHolds == SystemSpec => []RowsTruthful
<1>1. SystemInv => RowsTruthful
    BY DEF SystemInv
<1> QED
    BY <1>1, SystemInvariance, PTL

\* The manager never has two entries for one endpoint, for any number of entries,
\* versions and sources, whatever is deleted and saved again between its steps.
THEOREM OneDiscoveredPerEndpointHolds == SystemSpec => []OneDiscoveredPerEndpoint
<1>1. SystemInv => OneDiscoveredPerEndpoint
    BY DEF SystemInv, Structure, OneHeldPerEndpoint, OneDiscoveredPerEndpoint, Held, Discovered
<1> QED
    BY <1>1, SystemInvariance, PTL

\* No step of the manager touches the row or the agent type of an entry that came
\* through the API, whether that entry is still there or not.
THEOREM PushProtectedHolds == SystemSpec => PushProtected
<1> DEFINE Untouched == DiscoveryStep => \A id \in Ids : sourceOf[id] = "push" =>
               entries'[id] = entries[id] /\ agentTypes'[id] = agentTypes[id]
<1>1. SystemInv => Untouched
    <2> SUFFICES ASSUME SystemTypeOK, Structure, DiscoveryStep, NEW id \in Ids,
                        sourceOf[id] = "push"
                 PROVE  entries'[id] = entries[id] /\ agentTypes'[id] = agentTypes[id]
        BY DEF SystemInv
    <2>0. StoreTypeOK
        BY DEF SystemTypeOK, TypeOK
    <2>1. CASE SaveFound
        <3>1. pass.found.id \in Ids /\ pass.found.id # id
            BY <2>1, SaveFoundEffect DEF SaveFound, Structure, FoundOwned, Discovered
        <3> QED
            BY <2>0, <2>1, <3>1 DEF SaveFound, Update, storeVars, StoreTypeOK
    <2>2. ASSUME NEW k \in Ids, CreateFound(k)
          PROVE  entries'[id] = entries[id] /\ agentTypes'[id] = agentTypes[id]
        <3>1. k # id
            BY <2>2, CreateFoundKeeps
        <3> QED
            BY <2>0, <2>2, <3>1 DEF CreateFound, Create, StoreTypeOK
    <2>3. ASSUME NEW k \in Ids, MarkDown(k)
          PROVE  entries'[id] = entries[id] /\ agentTypes'[id] = agentTypes[id]
        <3>1. k # id
            BY <2>3, MarkDownEffect DEF Discovered
        <3> QED
            BY <2>0, <2>3, <3>1 DEF MarkDown, Update, storeVars, StoreTypeOK
    <2> QED
        BY <2>1, <2>2, <2>3
        DEF DiscoveryStep, StartRun, DiscoverFails, CreateRefused, ListUnseen, EndUpsert,
            Discover, Find, storeVars
<1>2. SystemInv /\ [SystemNext]_systemVars => [Untouched]_systemVars
    BY <1>1
<1> QED
    BY <1>2, SystemInvariance, PTL DEF SystemSpec, PushProtected
=============================================================================
