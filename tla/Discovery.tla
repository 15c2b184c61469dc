----------------------------- MODULE Discovery -----------------------------
(***************************************************************************)
(* The discovery manager (internal/discovery/manager.go): one goroutine    *)
(* that polls its sources in order, upserts what each of them returns by   *)
(* endpoint, and marks offline whatever entry of that source it has not    *)
(* seen.                                                                   *)
(*                                                                         *)
(* Every call of the store is a step of its own.  Update saves the whole   *)
(* row as it was read one call earlier, health columns included, so what   *)
(* probes, administrators and deletions did in between is overwritten.     *)
(*                                                                         *)
(* The poll interval is not tied to the clock: a cycle may start whenever  *)
(* the last one has ended.  Agent types are changed by this goroutine      *)
(* only, so the copy of one that was read with a row is never stale.       *)
(* Providers, capabilities and raw cards are left out.                     *)
(***************************************************************************)
EXTENDS CatalogStore, Sequences

CONSTANTS
    SourceOrder,   \* the sources that main has set up, in order
    Cards          \* the agent types that their cards may describe

SourceTypes == {"push", "config", "k8s"}

ASSUME DiscoveryAssumption ==
    /\ Ids \subseteq Nat     \* UUIDs in the order of the primary key
    /\ Absent \notin Ids /\ Absent \notin SourceTypes
    /\ SourceOrder \in Seq({"config", "k8s"}) /\ SourceOrder # <<>>
    /\ Cards \subseteq AgentType

VARIABLES
    sourceOf,   \* the source column of catalog_entries, kept when a row is deleted
    pass        \* where runOnce is

discoveryVars == <<sourceOf, pass>>

\* An agent type for which FindByEndpoint found a row (id, row as it will be saved),
\* or none (both Absent).
Found == [at : Cards, id : Ids \cup {Absent}, row : Row \cup {Absent}]

\* idle: waiting for the ticker; source: about to call Discover of source turn;
\* upsert: in the loop over agentTypes, todo is left; mark: in the loop over the
\* entries that were listed and not seen, whose rows are in listed.
Pass == [stage : {"idle", "source", "upsert", "mark"}, turn : 1 .. Len(SourceOrder),
         todo : SUBSET Cards, found : Found \cup {Absent}, seen : SUBSET Ids,
         listed : [Ids -> Row \cup {Absent}]]

DiscoveryTypeOK ==
    /\ sourceOf \in [Ids -> SourceTypes \cup {Absent}]
    /\ pass \in Pass

Nothing == [id \in Ids |-> Absent]

AtSource(n) ==
    [stage |-> "source", turn |-> n, todo |-> {}, found |-> Absent, seen |-> {},
     listed |-> Nothing]

Idle == [AtSource(1) EXCEPT !.stage = "idle"]

DiscoveryInit ==
    /\ sourceOf = Nothing
    /\ pass = Idle

\* upsert returns, with or without an error, and runOnce goes on.
NextSource == IF pass.turn < Len(SourceOrder) THEN AtSource(pass.turn + 1) ELSE Idle

Source == SourceOrder[pass.turn]
-----------------------------------------------------------------------------
StartRun ==
    /\ pass.stage = "idle"
    /\ pass' = AtSource(1)
    /\ UNCHANGED <<storeVars, sourceOf>>

\* Both sources leave out a card that they cannot fetch or parse.
Discover(cards) ==
    /\ pass.stage = "source"
    /\ pass' = [pass EXCEPT !.stage = "upsert", !.todo = cards]
    /\ UNCHANGED <<storeVars, sourceOf>>

\* Only the Kubernetes source fails as a whole (a namespace cannot be listed).
DiscoverFails ==
    /\ pass.stage = "source" /\ Source = "k8s"
    /\ pass' = NextSource
    /\ UNCHANGED <<storeVars, sourceOf>>

\* A faulty variant: deprecated entries are not found.
MatchesMonitored(endpoint) ==
    {id \in Ids : /\ Present(id) /\ entries[id].h.state # "deprecated"
                  /\ agentTypes[id].endpoint = endpoint}

Matches(endpoint) == {id \in Ids : Present(id) /\ agentTypes[id].endpoint = endpoint}

\* The first row by primary key.
FindByEndpoint(endpoint) ==
    CHOOSE id \in Matches(endpoint) : \A other \in Matches(endpoint) : id <= other

\* A faulty variant: entries of the API are taken over.
FindAnySource(at) ==
    /\ pass.stage = "upsert" /\ pass.found = Absent /\ at \in pass.todo
    /\ LET id == FindByEndpoint(at.endpoint)
           found == IF Matches(at.endpoint) = {}
                    THEN [at |-> at, id |-> Absent, row |-> Absent]
                    ELSE [at |-> at, id |-> id, row |-> [entries[id] EXCEPT !.seen = 0]]
       IN  pass' = [pass EXCEPT !.todo = @ \ {at}, !.found = found]
    /\ UNCHANGED <<storeVars, sourceOf>>

\* The next agent type: an entry that came through the API is left alone (and not
\* counted as seen), any other will be saved with a new validity_last_seen.
Find(at) ==
    /\ pass.stage = "upsert" /\ pass.found = Absent /\ at \in pass.todo
    /\ LET id == FindByEndpoint(at.endpoint)
           found == IF Matches(at.endpoint) = {}
                    THEN [at |-> at, id |-> Absent, row |-> Absent]
                    ELSE IF sourceOf[id] = "push" THEN Absent
                    ELSE [at |-> at, id |-> id, row |-> [entries[id] EXCEPT !.seen = 0]]
       IN  pass' = [pass EXCEPT !.todo = @ \ {at}, !.found = found]
    /\ UNCHANGED <<storeVars, sourceOf>>

\* Update of the entry that was found; it counts as seen even if that was refused.
SaveFound ==
    /\ pass.found # Absent /\ pass.found.id # Absent
    /\ Update(pass.found.id, pass.found.row, pass.found.at)
    /\ pass' = [pass EXCEPT !.found = Absent, !.seen = @ \cup {pass.found.id}]
    /\ UNCHANGED sourceOf

\* Create of a new entry with a fresh id.
CreateFound(id) ==
    /\ pass.found # Absent /\ pass.found.id = Absent
    /\ Create(id, pass.found.at)
    /\ sourceOf' = [sourceOf EXCEPT ![id] = Source]
    /\ pass' = [pass EXCEPT !.found = Absent, !.seen = @ \cup {id}]

\* Create refused by the unique key, which a deleted entry may have left behind.
CreateRefused ==
    /\ pass.found # Absent /\ pass.found.id = Absent
    /\ \E other \in Ids : agentTypes[other] = pass.found.at
    /\ pass' = [pass EXCEPT !.found = Absent]
    /\ UNCHANGED <<storeVars, sourceOf>>

\* A faulty variant: the status is called down, as it was before migration 5.
ListUnseenDown ==
    /\ pass.stage = "upsert" /\ pass.found = Absent /\ pass.todo = {}
    /\ pass' = [pass EXCEPT
         !.stage = "mark",
         !.listed = [id \in Ids |->
            IF Present(id) /\ sourceOf[id] = Source /\ id \notin pass.seen
            THEN [entries[id] EXCEPT !.h.state = "down"]
            ELSE Absent]]
    /\ UNCHANGED <<storeVars, sourceOf>>

\* List of the entries of this source; those not seen will be saved as offline.
ListUnseen ==
    /\ pass.stage = "upsert" /\ pass.found = Absent /\ pass.todo = {}
    /\ pass' = [pass EXCEPT
         !.stage = "mark",
         !.listed = [id \in Ids |->
            IF Present(id) /\ sourceOf[id] = Source /\ id \notin pass.seen
            THEN [entries[id] EXCEPT !.h.state = "offline"]
            ELSE Absent]]
    /\ UNCHANGED <<storeVars, sourceOf>>

MarkDown(id) ==
    /\ pass.listed[id] # Absent
    /\ Update(id, pass.listed[id], agentTypes[id])
    /\ pass' = [pass EXCEPT !.listed[id] = Absent]
    /\ UNCHANGED sourceOf

EndUpsert ==
    /\ pass.stage = "mark" /\ pass.listed = Nothing
    /\ pass' = NextSource
    /\ UNCHANGED <<storeVars, sourceOf>>

DiscoveryStep ==
    \/ StartRun \/ DiscoverFails \/ SaveFound \/ CreateRefused \/ ListUnseen \/ EndUpsert
    \/ \E cards \in SUBSET Cards : Discover(cards)
    \/ \E at \in Cards : Find(at)
    \/ \E id \in Ids : CreateFound(id) \/ MarkDown(id)
-----------------------------------------------------------------------------
(* Failures of the store *)

\* FindByEndpoint or List fails: upsert returns and marks nothing.
QueryFails ==
    /\ pass.stage = "upsert" /\ pass.found = Absent
    /\ pass' = NextSource
    /\ UNCHANGED <<storeVars, sourceOf>>

\* Update or Create fails: a line in the log, and on with the next agent type.
SaveFails ==
    /\ pass.found # Absent
    /\ pass' = [pass EXCEPT !.found = Absent, !.seen = @ \cup ({pass.found.id} \cap Ids)]
    /\ UNCHANGED <<storeVars, sourceOf>>

MarkFails(id) ==
    /\ pass.listed[id] # Absent
    /\ pass' = [pass EXCEPT !.listed[id] = Absent]
    /\ UNCHANGED <<storeVars, sourceOf>>

DiscoveryFault == QueryFails \/ SaveFails \/ \E id \in Ids : MarkFails(id)
-----------------------------------------------------------------------------
(* What the rest of the system does to the state of discovery *)

\* An entry is created through the API.
Pushed(id) ==
    /\ sourceOf' = [sourceOf EXCEPT ![id] = "push"]
    /\ UNCHANGED pass

\* The process starts again; Run begins with a cycle at once.
DiscoveryRestart == pass' = Idle /\ UNCHANGED sourceOf

OlderRow(row) ==
    IF row = Absent THEN Absent
    ELSE [h |-> OlderHealth(row.h), seen |-> Older(row.seen)]

\* Time passing, as seen from the rows held in memory.
DiscoveryTick ==
    /\ pass' = [pass EXCEPT
         !.found = IF @ = Absent THEN Absent
                   ELSE [at |-> @.at, id |-> @.id, row |-> OlderRow(@.row)],
         !.listed = [id \in Ids |-> OlderRow(pass.listed[id])]]
    /\ UNCHANGED sourceOf
=============================================================================
