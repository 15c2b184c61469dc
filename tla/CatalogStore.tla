---------------------------- MODULE CatalogStore ----------------------------
(***************************************************************************)
(* The catalog tables of AgentLens (internal/store) as the rest of the     *)
(* program uses them: one operator per method of store.Store that changes  *)
(* a row, each of them one SQL statement or one transaction, hence atomic. *)
(*                                                                         *)
(* A catalog entry and the agent type created together with it carry the   *)
(* same model id: the code gives each its own fresh UUID and never pairs   *)
(* them differently.  Delete leaves the agent type behind, so agentTypes   *)
(* also records which UUIDs have been used.                                *)
(*                                                                         *)
(* Names, descriptions, categories, metadata, providers and capabilities   *)
(* are left out: no operation on the columns below reads them.  The row of *)
(* catalog_project_memberships that Create also inserts is part of         *)
(* PartyGraph (AssignToProject), which no operation here reads.            *)
(***************************************************************************)
EXTENDS Timestamps, FiniteSets

CONSTANTS
    Ids,         \* UUIDs
    Absent,      \* no row, no job
    Protocols, Endpoints, Versions,
    NoEndpoint,  \* the empty endpoint string (an MCP card without remotes)
    FailCap      \* health_consecutive_failures is counted up to this value

ASSUME CapAssumption == FailCap \in Nat \ {0}

LifecycleState == {"registered", "active", "degraded", "offline", "deprecated"}

\* model.Health.  The lifecycle status of the row is Health.State.
Health == [state : LifecycleState, fails : 0 .. FailCap,
           probed : Stamps, succ : Stamps]

\* A row of catalog_entries: its health columns and validity_last_seen.
Row == [h : Health, seen : Ages]

AgentType == [protocol : Protocols, endpoint : Endpoints \cup {NoEndpoint},
              version : Versions]

ASSUME AbsentAssumption == Absent \notin Row \cup AgentType

VARIABLES
    entries,     \* catalog_entries, by id
    agentTypes   \* agent_types, by the id of the entry created with it

storeVars == <<entries, agentTypes>>

StoreTypeOK ==
    /\ entries \in [Ids -> Row \cup {Absent}]
    /\ agentTypes \in [Ids -> AgentType \cup {Absent}]
    /\ \A id \in Ids : entries[id] # Absent => agentTypes[id] # Absent

StoreInit ==
    /\ entries = [id \in Ids |-> Absent]
    /\ agentTypes = [id \in Ids |-> Absent]

Present(id) == entries[id] # Absent

\* What a new entry holds: registered, never probed, seen now.
NewHealth == [state |-> "registered", fails |-> 0, probed |-> Never, succ |-> Never]

\* Create is one transaction; a duplicate (agent_key, version), where agent_key
\* hashes protocol and endpoint, makes it fail and roll back.
Create(id, at) ==
    /\ agentTypes[id] = Absent
    /\ \A other \in Ids : agentTypes[other] # at
    /\ agentTypes' = [agentTypes EXCEPT ![id] = at]
    /\ entries' = [entries EXCEPT ![id] = [h |-> NewHealth, seen |-> 0]]

\* Delete removes the entry only: agent type, capabilities and memberships stay.
Delete(id) ==
    /\ Present(id)
    /\ entries' = [entries EXCEPT ![id] = Absent]
    /\ UNCHANGED agentTypes

\* Faulty variants of UpdateHealth: an upsert instead of an UPDATE; no check for a
\* nil success timestamp; the failure counter missing from the updated columns.
UpdateHealthUpserts(id, h) ==
    entries' = [entries EXCEPT ![id] = [h |-> h, seen |-> 0]]

UpdateHealthNilSuccess(id, h) ==
    entries' = IF Present(id) THEN [entries EXCEPT ![id] = [h |-> h, seen |-> h.succ]]
               ELSE entries

UpdateHealthKeepsFails(id, h) ==
    entries' = IF Present(id)
               THEN [entries EXCEPT ![id] = [h |-> [h EXCEPT !.fails = entries[id].h.fails],
                                             seen |-> entries[id].seen]]
               ELSE entries

\* One UPDATE ... WHERE id = ?: it touches no row when the entry is gone, and
\* moves validity_last_seen whenever the result carries a success timestamp.
UpdateHealth(id, h) ==
    entries' = IF Present(id)
               THEN [entries EXCEPT ![id] =
                       [h |-> h, seen |-> IF h.succ = Never THEN @.seen ELSE h.succ]]
               ELSE entries

\* Update, one transaction: GORM's Save of the whole row, which inserts the row if it
\* is gone, and of the agent type.  The unique key of agent types refuses it as a
\* whole if another one has become the same.
UpdateRefused(id, at) == \E other \in Ids \ {id} : agentTypes[other] = at

\* A faulty variant: GORM's Updates instead of Save, which skips zero values.
UpdateNonZero(id, row, at) ==
    IF UpdateRefused(id, at) \/ ~Present(id) THEN UNCHANGED storeVars
    ELSE /\ entries' = [entries EXCEPT ![id] =
              [h |-> [state |-> row.h.state,
                      fails |-> IF row.h.fails = 0 THEN @.h.fails ELSE row.h.fails,
                      probed |-> IF row.h.probed = Never THEN @.h.probed ELSE row.h.probed,
                      succ |-> IF row.h.succ = Never THEN @.h.succ ELSE row.h.succ],
               seen |-> row.seen]]
         /\ agentTypes' = [agentTypes EXCEPT ![id] = at]

Update(id, row, at) ==
    IF UpdateRefused(id, at) THEN UNCHANGED storeVars
    ELSE /\ entries' = [entries EXCEPT ![id] = row]
         /\ agentTypes' = [agentTypes EXCEPT ![id] = at]

SetLifecycle(id, state) ==
    /\ Present(id)
    /\ entries' = [entries EXCEPT ![id].h.state = state]

\* A faulty variant: entries that went offline are not probed any more.
DueUnlessOffline(interval) ==
    {id \in Ids : /\ Present(id)
                  /\ entries[id].h.state \notin {"deprecated", "offline"}
                  /\ entries[id].h.probed > interval}

\* WHERE status != 'deprecated' AND (last_probed IS NULL OR last_probed < ?).
DueForProbing(interval) ==
    {id \in Ids : /\ Present(id)
                  /\ entries[id].h.state # "deprecated"
                  /\ entries[id].h.probed > interval}

\* A faulty variant: most recently probed entries first.
ProbedNoEarlierThan(h1, h2) == h1.probed <= h2.probed

\* ORDER BY last_probed NULLS FIRST: ties in no particular order.
ProbedNoLaterThan(h1, h2) == h1.probed >= h2.probed

\* The sets of entries that ListForProbing may return: the LIMIT first ones.
ListForProbing(interval, limit) ==
    LET due == DueForProbing(interval)
        size == IF Cardinality(due) < limit THEN Cardinality(due) ELSE limit
    IN  {batch \in SUBSET due :
            /\ Cardinality(batch) = size
            /\ \A b \in batch, d \in due \ batch :
                  ProbedNoLaterThan(entries[b].h, entries[d].h)}

\* Time passing, as seen from the stored rows.
OlderHealth(h) ==
    [state |-> h.state, fails |-> h.fails, probed |-> Older(h.probed), succ |-> Older(h.succ)]

StoreTick ==
    /\ entries' = [id \in Ids |->
                     IF Present(id)
                     THEN [h |-> OlderHealth(entries[id].h), seen |-> Older(entries[id].seen)]
                     ELSE Absent]
    /\ UNCHANGED agentTypes
=============================================================================
