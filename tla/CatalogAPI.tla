----------------------------- MODULE CatalogAPI -----------------------------
(***************************************************************************)
(* How cards come into the catalog and are served from it: the handlers    *)
(* for registration, import, creation and deletion (internal/api), the     *)
(* fetcher behind import (internal/service), the raw card store            *)
(* (plugins/cardstore), providers, capabilities and the queries on them    *)
(* (internal/store), and what discovery does to the same tables.           *)
(*                                                                         *)
(* A statement or transaction of the store, a connection and a response    *)
(* are steps; requests run concurrently. An entry and its agent type are   *)
(* created together with fresh ids, which are one id here. Status, probes  *)
(* and the cycle of discovery are in modules HealthProber and Discovery.   *)
(***************************************************************************)
EXTENDS AgentCards, FiniteSets

CONSTANTS Ids,           \* ids of entries and their agent types
          Cards,         \* cards that clients send and servers return
          Imports,       \* bodies of POST /catalog/import: [valid, path, protocol]
          Flat,          \* bodies of POST /catalog: [protocol, endpoint, version]
          Reached,       \* statuses that probes and administrators set
          Reqs,          \* slots for requests
          Manager,       \* the goroutine of discovery
          MaxRedirects,  \* maxRedirects
          MaxFaults,     \* bound: failing calls
          None,          \* no row, no card
          Idle           \* no request

Actors == Reqs \cup {Manager}

VARIABLES entries,    \* table catalog_entries
          types,      \* tables agent_types and capabilities
          providers,  \* organizations in table providers
          cards,      \* table raw_cards
          reqs,       \* reqs[q]: where the handler in slot q is
          faults,
          shown       \* history: the card that an agent type was saved from

apiVars == <<entries, types, providers, cards, reqs, faults, shown>>

Statuses == {"registered", "active", "degraded", "offline", "deprecated"}
Protocols == {"a2a", "mcp", "a2ui"}
Sources == {"push", "config"}

ASSUME CatalogAPIAssumption ==
    /\ MaxRedirects \in Nat \ {0}
    /\ MaxFaults \in Nat
    /\ Manager \notin Reqs
    /\ Reached \subseteq Statuses

Exists(i) == entries[i] # None
Known(i) == types[i] # None

CatalogTypeOK ==
    /\ \A i \in Ids :
        /\ Exists(i) => /\ entries[i].source \in Sources
                        /\ entries[i].status \in Statuses
                        /\ Known(i)
        /\ Known(i) => /\ types[i].protocol \in Protocols
                       /\ types[i].endpoint # ""
                       /\ types[i].provider \subseteq providers
                       /\ UniqueRows(types[i].rows)
        /\ cards[i] # None => Known(i)
    /\ faults \in 0..MaxFaults

CatalogInit ==
    /\ entries = [i \in Ids |-> None]
    /\ types = [i \in Ids |-> None]
    /\ providers = {}
    /\ cards = [i \in Ids |-> None]
    /\ reqs = [q \in Actors |-> Idle]
    /\ faults = 0
    /\ shown = [i \in Ids |-> None]

At(q, stage) == reqs[q] # Idle /\ reqs[q].at = stage
Return(q) == reqs' = [reqs EXCEPT ![q] = Idle]
Go(q, req) == reqs' = [reqs EXCEPT ![q] = req]
Goto(q, stage) == reqs' = [reqs EXCEPT ![q].at = stage]

tables == <<entries, types, providers, cards, shown>>

\* Where a card has been parsed to an agent type and is to be created.
Parsed(stage, protocol, source, c) ==
    [at |-> stage, type |-> Parse(protocol, c), source |-> source, card |-> c]

(***************************************************************************)
(* Registration                                                            *)
(***************************************************************************)
\* The part that RegisterAgentCard and ImportCatalogEntry share: a parser is
\* registered, validates and parses.
Accepts(protocol, c) ==
    /\ protocol \in Parsers
    /\ Validate(protocol, c)
    /\ Parse(protocol, c).ok

RegisterAgentCard(q, c) ==
    /\ reqs[q] = Idle
    /\ Accepts("a2a", c)
    /\ Go(q, Parsed("provider", "a2a", "push", c))
    /\ UNCHANGED <<tables, faults>>

FindByEndpoint(endpoint) == {i \in Ids : Exists(i) /\ types[i].endpoint = endpoint}

\* What POST /catalog asks for: no provider, no capability and no card
FlatRequest(body) ==
    [at |-> "create", source |-> "push", card |-> None,
     type |-> [ok |-> TRUE, protocol |-> body.protocol, endpoint |-> body.endpoint,
               version |-> body.version, spec |-> "", provider |-> {}, caps |-> <<>>]]

\* CreateEntry: the endpoint is looked up first, whatever the protocol.
CreateEntry(q, body) ==
    /\ reqs[q] = Idle
    /\ body.endpoint # "" /\ body.protocol \in Protocols
    /\ FindByEndpoint(body.endpoint) = {}
    /\ Go(q, FlatRequest(body))
    /\ UNCHANGED <<tables, faults>>

\* UpsertProvider: look for it; any error counts as not found.
UpsertProvider(q) ==
    /\ At(q, "provider")
    /\ \/ /\ Goto(q, IF reqs[q].type.provider \subseteq providers THEN "create"
                     ELSE "newProvider")
          /\ UNCHANGED faults
       \/ /\ reqs[q].type.provider # {}
          /\ faults < MaxFaults
          /\ faults' = faults + 1
          /\ Goto(q, "newProvider")
    /\ UNCHANGED tables

\* The unique index refuses a provider that has been inserted meanwhile.
InsertProvider(q) ==
    /\ At(q, "newProvider")
    /\ IF reqs[q].type.provider \subseteq providers
       THEN Return(q) /\ UNCHANGED providers
       ELSE /\ providers' = providers \cup reqs[q].type.provider
            /\ Goto(q, "create")
    /\ UNCHANGED <<entries, types, cards, faults, shown>>

\* The unique index on agent_key, a hash of protocol and endpoint, and version
KeyTaken(t, i) ==
    \E j \in Ids \ {i} :
        /\ Known(j)
        /\ types[j].protocol = t.protocol
        /\ types[j].endpoint = t.endpoint
        /\ types[j].version = t.version

\* An agent type as it is stored. What GORM does to a provider that has no id,
\* as those of discovered cards, is left out: they have none here.
Stored(req) ==
    [protocol |-> req.type.protocol, endpoint |-> req.type.endpoint,
     version |-> req.type.version, spec |-> req.type.spec,
     provider |-> IF req.source = "push" THEN req.type.provider ELSE {},
     rows |-> RowsOf(req.type.caps)]

\* The agent types that cards, and bodies without one, can be made into
CardRows ==
    {Stored(Parsed("create", p, source, c)) : p \in Parsers, source \in Sources, c \in Cards}
FlatRows == {Stored(FlatRequest(body)) : body \in Flat}
TypeRows == CardRows \cup FlatRows

ASSUME NoneAssumption == None \notin Cards \cup TypeRows

\* Lists are sequences.
ASSUME CardAssumption ==
    \A c \in Cards :
        /\ \A field \in {"skills", "interfaces", "extensions", "signatures", "schemes",
                         "reqs", "tools", "resources", "prompts"} :
               c[field] \in Seq(ToSet(c[field]))
        /\ \A s \in ToSet(c.skills) : s.reqs \in Seq(ToSet(s.reqs))

\* SQLStore.Create: one transaction, which either unique index refuses; the
\* answer is 409 for both.
Create(q) ==
    /\ At(q, "create")
    /\ LET t == Stored(reqs[q])
       IN  IF KeyTaken(t, None) \/ ~UniqueRows(t.rows)
           THEN Return(q) /\ UNCHANGED <<entries, types, shown>>
           ELSE \E i \in {j \in Ids : ~Known(j)} :
                  /\ types' = [types EXCEPT ![i] = t]
                  /\ entries' = [entries EXCEPT ![i] =
                                    [source |-> reqs[q].source, status |-> "registered"]]
                  /\ shown' = [shown EXCEPT ![i] = reqs[q].card]
                  /\ IF reqs[q].card = None THEN Return(q)
                     ELSE Go(q, [at |-> "card", id |-> i, card |-> reqs[q].card])
    /\ UNCHANGED <<providers, cards, faults>>

\* StoreCard: an upsert; more than maxCardBytes is cut off.
StoreCard(q) ==
    /\ At(q, "card")
    /\ cards' = [cards EXCEPT ![reqs[q].id] =
                    [card |-> reqs[q].card, truncated |-> reqs[q].card.long]]
    /\ Return(q)
    /\ UNCHANGED <<entries, types, providers, faults, shown>>

\* A call fails or the process dies: the handler goes no further. A card that
\* cannot be stored is only logged. Without ids left creation has to fail.
Abort(q) ==
    /\ reqs[q] # Idle
    /\ \/ faults < MaxFaults /\ faults' = faults + 1
       \/ At(q, "create") /\ (\A i \in Ids : Known(i)) /\ UNCHANGED faults
    /\ Return(q)
    /\ UNCHANGED tables

\* faulty variant: the agent type goes as well, its card does not
DeleteEntryAndType(i) ==
    /\ Exists(i)
    /\ entries' = [entries EXCEPT ![i] = None]
    /\ types' = [types EXCEPT ![i] = None]
    /\ UNCHANGED <<providers, cards, reqs, faults, shown>>

\* DeleteEntry: the agent type, its capabilities and its card stay.
DeleteEntry(i) ==
    /\ Exists(i)
    /\ entries' = [entries EXCEPT ![i] = None]
    /\ UNCHANGED <<types, providers, cards, reqs, faults, shown>>

\* Probes and administrators change the status (module HealthProber).
SetStatus(i, status) ==
    /\ Exists(i)
    /\ entries' = [entries EXCEPT ![i].status = status]
    /\ UNCHANGED <<types, providers, cards, reqs, faults, shown>>

(***************************************************************************)
(* Import                                                                  *)
(***************************************************************************)
Addresses == {"public", "private"}

\* ValidateURL: the form of the URL, and no private address among those its
\* host has at this moment; a host that has none passes.
ValidateURL(u, addresses) == u.valid /\ "private" \notin addresses

\* faulty variant: the address has been checked with the URL
DialAllowedAny(address) == TRUE

\* The Control function of the dialer
DialAllowed(address) == address # "private"

\* ImportCatalogEntry: ValidateURL is called here and in Fetch.
ImportCatalogEntry(q, body) ==
    /\ reqs[q] = Idle
    /\ \E addresses \in SUBSET Addresses : ValidateURL(body, addresses)
    /\ Go(q, [at |-> "dial", hops |-> 0, body |-> body])
    /\ UNCHANGED <<tables, faults>>

\* The host is looked up again to connect.
Dial(q, address) ==
    /\ At(q, "dial")
    /\ IF DialAllowed(address)
       THEN Go(q, [at |-> "connected", hops |-> reqs[q].hops, body |-> reqs[q].body,
                   address |-> address])
       ELSE Return(q)
    /\ UNCHANGED <<tables, faults>>

\* CheckRedirect: hops + 1 requests have been made when it is called.
Redirect(q, u) ==
    /\ At(q, "connected")
    /\ \E addresses \in SUBSET Addresses :
           IF reqs[q].hops + 1 < MaxRedirects /\ ValidateURL(u, addresses)
           THEN Go(q, [at |-> "dial", hops |-> reqs[q].hops + 1, body |-> reqs[q].body])
           ELSE Return(q)
    /\ UNCHANGED <<tables, faults>>

\* detectProtocol: by the URL that was asked for, then by the keys of the card
DetectProtocol(path, c) ==
    CASE path \in Parsers -> path
      [] "skills" \in c.keys -> "a2a"
      [] "skills" \notin c.keys /\ "tools" \in c.keys -> "mcp"
      [] OTHER -> ""

\* A card comes back; what the client has said of the protocol counts first.
FetchCard(q, c) ==
    /\ At(q, "connected")
    /\ LET protocol == IF reqs[q].body.protocol # "" THEN reqs[q].body.protocol
                       ELSE DetectProtocol(reqs[q].body.path, c)
       IN  IF Accepts(protocol, c)
           THEN Go(q, Parsed("provider", protocol, "push", c))
           ELSE Return(q)
    /\ UNCHANGED <<tables, faults>>

(***************************************************************************)
(* Discovery: cards are parsed without validation                          *)
(***************************************************************************)
\* faulty variant: entries that came through the API are updated as well
SkipsNothing(i) == FALSE

SkipsPushed(i) == entries[i].source = "push"

\* upsert: look for an entry with that endpoint
DiscoverCard(protocol, c) ==
    /\ reqs[Manager] = Idle
    /\ Parse(protocol, c).ok
    /\ LET found == FindByEndpoint(Parse(protocol, c).endpoint)
       IN  \/ /\ found = {}
              /\ Go(Manager, Parsed("create", protocol, "config", c))
           \/ \E i \in found :
                /\ ~SkipsPushed(i)
                /\ Go(Manager, [at |-> "save", id |-> i, entry |-> entries[i],
                                type |-> Parse(protocol, c), card |-> c,
                                source |-> "config"])
    /\ UNCHANGED <<tables, faults>>

\* SQLStore.List by protocol, status and source
List(protocols, statuses, sources) ==
    {i \in Ids :
        /\ Exists(i)
        /\ types[i].protocol \in protocols
        /\ entries[i].status \in statuses
        /\ entries[i].source \in sources}

\* An agent type as it is loaded from its tables
Loaded(t) ==
    [ok |-> TRUE, protocol |-> t.protocol, endpoint |-> t.endpoint, version |-> t.version,
     spec |-> t.spec, provider |-> t.provider, caps |-> LoadCapabilities(t.rows)]

\* upsert: an entry that was not seen is saved as offline with its agent type
\* and the capabilities as they were loaded.
MarkDown(i) ==
    /\ reqs[Manager] = Idle
    /\ i \in List(Protocols, Statuses, {"config"})
    /\ Go(Manager, [at |-> "save", id |-> i,
                    entry |-> [entries[i] EXCEPT !.status = "offline"],
                    type |-> Loaded(types[i]), card |-> None, source |-> "config"])
    /\ UNCHANGED <<tables, faults>>

\* SQLStore.Update: everything is written, capabilities are replaced, and an
\* entry that has been deleted meanwhile is inserted again; or all is refused.
Update(q) ==
    /\ At(q, "save")
    /\ LET i == reqs[q].id
           t == Stored(reqs[q])
       IN  IF KeyTaken(t, i) \/ ~UniqueRows(t.rows)
           THEN Return(q) /\ UNCHANGED <<entries, types, shown>>
           ELSE /\ types' = [types EXCEPT ![i] = t]
                /\ entries' = [entries EXCEPT ![i] = reqs[q].entry]
                /\ IF reqs[q].card = None
                   THEN Return(q) /\ UNCHANGED shown
                   ELSE /\ shown' = [shown EXCEPT ![i] = reqs[q].card]
                        /\ Go(q, [at |-> "card", id |-> i, card |-> reqs[q].card])
    /\ UNCHANGED <<providers, cards, faults>>

-----------------------------------------------------------------------------
Handler(q) ==
    \/ \E c \in Cards : RegisterAgentCard(q, c) \/ FetchCard(q, c)
    \/ \E body \in Flat : CreateEntry(q, body)
    \/ \E body \in Imports : ImportCatalogEntry(q, body) \/ Redirect(q, body)
    \/ \E address \in Addresses : Dial(q, address)
    \/ UpsertProvider(q)
    \/ InsertProvider(q)

CatalogNext ==
    \/ \E q \in Reqs : Handler(q)
    \/ \E q \in Actors : Create(q) \/ Update(q) \/ StoreCard(q) \/ Abort(q)
    \/ \E i \in Ids : \/ DeleteEntry(i)
                      \/ MarkDown(i)
                      \/ \E status \in Reached : SetStatus(i, status)
    \/ \E c \in Cards, p \in Parsers : DiscoverCard(p, c)

CatalogSpec == CatalogInit /\ [][CatalogNext]_apiVars

-----------------------------------------------------------------------------
(***************************************************************************)
(* Queries                                                                 *)
(***************************************************************************)
Capabilities(i) == LoadCapabilities(types[i].rows)

\* The card store plugin finds a card by the agent type.
GetCard(i) == cards[i]

\* GetEntryCard: None is 404
GetEntryCard(i) == IF Exists(i) THEN GetCard(i) ELSE None

\* SQLStore.ListCapabilities without its page: items as <<kind, name, agent>>
ListCapabilities ==
    UNION {{<<r.kind, r.name, i>> :
               r \in {r \in ToSet(types[i].rows) : r.kind \in DiscoverableKinds}} :
           i \in {i \in Ids : Exists(i) /\ entries[i].status \in {"active", "degraded"}}}

\* ListAgentsByCapability: entries in any status
ListAgentsByCapability(kind, name) ==
    {i \in Ids : Exists(i) /\ \E r \in ToSet(types[i].rows) : r.kind = kind /\ r.name = name}

\* GetCapabilityAgents: the agents, each with its snippet, if it has one.
\* Without agents the answer is 404.
GetCapabilityAgents(kind, name) ==
    [i \in ListAgentsByCapability(kind, name) |-> Snippet(Capabilities(i), kind, name)]

-----------------------------------------------------------------------------
\* How many capabilities of a kind an entry shows
CountOfKind(caps, kind) == Cardinality({k \in DOMAIN caps : caps[k].kind = kind})

\* What an entry shows is what the card says that it was last saved from, nothing
\* of it lost in the table and nothing mixed with another card, although rows are
\* replaced by discovery and written back as they were loaded (docs: the preview
\* "renders a validated agent card preview before registration").
ShownAsInCard ==
    \A i \in Ids :
        Exists(i) /\ shown[i] # None =>
            LET t == Parse(types[i].protocol, shown[i])
                caps == Capabilities(i)
                counts == [spec |-> types[i].spec,
                           skills |-> CountOfKind(caps, "a2a.skill"),
                           extensions |-> CountOfKind(caps, "a2a.extension"),
                           interfaces |-> CountOfKind(caps, "a2a.interface")]
            IN  /\ types[i].rows = RowsOf(t.caps)
                /\ AuthSummary(caps) = AuthSummary(t.caps)
                /\ SecurityDetail(caps).requirements = SecurityDetail(t.caps).requirements
                /\ types[i].protocol = "a2a" => counts = PreviewA2A(shown[i])

\* The raw card of an entry that came through the API is the one it was made
\* from, or missing when storing it failed: not one of another registration, nor
\* one that discovery fetched from the same endpoint.
RawCardIsItsOwn ==
    \A i \in Ids :
        Exists(i) /\ entries[i].source = "push" /\ GetEntryCard(i) # None
            => GetEntryCard(i).card = shown[i]

\* Every skill, tool, resource or prompt on the list page can be opened: the
\* query behind the detail page finds that agent, with a snippet to show.
ListedCanBeOpened ==
    \A item \in ListCapabilities :
        LET agents == GetCapabilityAgents(item[1], item[2])
        IN  item[3] \in DOMAIN agents /\ agents[item[3]] # {}

\* A connection for an import is made to no private address, though the name may
\* resolve differently from one lookup to the next, and after so many redirects.
ConnectsToPublic ==
    \A q \in Reqs :
        At(q, "connected") => reqs[q].address = "public" /\ reqs[q].hops < MaxRedirects
=============================================================================
