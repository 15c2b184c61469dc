# A TLA+ verification of AgentLens

AgentLens is a catalog of AI agents and MCP servers: a single Go process with an HTTP
API, a SQL database (SQLite by default, PostgreSQL optionally), a worker that probes the
health of every entry, discovery sources that fill the catalog, and a permission model of
persons, groups and projects. This directory holds TLA+ modules that model it, TLC
configurations that check them on small instances, and proofs that TLAPS checks for every
instance.

Paths below are relative to the repository root. Line-by-line correspondence is in
`PROJECT.json` ("map").

## 1. Inventory

| Component | State it keeps | Operations that change it | Called by | Module |
|---|---|---|---|---|
| Health prober (`plugins/health`) | ticker, goroutines of a cycle, semaphore; the health columns of `catalog_entries` | `run`/`checkAll`, `probeOne`, `ProbeEntry` | kernel, lifecycle API | `HealthProber` |
| Lifecycle and probe API (`internal/api/health_handlers.go`) | the rate limiter's map | PATCH lifecycle, POST probe | HTTP clients | `HealthProber`, `ProbeRateLimiter` |
| Catalog store (`internal/store/sql_store*.go`, `health_store.go`, `provider_store.go`) | `catalog_entries`, `agent_types`, `capabilities`, `providers` | `Create`, `Update`, `Delete`, `UpdateHealth`, `SetLifecycle`, `UpsertProvider` | API, prober, discovery | `CatalogStore`, `CatalogAPI`, `AgentCards` |
| Catalog API (`internal/api/handlers.go`, `catalog_helpers.go`, `register_handler.go`, `import_handler.go`, `capability_handlers.go`) | requests between two statements | register, import, create, delete | HTTP clients | `CatalogAPI` |
| Card fetcher (`internal/service`) | a connection and its redirects | `Fetch` | import | `CatalogAPI` |
| Raw card store (`plugins/cardstore`) | `raw_cards` | `StoreCard`, best effort, after the entry | API, discovery | `CatalogAPI` |
| Parsers and validation (`plugins/parsers`) | none | JSON to agent type and capabilities | API, discovery | `AgentCards` |
| Discovery (`internal/discovery`) | none of its own; `catalog_entries` | `runOnce`, `upsert` per source | its goroutine | `Discovery` |
| Party graph (`internal/store/party*.go`) | `parties`, `party_relationships`, `party_group_closures`, `catalog_project_memberships` | `CreateParty`, `DeleteParty`, `AddMember`, `RemoveMember`, `UpdateMemberRole`, `AssignToProject`, `RemoveFromProject`; closure rebuilt by several of them | party API, user API | `PartyGraph` |
| Party API and role resolution (`internal/api/party_*.go`, `catalog_project.go`, `party_store_role_resolution.go`) | requests between two statements | the handlers of `/groups`, `/projects`; reading: `ResolveUserProjects`, `RequireProjectPermission` | HTTP clients | `PartyGraph`, `PartyAccess` |
| Users, roles, login (`internal/store/user_store*.go`, `role_store.go`, `internal/api/user_handlers.go`, `auth_handlers.go`, `role_handlers.go`, `internal/auth`) | `users`, `roles`, tokens at clients | create, update, delete, login, lockout, refresh, bootstrap | HTTP clients, start-up | `UserAccounts` |
| Person synchronisation (`party_store_person_sync.go`) | `parties` | `CreatePersonForUser` | user API, start-up | `UserAccounts`, `Startup` |
| Migrations (`internal/db`) | `schema_migrations`, all rows | one transaction per migration | start-up | `Migrations` |
| Kernel, plugin manager, `main` | initialised plugins, what is deferred | init, start, serve, stop | the operating system | `PluginManager`, `Startup` |
| Settings | `settings` | `Set` | HTTP clients | - |
| Configuration, telemetry, enterprise stubs, frontend | none that another part reads | | | - |

How they interact: no component locks a row. The prober, the lifecycle API, the catalog
API and discovery all write `catalog_entries`, each with single statements or short
transactions, and most of them write back values computed from a copy they read earlier.
The user and party handlers read and decide in separate statements before the one that
writes, and `UserStore.Update` and `SQLStore.Update` save whole rows. Several processes may
share a database. What is hard to test follows from that:

* a probe takes seconds, and its result is written over whatever has happened meanwhile
  (deprecation, restoration, deletion, another probe);
* failures, timeouts, lost writes and restarts fall between a probe and its write, between
  an entry and its raw card, between a user and its person, between two migrations;
* the worker takes a limited batch per cycle, so fairness depends on an `ORDER BY`;
* the closure table is a cache of the graph, trusted both by the cycle check and by
  permission resolution, and permission resolution reads it in other statements than roles;
* check-then-act in handlers (members, roles, last administrator, duplicate endpoints);
* stale rows saved whole undo locks, counters and deletions;
* capabilities are converted to rows and back on every save, names being derived on the way;
* host names are resolved once for a check and again for the connection.

`PROJECT.json` lists each hazard at its line, with the properties that cover it.

What makes each part correct:

* *prober and lifecycle*: the health columns of a row fit together; offline is earned by
  failures that happened; deletion is final; nobody starves; recovery and outage are
  noticed; deprecation lasts until an administrator ends it (it does not, see findings);
* *rate limiter*: two admitted probes of one entry are a window apart, although the map is
  cleaned up on behalf of any entry; the map stays bounded;
* *catalog API, parsers, card store, fetcher*: an entry shows what its card says, serves
  its own raw card, can be opened from the capability list; imports connect to public
  addresses;
* *discovery*: one entry per endpoint, entries of the API untouched, rows that report what
  happened;
* *party graph*: closure exact, graph acyclic, ancestors are groups, role updates
  optimistic; access neither lost nor invented by a torn read;
* *users*: a lock is earned and runs out, rows stay well-formed under stale saves; one
  administrator always left (it is not, see findings);
* *migrations, start and stop*: every migration once and in order, data carried over,
  nobody serves on an old schema, plugins stopped in reverse, somebody gets to serve.

## 2. Plan

Done, in this order:

1. `Timestamps`, `CatalogStore`, `ProbeRateLimiter`, `RateLimit` - shared vocabulary and
   the limiter.
2. `HealthProber` (composes `CatalogStore` and `ProbeRateLimiter`), refining
   `EntryLifecycle`.
3. `PartyGraph`, and `PartyAccess` on top of it: role resolution while the graph changes.
4. `Discovery` and `CatalogSystem`, its composition with `HealthProber`.
5. `AgentCards` (parsers, validation, capability rows as operators) and `CatalogAPI`.
6. `UserAccounts`: login, lockout, users, roles, tokens, persons.
7. `Migrations`, `PluginManager`, and `Startup`, which composes them.

Left:

* liveness of the composition: an entry that answers is shown up although discovery keeps
  marking it offline. It depends on the two intervals, which the configuration does not
  relate;
* `PartyGraph` with interleaved READ COMMITTED transactions, as on PostgreSQL; the abstract
  specification is the present module.

## 3. Modules and code

| Module | Models | Notes |
|---|---|---|
| `Timestamps` | `time.Time` comparisons | A timestamp is its age; ages saturate at `MaxAge`, a missing timestamp is older than any |
| `CatalogStore` | `internal/store` on catalog tables | One operator per method; a statement or a transaction is atomic |
| `ProbeRateLimiter` | `probeRateLimiter.allow` | The mutex is held throughout, one call is one step |
| `RateLimit` | the limiter under arbitrary calls | History variables record what was admitted |
| `HealthProber` | `plugins/health`, `health_handlers.go`, the catalog API's create and delete | See below |
| `EntryLifecycle` | what the catalog promises of an entry's life | Abstract specification |
| `Discovery` | `internal/discovery/manager.go` and what its sources may return | One action per call of the store |
| `CatalogSystem` | everything that writes `catalog_entries` | Composes `HealthProber` and `Discovery` |
| `AgentCards` | `plugins/parsers`, the capability types of `internal/model`, rows of `capabilities` | Operators only |
| `CatalogAPI` | registration, import, card store, queries, and discovery's writes to the same tables | Uses `AgentCards` |
| `PartyGraph` | parties, members, closure, memberships and their handlers | See below |
| `PartyAccess` | `ResolveUserProjects`, `RequireProjectPermission` | Extends `PartyGraph` |
| `UserAccounts` | users, roles, login, tokens and the middleware | See below |
| `Migrations` | `internal/db` | What each migration does to rows |
| `PluginManager` | `internal/kernel/plugin_manager.go` | A record per process |
| `Startup` | `cmd/agentlens/main.go` | Composes `Migrations` and `PluginManager` |
| `MC*` | instances for TLC | |
| `*Proofs` | theorems | |

**HealthProber.** `entries` and `agentTypes` are the tables. `jobs[w]` is a probe in
progress: `queued` (listed, waiting for the semaphore), `probing` (`probeOne` running on
the copy `h` that was listed or fetched) and `writing` (the result computed, `UpdateHealth`
not yet executed). A goroutine of the worker is named by the entry it probes, an on-demand
probe by its caller. `cycling` says that `checkAll` has not returned, `tick` that the
ticker's channel holds a tick (capacity one, further ticks are dropped), `phase` is the
ticker's clock. Actions: `StartCycle` (take the tick, `ListForProbing`), `ListFails`,
`Launch` (semaphore), `FinishProbe`, `WriteResult`, `WriteFails`, `EndCycle` (`wg.Wait`),
`ProbeEntry` (rate limit, then `Get`), `CancelRequest`, `PatchLifecycle`, `Register`,
`DeleteEntry`, `Restart` (memory lost, rows kept) and `Tick`. The outcome of an HTTP
request is any of fast, slow or failed. An entry and its agent type share one identifier,
because `Create` makes both in one transaction and nothing pairs them anew; `Delete` leaves
the agent type, which therefore also records used identifiers.

**Discovery and CatalogSystem.** `pass` says where `runOnce` is: before `Discover` of a
source, in the loop over what it returned (`todo`, and `found` between `FindByEndpoint` and
the save), or in the loop over the entries to be marked offline (`listed`, their rows as
`List` read them). `sourceOf` is the column `source`. `Update` is GORM's `Save`: all columns, and an insertion if the row is gone.
Entry ids are integers here, because `FindByEndpoint` takes the first row by primary key.
The composition interleaves all steps of both modules; a registration through the API also
sets the source, a restart and the clock also act on the rows that discovery holds.
`HealthCoherent` and `OfflineEarned` are promises of the prober alone: discovery marks
entries offline that never failed a probe, and what holds of rows that it saves as well is
`RowsTruthful`.

**PartyGraph.** The kind of a party is a function of its id, since ids are fresh UUIDs and
no statement updates a kind. `requests` holds AddMember and UpdateMemberRole requests
between their statements. `Ancestry(E)` is the least set of pairs that the recursive query
of `rebuildAllClosures` computes, written as an intersection of closed sets so that it can
be reasoned about. Methods of `PartyStore` are single steps: on SQLite writing transactions
are serialised. PostgreSQL's weaker isolation is left to the plan.

**PartyAccess.** `reader` is one request that resolves a user's projects or checks a
permission: `LookUpPerson`, `ReadAncestors` (the closure), then `ReadMemberships` and
`FetchProjects`, or `CheckPermission`. Every action of `PartyGraph` may come in between.
`seen` is history: who was reachable since the request began, and the least and the highest
role of every party in every project. An answer can combine a group that the user has left
with a role the group got later, so `InventsNoAccess` bounds an answer by what was true at
some moment of the request, each part for itself. `GET /auth/me/projects` resolves projects;
`RequireProjectPermission`, which `CheckPermission` models, is there but no route uses it yet.

**AgentCards and CatalogAPI.** A card is a record of the fields the code decides on; texts
that are only copied are left out, and a capability is its kind, the fields that identify
it, and what `buildAuthSummary` and the detail pages read. `capabilityToRow` and
`rowToCapability` are modelled by what they do to names: a name missing in the card is
derived from other fields, and comes back as a name only if the kind has that field. In `CatalogAPI` a request
passes through `provider`, `newProvider`, `create` and `card`, an import through `dial` and
`connected` first, and discovery is one more actor that creates, saves and stores cards.
`shown` is history: the card an agent type was last saved from. Statuses change by one
action, since `HealthProber` has their detail. Two modules model `Create`, `Update` and
`Delete`: `CatalogStore` on the health columns, `CatalogAPI` on the rest of the row; they
have the same guards (unique key, existence).

**UserAccounts.** `users`, `roles`, `persons` are the tables, `tokens` what clients hold.
A handler is a request in `reqs` between its statements: a login has read the row
(`LoginRead`) before it counts (`LoginWrong`) or resets (`LoginRight`), `Update` and
`ChangePassword` hold the whole row they will save (`SaveUser`, GORM's `Save`, which inserts
a missing row), `Delete` counts before it deletes, `Create` inserts the user, then the
person, then perhaps rolls back. A lock is the time left until `locked_until`.

**Startup.** `pc[p]` is where `main` of a process is. One pending migration is one step,
because `Migrate` commits it together with its version; a process that finds its version
applied by another exits, as `main` does on any error. The initial states are the
databases that a release with the first n migrations can have left, for every n
(`WrittenBy`), which are less tidy than the migrations leave them: users without a person
(`main.go:174` and a crash after `user_handlers.go:134` leave them) and persons without a
user, entries outside the default project (`catalog_project.go:38`) and memberships, raw
definitions and raw cards of deleted entries. `origin` is history: the versions and rows
that were there before the first process started. Users are deleted and edited by
`UserAccounts` only, not by a process that serves in `Startup`: the part of
`ServesMigrated` that there is some user speaks of the start, not of later requests.
`PluginManager` keeps what the manager keeps and the calls of `Stop`. `Die` is `os.Exit(1)`
or a crash at any point: nothing deferred runs.

## 4. Runs

Runs that must pass:

| Run | Checks | Instance, and why it is enough |
|---|---|---|
| `rate_limit` | `RateLimited`, `MapForgets` | Three entries, window 2, ages to 5: a key can survive a cleanup done for another entry, expire in the map, and be evicted; entries are symmetric |
| `health_race` | `TypeOK`, `HealthCoherent`, `OfflineEarned`, `ImplementsLifecycle` | One entry, the worker and one on-demand caller - two copies of one row in flight at once, which is what the rate limiter with a window shorter than the timeout allows -, threshold 2, a probe that may last longer than an interval, one fault, and time that may pass at any moment (`Prompt = FALSE`) |
| `health_live` | `ProbedAgainAndAgain`, `RecoveryIsNoticed`, `OutageIsNoticed` | Three entries that compete for batches of one, threshold 2; starts from a full catalog so that the competition is there from the first cycle. No faults: a lost result leaves the row as it was before the cycle, and the safety runs have them |
| `system_race` | `SystemTypeOK`, `RowsTruthful` | One entry and one source; discovery's copy, the worker's copy and the row may all differ; one fault |
| `system_discovery` | `OneDiscoveredPerEndpoint`, `PushProtected` | Three entries, two versions of a card, both sources, any number of failing store calls of discovery; the clock stands still, since probes do not decide which entries there are |
| `catalog_api` | `CatalogTypeOK`, `ShownAsInCard`, `RawCardIsItsOwn`, `ListedCanBeOpened`, `ConnectsToPublic` | Two entries, one API request besides discovery, four cards: either form of security schemes, both spec versions, a renewed card at the same endpoint, derived names that collide, a card that both parsers read; one failing call |
| `party_groups` | `ClosureExact`, `Acyclic`, `AncestorsAreGroups` | A person, three groups (cycles of up to three edges, and diamonds), the default project; one request in flight while parties are deleted; entries have few memberships, which no closure depends on |
| `party_access` | `KeepsAccess`, `InventsNoAccess`, `RoleUpdateIsOptimistic` | A person and a group, each with up to two roles in the default project, one changing request and one reading request |
| `accounts` | `AccountsTypeOK`, `LockEarned`, `LockExpires` | Two users, two requests, limit 2, a lock of two clock units, one fault; begins either with the seeded roles fixed or with no further users to come, because editing roles and creating users together multiply and do not interact beyond the permission in a token |
| `startup` | `StartupTypeOK`, `SchemaInOrder`, `ServesMigrated`, `DataCarriedOver`, `StopsInReverse`, `SomebodyServes` | Two processes, three plugins of which one has no license, an older user besides the administrator, one entry, databases of every release, untidy ones included; one failure or crash |

The two runs that must end in a violation are the findings of the next section:
`deprecated_until_restored`, and `last_admin_kept`, whose specification `DeletionSpec`
leaves out the requests that deactivate a user, so that only deletions can end an
administrator.

Bounds: `MaxAge` (ages; beyond `Interval`, `Timeout` and `Window` no comparison tells ages
apart, except for the order in which entries were probed, for which `health_live` allows
one value per entry), `FailCap` (failures are counted up to it; it is at least the
threshold, and larger counts behave like it), `MaxFaults` (failing calls, crashes and
restarts per behaviour), `Timeout` and `Interval` in clock units, `MaxRoleWrites` and
`MaxTokens` (role edits, and tokens that clients keep), `FewMemberships` (a constraint of
`party_groups`), persons and projects counted up to 2 in `Migrations`. Ids come from finite
sets; when none is left, creation fails.

**Fairness.** `FairSpec` assumes weak fairness of `WorkerStep` (the Go scheduler runs every
goroutine that can run, and an HTTP probe ends within its timeout) and of `Tick` (time
passes). Nothing is assumed of clients, administrators or faults. The liveness runs set
`Prompt`: a clock unit passes only while every worker waits, that is, computing takes no
time compared with the interval. Without it a worker slower than its ticker is possible, for
which the safety run stands. `AccountsFairness` (in the specifications of
the runs `accounts` and `last_admin_kept`) assumes that handlers run to their end and that time passes. `FairStartup` assumes that
`main` runs on and that a supervisor starts a process that has ended, as Kubernetes does for
the Deployment of the Helm chart; nothing is assumed of signals and failures, so that `SomebodyServes` says that the
races for a migration and for the administrator, which make processes exit, are won by
somebody.

Every property is shown to say something about the code: for each there is a variant of a
modelled definition with a plausible bug (the operators commented "faulty variant") under
which TLC finds it violated; `PROJECT.json` lists the pairs under "mutants".

## 5. Findings

1. *A probe undoes a deprecation* (`deprecated_until_restored`). `UpdateHealth` writes the
   status computed from the copy read before the probe. `docs/architecture.md:599` and
   `docs/end-user-guide.md:542` say that only PATCH ends a deprecation.
2. *Two administrators can delete each other* (`last_admin_kept`). `UserHandler.Delete`
   counts and deletes in separate statements: the administrator creates a second one, each
   asks for the deletion of the other, both requests count two and both delete. (A request
   that deactivates the other administrator between the two statements has the same effect.)
   `docs/end-user-guide.md:686` and ADR-005:55
   say that the last administrator cannot be deleted.

Other disagreements between code and documentation that the models make visible, without a
run of their own:

* A failed probe carries the last success timestamp of its copy, and `UpdateHealth` then
  sets `validity_last_seen` to it, although its comment says "when the probe succeeded"
  (`WriteResult`, `UpdateHealth`).
* `DeletePartyHandler` deletes persons too; its comment says "a non-system party of
  cfg.Kind" (`DeleteParty`).
* `upsert` saves whole rows: a probe result written since `FindByEndpoint` is undone, so an
  entry can become registered again, which the state diagram rules out; a deletion is
  undone as well, because `Save` inserts a missing row (`SaveFound`, `MarkDown`).
* Offline marking does not look at the state of the entry and ends deprecations
  (`ListUnseen`, `MarkDown`).
* A deleted agent cannot be registered again: `Delete` leaves the agent type, whose unique
  key makes `Create` report a duplicate, and the API answers that "an entry with this
  endpoint already exists" (`DeleteEntry`, `KeyTaken`).
* A party deleted between the checks of `AddMemberHandler` and `AddMember` leaves an edge
  and closure rows that refer to no party (`LoadMember`, `AddMember`).
* ADR-008:28 speaks of agents not returned by any source; `upsert` looks at one source at a
  time and marks an entry offline that another source lists (`ListUnseen`).
* ADR-005:55 says that system roles cannot be modified; `RoleHandler.Update` modifies them
  (`RoleUpdateRead`).
* ADR-011:66 wants persons never orphaned; `UserHandler.Delete` leaves the person, and a
  crash between user and person leaves a user without one (`DeleteUser`, `CreateInsert`,
  `AdminPerson`).
* `docs/auth.md:97` lets administrators unlock accounts; `Update` sets `is_active` and
  leaves `locked_until` (`UpdateRead`).
* `docs/api.md:352` says "Maximum 3 redirects followed"; `CheckRedirect` refuses the third,
  because `via` counts the first request too (`Redirect`).
* The comment in `capabilityToRow` says that derived names satisfy the unique index; two
  interfaces with one URL collide, and the registration is refused with 409 (`UniqueRows`,
  `Create`).
* `docs/end-user-guide.md:340` says that the full card is available through the API when it
  is truncated; what is stored is the truncated one (`StoreCard`).
* Two entries may have one endpoint, although `docs/architecture.md:525` speaks of a UNIQUE
  constraint on it; the key is protocol, endpoint and version (`Create`).

## 6. Proofs

All theorems hold for every value of the constants that satisfies the named assumptions
(`MaxAgeAssumption`, `CapAssumption`, `AbsentAssumption`, `WindowAssumption`,
`ProberAssumption`, `JobAssumption`, `DiscoveryAssumption`, `PartyAssumption`,
`RequestAssumption`, `AccountAssumption`, `PluginsAssumption`, `StartupAssumption`,
`CatalogAPIAssumption`, `CardAssumption`, and a `NoneAssumption` each for `Migrations` and
`CatalogAPI`): numbers of entries, cards, callers, parties, users, requests, processes and
plugins are arbitrary, as are the lengths of cards, thresholds, intervals and windows. The
assumptions say that bounds are natural numbers, that the values for "nothing" are different
from what is stored, that the lists of a card are sequences, that entry ids are numbers
where `FindByEndpoint` takes the first, and that probes set statuses that exist.

* `RateLimitProofs`: `RateLimited` alone is not inductive, for it speaks of history only.
  `IInv` adds `Remembers`: an admission younger than the window is still in the map with
  its exact age. Eviction keeps it because it removes only keys that have expired.
* `HealthProberProofs`: `TypeCorrect` first; then `IInv`, which joins `HealthCoherent` with
  `FailuresBacked` - no copy of the failure counter, in the row or in flight, is ahead of
  the failures that happened. Both speak of copies in flight as well as of rows, since a
  write makes a row of a copy. `OfflineEarned` follows: an offline row has reached the
  threshold, and its counter is backed. `LifecycleImplemented` is the refinement of
  `EntryLifecycle`; it needs that no result about to be written is `registered`
  (`NoneRegisters`). `StepRefines` maps each action to an abstract step or a stutter.
* `PartyGraphProofs`: lemmas on `Ancestry` (closed, least, transitive, monotone), and
  `EdgeClosesNoCycle`: an edge from x to y adds no cycle to an acyclic graph unless x = y
  or x is already an ancestor of y. `Inv` is `TypeOK`, `ClosureExact`, `Acyclic` and
  `KindsKept` (kinds of edges and of the requests that have checked them). `Acyclic` needs
  `ClosureExact`, because the code's check reads the closure table only. The optimistic
  role update is an action property proved from the same invariant.
* `PartyAccessProofs`: `AccessKeepsGraph` first - the reader only reads, so the composition
  implements `PartyGraph`, and `Inv` above holds of it. `AccessInv` then follows a request:
  while it reads, the history `seen` covers the present (`SeenCoversNow`); the ancestors it
  has read are among those reached and include all through which the user had a role all the
  time (`AncestorsFit`); the roles it has read lie between the two histories (`RolesFit`), and
  so does a decision (`DecisionFits`). `KeepsAccess` and `InventsNoAccess` are its last two
  parts for an answered request.
* `CatalogSystemProofs`, on top of `HealthProberProofs`: `SystemInv` joins the type invariant,
  `RowsTruthful` and `Structure`. `OneDiscoveredPerEndpoint` is not inductive: `Save` inserts
  a row that was deleted since it was read, so an entry that discovery still holds a copy of
  has to be counted as if it were there (`OneHeldPerEndpoint`). That in turn needs what
  discovery knows of its copies: the found entry is its own and at the endpoint of the card
  (`FoundOwned`), there is none when it is about to create one (`NewIsMissing`, which holds
  because nobody else creates entries of discovery), and copies are held in their stage only
  (`StageFits`, `ListedOwned`). `PushProtected` is an action property from the same invariant.
* `CatalogAPIProofs`: in three layers. *Lists*: `FlattenSeq` chooses a recursive function;
  `FlattenExists` and `FlattenIs` show that there is one, and `FlattenList` and `FlattenCount`
  what it returns and how many items of a kind. Induction over lengths goes through
  `InductiveSet`, a set of numbers that has 0 and every successor, proved from the
  well-foundedness of `<`. *Capabilities*: those the parsers make are `Canonical` - a name
  only where the kind has one -, and a canonical capability comes back from its row with all
  its fields, or with a derived name, and gives the same row again (`CapabilityKept`,
  `RowsKept`, `SummaryKept`); `ParseA2ACanonical` adds that the counts are the preview's.
  *Tables*: `CatalogInv` says that an agent type was made from the card it is shown with
  (`MadeFrom`), what each request in flight holds, and that the card of a pushed entry,
  stored or about to be, is that card (`CardsOwned`). The delicate step is `Update` without a
  card: it writes back what it loaded, and `LoadedIsStored` shows that this is what is there.
  It rests on discovery saving only entries of its own, and on nobody else changing their
  agent types.
* `UserAccountsProofs`: `AccountsTypeOK` and then `LockEarned`, which is inductive only
  because it speaks of the copies in flight as well: `Save` makes a row of a copy. The
  lemmas say, per kind of request, what a row and a copy keep.
* `StartupProofs`: `StartupInv` joins the type invariant with what the phases of `main`
  know. `CurrentVersion` reads one number, so the loop needs `SchemaInOrder` to conclude
  that all versions below it are applied (`1..(version - 1)` for a process in the loop,
  all of them behind it); roles are seeded once migration 3 is applied, users are only
  added. `CurrentVersionIsLast` shows that the maximum it takes exists. `DeferredInv`, on
  top of it, follows the deferred calls: nothing is stopped before the signal, everything
  is before telemetry goes; `StopsInReverse` follows from it. `CarriedInv` compares the
  rows with `origin`, the database as it was found: per migration, what holds before it
  (statuses are the old ones, no project yet) and after it, where `DataCarriedOver` asks
  for exactly the rows that were there and those the migration adds. It needs two more
  facts: raw definitions never change, so that migration 6 still finds them, and a process
  is between the count of users and the administrator's person only if the database was
  found without users, so that nobody else is given a person by a start.

Only model-checked: `ProbedAgainAndAgain`, `RecoveryIsNoticed`, `OutageIsNoticed`,
`LockExpires` and `SomebodyServes`, because liveness under fairness is out of the prover's
reach. Every invariant and every action property of the passing runs is a theorem. Names
that are derived from other fields (`SelectSeq`, `ToBag`) are not computed in the proofs:
these use only that equal fields give equal names, so that which names collide is what the
run `catalog_api` shows on its cards.

## 7. Not modelled, and why

* Settings: a key-value table that nothing else reads.
* Configuration: its values are the constants. Telemetry: nothing reads it back; its place
  in the order of shutdown is in `Startup`.
* Enterprise plugins are stubs; `internal/health` and `plugins/sources` are not reached from
  `main`; the frontend is a client.
* PostgreSQL: migrations 6 and 7 use SQL that only SQLite speaks, and its weaker isolation
  is left to the plan. Methods that are one transaction are one step.
* Within the modelled parts: names, descriptions, JSON, metrics, tracing and logging; no
  modelled operation decides on them. Statistics, pages, search text and ETags only read.
  The membership in the default project that `SQLStore.Create` inserts is not in
  `CatalogAPI`: memberships are in `PartyGraph`, where `AssignToProject` makes them. What
  GORM does to a provider without an id (discovered cards) is left out. The unique
  `(agent_key, version)` key is modelled by its three components, not by its hash. Password
  hashing is a password that is right or wrong.
