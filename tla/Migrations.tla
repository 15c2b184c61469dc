----------------------------- MODULE Migrations -----------------------------
(***************************************************************************)
(* The schema migrations of internal/db: what each one does to the rows    *)
(* that are there, and the transaction that runs it together with its row  *)
(* in schema_migrations. Tables, columns and indexes are left out; so is   *)
(* PostgreSQL, whose dialect migrations 6 and 7 do not speak (BLOB,        *)
(* DATETIME, is_system = 1).                                               *)
(***************************************************************************)
EXTENDS Integers, FiniteSets

CONSTANTS Users,    \* ids of users, the administrator's included
          Entries,  \* ids of entries; an agent type has the id of its entry
          None      \* an entry that is not there

LastVersion == 9
Versions == 1..LastVersion

Renamed == [healthy |-> "active", down |-> "offline", unknown |-> "registered"]
OldStatus == DOMAIN Renamed \cup {"degraded"}
NewStatus == {"registered", "active", "degraded", "offline", "deprecated"}

ASSUME NoneAssumption == None \notin OldStatus \cup NewStatus

SeededRoles == {"role-admin", "role-editor", "role-viewer"}
SeededSettings == {"app.name", "app.registration_enabled", "app.default_role"}

\* Rows: users, how many persons refer to each, roles, settings, the status of
\* entries, agent types with a raw_definition, raw cards, system projects, and
\* entries in the default project. Persons and projects are counted up to 2.
Data == [users: SUBSET Users, persons: [Users -> 0..2],
         roles: SUBSET SeededRoles, settings: SUBSET SeededSettings,
         status: [Entries -> OldStatus \cup NewStatus \cup {None}],
         raw: SUBSET Entries, cards: SUBSET Entries,
         projects: 0..2, members: SUBSET Entries]

Present(d) == {e \in Entries : d.status[e] # None}

\* migration003DefaultRoles: FirstOrCreate for each of the three
DefaultRoles(d) == [d EXCEPT !.roles = @ \cup SeededRoles]

\* migration004Settings
Settings(d) == [d EXCEPT !.settings = @ \cup SeededSettings]

\* faulty variant: a CASE without ELSE makes every other status NULL
HealthColumnsNoElse(d) ==
    [d EXCEPT !.status = [e \in Entries |->
                             IF @[e] \in DOMAIN Renamed THEN Renamed[@[e]]
                             ELSE IF @[e] = None THEN None ELSE "NULL"]]

\* migration005HealthColumns: the old vocabulary becomes the new one.
HealthColumns(d) ==
    [d EXCEPT !.status = [e \in Entries |->
                             IF @[e] \in DOMAIN Renamed THEN Renamed[@[e]] ELSE @[e]]]

\* migration006RawCards: copy what is not there yet. SQLite refuses to drop the
\* column, which is only logged, and the old bytes stay.
RawCards(d) == [d EXCEPT !.cards = @ \cup d.raw]

\* faulty variant: no test whether there is a person
SeedPersonsAgain(d) ==
    [d EXCEPT !.persons =
        [u \in Users |-> IF u \in d.users /\ @[u] < 2 THEN @[u] + 1 ELSE @[u]]]

\* migration007SeedPersonParties: a person for every user that has none
SeedPersonParties(d) ==
    [d EXCEPT !.persons =
        [u \in Users |-> IF u \in d.users /\ @[u] = 0 THEN 1 ELSE @[u]]]

\* migration007Up: the default project unless there is one, persons, members
PartyArchetype(d) ==
    [SeedPersonParties(d) EXCEPT !.projects = IF @ = 0 THEN 1 ELSE @,
                                 !.members = @ \cup Present(d)]

\* AllMigrations; 1, 2 and 9 create tables and indexes only.
Up(v, d) == CASE v = 3 -> DefaultRoles(d)
              [] v = 4 -> Settings(d)
              [] v = 5 -> HealthColumns(d)
              [] v = 6 -> RawCards(d)
              [] v = 7 -> PartyArchetype(d)
              [] v = 8 -> SeedPersonParties(d)
              [] OTHER -> d

\* CurrentVersion: the highest version in schema_migrations, or 0
CurrentVersion(applied) ==
    IF applied = {} THEN 0 ELSE CHOOSE v \in applied : \A w \in applied : w <= v

\* The databases that a release with the first n migrations can have left. Users
\* are deleted without their person, and may be without one (its creation failed
\* or it was deleted as a party); entries are taken out of the default project,
\* and deleted without their membership, raw definition and raw card. Roles,
\* settings and the system project cannot be deleted, user_id is unique in
\* parties, and raw cards are only added.
WrittenBy(n) ==
    {d \in [users: IF n >= 2 THEN SUBSET Users ELSE {{}},
            persons: IF n >= 7 THEN [Users -> {0, 1}] ELSE {[u \in Users |-> 0]},
            roles: {IF n >= 3 THEN SeededRoles ELSE {}},
            settings: {IF n >= 4 THEN SeededSettings ELSE {}},
            status: [Entries -> {None} \cup (IF n >= 5 THEN NewStatus
                                             ELSE IF n >= 1 THEN OldStatus ELSE {})],
            raw: IF n >= 1 THEN SUBSET Entries ELSE {{}},
            cards: IF n >= 6 THEN SUBSET Entries ELSE {{}},
            projects: {IF n >= 7 THEN 1 ELSE 0},
            members: IF n >= 7 THEN SUBSET Entries ELSE {{}}] :
        n >= 6 => d.raw \subseteq d.cards}
=============================================================================
