---------------------------- MODULE StartupProofs ----------------------------
(***************************************************************************)
(* Startup.tla for any number of processes, plugins, users and entries: its*)
(* type invariant, migrations without gaps, serving only on a migrated and *)
(* bootstrapped database, plugins stopped in reverse, and nothing of an    *)
(* older database lost.                                                    *)
(***************************************************************************)
EXTENDS Startup, TLAPS

-----------------------------------------------------------------------------
\* What a migration does to the rows that the proofs look at.
LEMMA DefaultRolesRows ==
    ASSUME NEW d \in Data
    PROVE  /\ DefaultRoles(d) \in Data
           /\ DefaultRoles(d).users = d.users
           /\ DefaultRoles(d).roles = SeededRoles
<1>1. d.roles \cup SeededRoles = SeededRoles
  BY DEF Data
<1>2. DefaultRoles(d) = [d EXCEPT !.roles = SeededRoles]
  BY <1>1 DEF DefaultRoles
<1> QED
  BY <1>2 DEF Data

\* Migration 4 writes settings only.
LEMMA SettingsRows ==
    ASSUME NEW d \in Data
    PROVE  Settings(d) \in Data /\ Settings(d).users = d.users
              /\ Settings(d).roles = d.roles
<1>1. d.settings \cup SeededSettings \in SUBSET SeededSettings
  BY DEF Data
<1> QED
  BY <1>1 DEF Settings, Data

\* Migration 5 leaves statuses of the new vocabulary or unknown ones.
LEMMA HealthColumnsRows ==
    ASSUME NEW d \in Data
    PROVE  HealthColumns(d) \in Data /\ HealthColumns(d).users = d.users
              /\ HealthColumns(d).roles = d.roles
<1> DEFINE s == [e \in Entries |-> IF d.status[e] \in DOMAIN Renamed
                                   THEN Renamed[d.status[e]] ELSE d.status[e]]
<1>1. \A x \in DOMAIN Renamed : Renamed[x] \in NewStatus
  BY DEF Renamed, NewStatus
<1>2. s \in [Entries -> OldStatus \cup NewStatus \cup {None}]
  BY <1>1 DEF Data
<1>3. HealthColumns(d) = [d EXCEPT !.status = s]
  BY DEF HealthColumns
<1> HIDE DEF s
<1> QED
  BY <1>2, <1>3 DEF Data

\* Migration 6 writes raw cards only.
LEMMA RawCardsRows ==
    ASSUME NEW d \in Data
    PROVE  RawCards(d) \in Data /\ RawCards(d).users = d.users
              /\ RawCards(d).roles = d.roles
BY DEF RawCards, Data

\* Migrations 7 and 8: a person more or less, users and roles as they were.
LEMMA SeedPersonPartiesRows ==
    ASSUME NEW d \in Data
    PROVE  SeedPersonParties(d) \in Data /\ SeedPersonParties(d).users = d.users
              /\ SeedPersonParties(d).roles = d.roles
<1> DEFINE s == [u \in Users |-> IF u \in d.users /\ d.persons[u] = 0 THEN 1
                                 ELSE d.persons[u]]
<1>1. s \in [Users -> 0..2]
  BY DEF Data
<1>2. SeedPersonParties(d) = [d EXCEPT !.persons = s]
  BY DEF SeedPersonParties
<1> HIDE DEF s
<1> QED
  BY <1>1, <1>2 DEF Data

\* Migration 7 writes persons, projects and memberships.
LEMMA PartyArchetypeRows ==
    ASSUME NEW d \in Data
    PROVE  PartyArchetype(d) \in Data /\ PartyArchetype(d).users = d.users
              /\ PartyArchetype(d).roles = d.roles
<1> DEFINE e == SeedPersonParties(d)
           n == IF e.projects = 0 THEN 1 ELSE e.projects
           m == e.members \cup Present(d)
<1>1. e \in Data /\ e.users = d.users /\ e.roles = d.roles
  BY SeedPersonPartiesRows
<1>2. PartyArchetype(d) = [e EXCEPT !.projects = n, !.members = m]
  BY DEF PartyArchetype
<1> HIDE DEF e
<1>3. n \in 0..2 /\ m \in SUBSET Entries
  BY <1>1 DEF Data, Present
<1> HIDE DEF n, m
<1> QED
  BY <1>1, <1>2, <1>3 DEF Data

\* All migrations keep the tables well-formed and the users; only the third
\* touches roles, and leaves the seeded ones.
LEMMA UpRows ==
    ASSUME NEW v \in Versions, NEW d \in Data
    PROVE  /\ Up(v, d) \in Data
           /\ Up(v, d).users = d.users
           /\ v = 3 => Up(v, d).roles = SeededRoles
           /\ v # 3 => Up(v, d).roles = d.roles
<1>1. v \in 1..9
  BY DEF Versions, LastVersion
<1>2. Up(v, d) = CASE v = 3 -> DefaultRoles(d)
                   [] v = 4 -> Settings(d)
                   [] v = 5 -> HealthColumns(d)
                   [] v = 6 -> RawCards(d)
                   [] v = 7 -> PartyArchetype(d)
                   [] v = 8 -> SeedPersonParties(d)
                   [] OTHER -> d
  BY DEF Up
<1> QED
  BY <1>1, <1>2, DefaultRolesRows, SettingsRows, HealthColumnsRows, RawCardsRows,
     PartyArchetypeRows, SeedPersonPartiesRows

\* CurrentVersion is a maximum: there is one, and nothing applied is above it.
LEMMA CurrentVersionIsLast ==
    ASSUME NEW S \in SUBSET Versions
    PROVE  /\ CurrentVersion(S) \in 0..LastVersion
           /\ S # {} => CurrentVersion(S) \in S
           /\ S = {} => CurrentVersion(S) = 0
<1>1. CASE S = {}
  BY <1>1 DEF CurrentVersion, LastVersion
<1>2. CASE S # {}
  <2> DEFINE HasMax == \E v \in S : \A w \in S : w <= v
  <2>1. \A k \in 1..9 : S \subseteq 1..k => HasMax \/ S \subseteq 1..(k - 1)
    <3> SUFFICES ASSUME NEW k \in 1..9, S \subseteq 1..k
                 PROVE  HasMax \/ S \subseteq 1..(k - 1)
      OBVIOUS
    <3>1. CASE k \in S
      <4>1. \A w \in S : w <= k
        OBVIOUS
      <4> QED
        BY <3>1, <4>1
    <3>2. CASE k \notin S
      BY <3>2
    <3> QED
      BY <3>1, <3>2
  <2>2. \A x \in S : x \in 1..9
    BY DEF Versions, LastVersion
  <2> HIDE DEF HasMax
  <2>3. HasMax \/ S \subseteq 1..8
    <3>1. S \subseteq 1..9
      BY <2>2
    <3>2. 9 \in 1..9 /\ 9 - 1 = 8
      OBVIOUS
    <3>3. HasMax \/ S \subseteq 1..(9 - 1)
      BY <2>1, <3>1, <3>2, Zenon
    <3> QED
      BY <3>2, <3>3
  <2>4. HasMax \/ S \subseteq 1..7
    BY <2>1, <2>3
  <2>5. HasMax \/ S \subseteq 1..6
    BY <2>1, <2>4
  <2>6. HasMax \/ S \subseteq 1..5
    BY <2>1, <2>5
  <2>7. HasMax \/ S \subseteq 1..4
    BY <2>1, <2>6
  <2>8. HasMax \/ S \subseteq 1..3
    BY <2>1, <2>7
  <2>9. HasMax \/ S \subseteq 1..2
    BY <2>1, <2>8
  <2>10. HasMax \/ S \subseteq 1..1
    BY <2>1, <2>9
  <2>11. HasMax \/ S \subseteq 1..0
    BY <2>1, <2>10
  <2>12. HasMax
    BY <1>2, <2>11
  <2>13. CurrentVersion(S) \in S
    BY <1>2, <2>12 DEF CurrentVersion, HasMax
  <2>14. CurrentVersion(S) \in 0..LastVersion
    BY <2>2, <2>13 DEF LastVersion
  <2> QED
    BY <1>2, <2>13, <2>14
<1> QED
  BY <1>1, <1>2

\* The databases that Init allows.
LEMMA WrittenByRows ==
    ASSUME NEW n \in 0..LastVersion, NEW d \in WrittenBy(n)
    PROVE  d \in Data /\ (n >= 3 => d.roles = SeededRoles)
<1> DEFINE S == {None} \cup (IF n >= 5 THEN NewStatus ELSE IF n >= 1 THEN OldStatus ELSE {})
<1>1. d \in [users: SUBSET Users, persons: [Users -> 0..2],
             roles: {IF n >= 3 THEN SeededRoles ELSE {}},
             settings: {IF n >= 4 THEN SeededSettings ELSE {}},
             status: [Entries -> S],
             raw: SUBSET Entries, cards: SUBSET Entries,
             projects: {IF n >= 7 THEN 1 ELSE 0}, members: SUBSET Entries]
  <2>1. /\ d.users \in SUBSET Users /\ d.persons \in [Users -> 0..2]
        /\ d.raw \in SUBSET Entries /\ d.cards \in SUBSET Entries
        /\ d.members \in SUBSET Entries
    BY DEF WrittenBy
  <2> QED
    BY <2>1 DEF WrittenBy
<1>2. d.status \in [Entries -> OldStatus \cup NewStatus \cup {None}]
  <2>1. S \subseteq OldStatus \cup NewStatus \cup {None}
    OBVIOUS
  <2>2. d.status \in [Entries -> S]
    BY <1>1
  <2> QED
    BY <2>1, <2>2
<1> QED
  BY <1>1, <1>2 DEF Data

-----------------------------------------------------------------------------
\* What the three loops of a plugin manager keep true of its record: Start and
\* Stop are called on initialised plugins only.
PluginsInOrder(m) ==
    /\ m \in PluginState
    /\ Len(m.initialized) < m.next
    /\ m.started <= Len(m.initialized)
    /\ Len(m.stopped) <= Len(m.initialized)

\* NewPluginManager has done nothing yet.
LEMMA NewManagerInOrder == PluginsInOrder(NewPluginManager)
<1>1. Len(Plugins) \in Nat
  BY PluginsAssumption
<1> QED
  BY <1>1 DEF PluginsInOrder, NewPluginManager, PluginState

\* InitAll, one plugin
LEMMA InitInOrder ==
    ASSUME NEW m, PluginsInOrder(m), ~AllInitialized(m)
    PROVE  PluginsInOrder(InitPlugin(m))
<1> DEFINE i == IF Plugins[m.next] \in Licensed
                THEN Append(m.initialized, Plugins[m.next]) ELSE m.initialized
<1>1. Len(Plugins) \in Nat /\ m.next \in 1..Len(Plugins)
  BY PluginsAssumption DEF PluginsInOrder, PluginState, AllInitialized
<1>2. Plugins[m.next] \in Plugin
  BY <1>1 DEF Plugin
<1>3. m.initialized \in Seq(Plugin)
  BY DEF PluginsInOrder, PluginState
<1>4. /\ i \in Seq(Plugin)
      /\ Len(i) \in {Len(m.initialized), Len(m.initialized) + 1}
  BY <1>2, <1>3
<1>5. InitPlugin(m) = [m EXCEPT !.next = m.next + 1, !.initialized = i]
  BY DEF InitPlugin
<1> HIDE DEF i
<1>6. Len(m.initialized) \in Nat /\ Len(m.stopped) \in Nat
  BY <1>3 DEF PluginsInOrder, PluginState
<1>7. m \in PluginState /\ Len(m.initialized) < m.next
        /\ m.started <= Len(m.initialized) /\ Len(m.stopped) <= Len(m.initialized)
  BY DEF PluginsInOrder
<1>8. InitPlugin(m) \in PluginState
  <2>1. m.next + 1 \in 1..(Len(Plugins) + 1)
    BY <1>1
  <2> QED
    BY <2>1, <1>4, <1>5, <1>7 DEF PluginState
<1>9. InitPlugin(m).next = m.next + 1 /\ InitPlugin(m).initialized = i
        /\ InitPlugin(m).started = m.started /\ InitPlugin(m).stopped = m.stopped
  BY <1>5, <1>7 DEF PluginState
<1>10. m.started \in Nat
  BY <1>1, <1>7 DEF PluginState
<1> QED
  BY <1>1, <1>4, <1>6, <1>7, <1>8, <1>9, <1>10 DEF PluginsInOrder

\* StartAll, one plugin
LEMMA StartInOrder ==
    ASSUME NEW m, PluginsInOrder(m), ~AllStarted(m)
    PROVE  PluginsInOrder(StartPlugin(m))
<1>1. Len(Plugins) \in Nat /\ Len(m.initialized) \in Nat
  BY PluginsAssumption DEF PluginsInOrder, PluginState
<1>2. m.started + 1 <= Len(m.initialized) /\ m.started + 1 \in 0..Len(Plugins)
  BY <1>1 DEF PluginsInOrder, PluginState, AllStarted
<1>3. StartPlugin(m) = [m EXCEPT !.started = m.started + 1]
  BY DEF StartPlugin
<1> QED
  BY <1>1, <1>2, <1>3 DEF PluginsInOrder, PluginState

\* StopAll, one plugin: there is one to stop, and it has been initialised.
LEMMA StopInOrder ==
    ASSUME NEW m, PluginsInOrder(m), ToStop(m) # 0
    PROVE  PluginsInOrder(StopPlugin(m))
<1>1. m.initialized \in Seq(Plugin) /\ m.stopped \in Seq(Plugin)
  BY DEF PluginsInOrder, PluginState
<1>2. ToStop(m) \in 1..Len(m.initialized)
  <2>1. Len(m.initialized) \in Nat /\ Len(m.stopped) \in Nat
    BY <1>1
  <2>2. Len(m.initialized) - Len(m.stopped) # 0 /\ Len(m.stopped) <= Len(m.initialized)
    BY DEF PluginsInOrder, ToStop
  <2>3. \A a, b \in Nat : a - b # 0 /\ b <= a => a - b \in 1..a
    OBVIOUS
  <2> QED
    BY <2>1, <2>2, <2>3, Zenon DEF ToStop
<1>3. NextToStop(m) \in Plugin
  BY <1>1, <1>2 DEF NextToStop
<1> DEFINE s == Append(m.stopped, NextToStop(m))
<1>4. s \in Seq(Plugin) /\ Len(s) = Len(m.stopped) + 1
  BY <1>1, <1>3
<1>5. StopPlugin(m) = [m EXCEPT !.stopped = s]
  BY DEF StopPlugin
<1> HIDE DEF s
<1>6. Len(s) <= Len(m.initialized)
  BY <1>1, <1>2, <1>4 DEF ToStop, PluginsInOrder
<1> QED
  BY <1>4, <1>5, <1>6 DEF PluginsInOrder, PluginState

-----------------------------------------------------------------------------
\* The inductive invariant. CurrentVersion alone decides what Migrate still has
\* to do, so the loop must know that everything below its version is applied,
\* and the phases after it that everything is; the bootstrap leaves a user, and
\* no action takes one away.
StartupInv ==
    /\ StartupTypeOK
    /\ \A p \in Procs : PluginsInOrder(pm[p])
    /\ SchemaInOrder
    /\ 3 \in applied => data.roles = SeededRoles
    /\ \A p \in Procs :
           /\ pc[p] = "migrate" => 1..(version[p] - 1) \subseteq applied
           /\ pc[p] \notin {"off", "migrate"} => applied = Versions
           /\ pc[p] \in {"person", "init", "start", "listen", "serve"}
                 => data.users # {}

\* Every database that an older release can have left satisfies the invariant.
LEMMA InitEstablishesInv == StartupInit => StartupInv
<1> SUFFICES ASSUME StartupInit PROVE StartupInv
  OBVIOUS
<1>1. PICK n \in 0..LastVersion : applied = 1..n /\ data \in WrittenBy(n)
  BY DEF StartupInit
<1>2. data \in Data /\ (n >= 3 => data.roles = SeededRoles)
  BY <1>1, WrittenByRows
<1>3. applied \subseteq Versions /\ SchemaInOrder /\ (3 \in applied => n >= 3)
  BY <1>1 DEF SchemaInOrder, Versions, LastVersion
<1>4. \A p \in Procs : pm[p] = NewPluginManager /\ PluginsInOrder(pm[p])
  BY NewManagerInOrder DEF StartupInit
<1>5. pm \in [Procs -> PluginState]
  BY NewManagerInOrder DEF StartupInit, PluginsInOrder
<1>6. StartupTypeOK
  BY <1>2, <1>3, <1>5, StartupAssumption DEF StartupTypeOK, StartupInit, Phase, LastVersion
<1> QED
  BY <1>2, <1>3, <1>4, <1>6 DEF StartupInv, StartupInit

\* A step that leaves the tables alone, moves one process and keeps what the
\* other processes are.
LEMMA MoveKeepsInv ==
    ASSUME StartupInv, NEW p \in Procs,
           applied' = applied, data' = data, faults' \in 0..MaxFaults,
           telemetry' \in SUBSET Procs,
           NEW s \in Phase, Goto(p, s),
           NEW v \in 1..(LastVersion + 1), version' = [version EXCEPT ![p] = v],
           NEW m, PluginsInOrder(m), pm' = [pm EXCEPT ![p] = m],
           s = "migrate" => 1..(v - 1) \subseteq applied,
           s \notin {"off", "migrate"} => applied = Versions,
           s \in {"person", "init", "start", "listen", "serve"} => data.users # {}
    PROVE  StartupInv'
<1>1. m \in PluginState
  BY DEF PluginsInOrder
<1>2. StartupTypeOK'
  BY <1>1 DEF StartupInv, StartupTypeOK, Goto
<1>3. (\A q \in Procs : PluginsInOrder(pm[q]))'
  <2>1. \A q \in Procs : pm'[q] = IF q = p THEN m ELSE pm[q]
    BY DEF StartupInv, StartupTypeOK
  <2> QED
    BY <2>1 DEF StartupInv
<1>4. SchemaInOrder'
  BY DEF StartupInv, SchemaInOrder
<1>5. \A q \in Procs : pc'[q] = (IF q = p THEN s ELSE pc[q])
                         /\ version'[q] = (IF q = p THEN v ELSE version[q])
  BY DEF StartupInv, StartupTypeOK, Goto
<1> QED
  BY <1>2, <1>3, <1>4, <1>5 DEF StartupInv

\* The end of a process keeps the invariant, wherever it comes.
LEMMA ExitKeepsInv ==
    ASSUME StartupInv, NEW p \in Procs, Exit(p),
           applied' = applied, data' = data, faults' \in 0..MaxFaults
    PROVE  StartupInv'
<1>1. telemetry' \in SUBSET Procs
  BY DEF StartupInv, StartupTypeOK, Exit
<1>2. 1 \in 1..(LastVersion + 1) /\ "off" \in Phase
  BY DEF LastVersion, Phase
<1> QED
  BY <1>1, <1>2, NewManagerInOrder, MoveKeepsInv DEF Exit

\* A step that only moves a process to another phase.
LEMMA GotoKeepsInv ==
    ASSUME StartupInv, NEW p \in Procs, NEW s \in Phase, Goto(p, s),
           s \notin {"off", "migrate"}, applied = Versions,
           s \in {"person", "init", "start", "listen", "serve"} => data.users # {},
           telemetry' \in SUBSET Procs,
           UNCHANGED <<applied, data, version, pm, faults>>
    PROVE  StartupInv'
<1>1. /\ version[p] \in 1..(LastVersion + 1) /\ version' = [version EXCEPT ![p] = version[p]]
      /\ PluginsInOrder(pm[p]) /\ pm' = [pm EXCEPT ![p] = pm[p]]
      /\ faults' \in 0..MaxFaults
  BY DEF StartupInv, StartupTypeOK
<1> QED
  BY <1>1, MoveKeepsInv

\* A step of a plugin loop.
LEMMA PluginStepKeepsInv ==
    ASSUME StartupInv, NEW p \in Procs, pc[p] \in Phase \ {"off", "migrate"},
           NEW m, PluginsInOrder(m), pm' = [pm EXCEPT ![p] = m],
           UNCHANGED <<applied, data, pc, version, telemetry, faults>>
    PROVE  StartupInv'
<1>1. /\ version[p] \in 1..(LastVersion + 1) /\ version' = [version EXCEPT ![p] = version[p]]
      /\ Goto(p, pc[p])
      /\ faults' \in 0..MaxFaults /\ telemetry' \in SUBSET Procs
  BY DEF StartupInv, StartupTypeOK, Goto
<1>2. /\ applied = Versions
      /\ pc[p] \in {"person", "init", "start", "listen", "serve"} => data.users # {}
  BY DEF StartupInv
<1>3. pc[p] \in Phase /\ pc[p] # "migrate" /\ pc[p] # "off"
  OBVIOUS
<1> HIDE DEF Phase
<1> QED
  BY <1>1, <1>2, <1>3, MoveKeepsInv

\* A migration that is applied by its own step.
LEMMA MigrateStepKeepsInv ==
    ASSUME StartupInv, NEW p \in Procs, MigrateStep(p)
    PROVE  StartupInv'
<1> DEFINE v == version[p]
<1>1. CASE v \in applied
  BY <1>1, ExitKeepsInv DEF MigrateStep, StartupInv, StartupTypeOK
<1>2. CASE v \notin applied
  <2>1. /\ v \in Versions /\ data' = Up(v, data) /\ applied' = applied \cup {v}
        /\ version' = [version EXCEPT ![p] = v + 1] /\ pc[p] = "migrate"
        /\ UNCHANGED <<pc, pm, telemetry, faults>>
    BY <1>2 DEF MigrateStep
  <2>2. /\ data' \in Data /\ data'.users = data.users
        /\ v = 3 => data'.roles = SeededRoles
        /\ v # 3 => data'.roles = data.roles
    BY <2>1, UpRows DEF StartupInv, StartupTypeOK
  <2>3. 1..(v - 1) \subseteq applied
    BY <2>1 DEF StartupInv
  <2>4. v \in 1..9 /\ v + 1 \in 1..(LastVersion + 1)
    BY <2>1 DEF Versions, LastVersion
  <2>5. 1..v \subseteq applied'
    BY <2>1, <2>3, <2>4
  <2>6. StartupTypeOK'
    BY <2>1, <2>2, <2>4 DEF StartupInv, StartupTypeOK
  <2>7. (\A q \in Procs : PluginsInOrder(pm[q]))'
    BY <2>1 DEF StartupInv
  <2>8. SchemaInOrder'
    BY <2>1, <2>5 DEF StartupInv, SchemaInOrder
  <2>9. (3 \in applied => data.roles = SeededRoles)'
    BY <2>1, <2>2 DEF StartupInv
  <2>10. ASSUME NEW q \in Procs
         PROVE  /\ pc'[q] = "migrate" => 1..(version'[q] - 1) \subseteq applied'
                /\ pc'[q] \notin {"off", "migrate"} => applied' = Versions
                /\ pc'[q] \in {"person", "init", "start", "listen", "serve"}
                      => data'.users # {}
    <3>1. pc'[q] \notin {"off", "migrate"} => applied' = Versions
      BY <2>1 DEF StartupInv
    <3>2. pc'[q] \in {"person", "init", "start", "listen", "serve"} => data'.users # {}
      BY <2>1, <2>2 DEF StartupInv
    <3>3. CASE q = p
      <4>1. version'[q] = v + 1 /\ (v + 1) - 1 = v
        BY <2>1, <2>4, <3>3 DEF StartupInv, StartupTypeOK
      <4> QED
        BY <2>5, <3>1, <3>2, <4>1
    <3>4. CASE q # p
      <4>1. version'[q] = version[q] /\ pc'[q] = pc[q]
        BY <2>1, <3>4 DEF StartupInv, StartupTypeOK
      <4>2. pc[q] = "migrate" => 1..(version[q] - 1) \subseteq applied
        BY DEF StartupInv
      <4> QED
        BY <2>1, <3>1, <3>2, <4>1, <4>2
    <3> QED
      BY <3>3, <3>4
  <2> QED
    BY <2>6, <2>7, <2>8, <2>9, <2>10 DEF StartupInv
<1> QED
  BY <1>1, <1>2

\* The two steps that write users and persons: users are only added.
LEMMA BootstrapKeepsInv ==
    ASSUME StartupInv, NEW p \in Procs, pc[p] \in {"create", "person"},
           data' \in Data, data.users \subseteq data'.users, data'.users # {},
           data'.roles = data.roles, faults' \in 0..MaxFaults,
           NEW s \in {"person", "init"}, Goto(p, s),
           UNCHANGED <<applied, version, pm, telemetry>>
    PROVE  StartupInv'
<1>1. s \in Phase
  BY DEF Phase
<1>2. StartupTypeOK'
  BY <1>1 DEF StartupInv, StartupTypeOK, Goto
<1>3. (\A q \in Procs : PluginsInOrder(pm[q]))' /\ SchemaInOrder'
  BY DEF StartupInv, SchemaInOrder
<1>4. \A q \in Procs : pc'[q] = IF q = p THEN s ELSE pc[q]
  BY DEF StartupInv, StartupTypeOK, Goto
<1>5. applied = Versions
  BY DEF StartupInv
<1> QED
  BY <1>2, <1>3, <1>4, <1>5 DEF StartupInv

\* A process that starts resumes behind the last version, and SchemaInOrder says
\* that nothing below it is missing.
LEMMA BootKeepsInv ==
    ASSUME StartupInv, NEW p \in Procs, Boot(p)
    PROVE  StartupInv'
<1> DEFINE c == CurrentVersion(applied)
<1>1. applied \in SUBSET Versions
  BY DEF StartupInv, StartupTypeOK
<1>2. c \in 0..LastVersion /\ (applied # {} => c \in applied) /\ (applied = {} => c = 0)
  BY <1>1, CurrentVersionIsLast
<1>3. c + 1 \in 1..(LastVersion + 1) /\ (c + 1) - 1 = c
  BY <1>2 DEF LastVersion
<1>4. 1..c \subseteq applied
  <2>1. CASE applied = {}
    BY <1>2, <2>1
  <2>2. CASE applied # {}
    BY <1>2, <2>2 DEF StartupInv, SchemaInOrder
  <2> QED
    BY <2>1, <2>2
<1>5. version' = [version EXCEPT ![p] = c + 1]
  BY DEF Boot
<1> HIDE DEF c
<1>6. 1..((c + 1) - 1) \subseteq applied
  BY <1>3, <1>4
<1>7. /\ PluginsInOrder(pm[p]) /\ pm' = [pm EXCEPT ![p] = pm[p]]
      /\ faults' \in 0..MaxFaults /\ telemetry' \in SUBSET Procs
      /\ Goto(p, "migrate") /\ "migrate" \in Phase /\ applied' = applied /\ data' = data
  BY DEF Boot, StartupInv, StartupTypeOK, Phase
<1> QED
  BY <1>3, <1>5, <1>6, <1>7, MoveKeepsInv

\* One case per step of main.
LEMMA NextKeepsInv ==
    ASSUME StartupInv, [StartupNext]_startVars
    PROVE  StartupInv'
<1>1. CASE UNCHANGED startVars
  BY <1>1 DEF startVars, StartupInv, StartupTypeOK, SchemaInOrder
<1>2. CASE StartupNext
  <2> SUFFICES ASSUME NEW p \in Procs, MainStep(p) \/ Signal(p) \/ Die(p)
               PROVE  StartupInv'
    BY <1>2 DEF StartupNext
  <2> USE DEF Phase
  <2>t. faults \in 0..MaxFaults /\ telemetry \in SUBSET Procs /\ pc[p] \in Phase
          /\ data \in Data /\ PluginsInOrder(pm[p]) /\ version[p] \in 1..(LastVersion + 1)
    BY DEF StartupInv, StartupTypeOK
  <2>a. pc[p] \notin {"off", "migrate"} => applied = Versions
    BY DEF StartupInv
  <2>u. pc[p] \in {"person", "init", "start", "listen", "serve"} => data.users # {}
    BY DEF StartupInv
  <2>1. CASE Boot(p)
    BY <2>1, BootKeepsInv
  <2>2. CASE MigrateStep(p)
    BY <2>2, MigrateStepKeepsInv
  <2>3. CASE Migrated(p)
    <3>1. Versions \subseteq applied
      <4>1. version[p] = 10
        BY <2>3, <2>t DEF Migrated, Versions, LastVersion
      <4>2. 1..(version[p] - 1) \subseteq applied
        BY <2>3 DEF Migrated, StartupInv
      <4> QED
        BY <4>1, <4>2 DEF Versions, LastVersion
    <3>2. applied = Versions
      BY <3>1 DEF StartupInv, StartupTypeOK
    <3> QED
      BY <2>3, <2>t, <3>2, GotoKeepsInv DEF Migrated
  <2>4. CASE CountUsers(p)
    BY <2>4, <2>t, <2>a, GotoKeepsInv DEF CountUsers
  <2>5. CASE CreateAdmin(p)
    <3>1. CASE Admin \in data.users
      BY <2>5, <2>t, <3>1, ExitKeepsInv DEF CreateAdmin
    <3>2. CASE Admin \notin data.users
      <4>1. data' = [data EXCEPT !.users = data.users \cup {Admin}] /\ pc[p] = "create"
              /\ Goto(p, "person") /\ UNCHANGED <<applied, version, pm, telemetry, faults>>
        BY <2>5, <3>2 DEF CreateAdmin
      <4>2. data' \in Data /\ data'.users = data.users \cup {Admin} /\ data'.roles = data.roles
        BY <2>t, <4>1, StartupAssumption DEF Data
      <4> QED
        BY <2>t, <4>1, <4>2, BootstrapKeepsInv
    <3> QED
      BY <3>1, <3>2
  <2>6. CASE AdminPerson(p)
    <3>1. data' \in Data /\ data'.users = data.users /\ data'.roles = data.roles
      <4>1. CASE UNCHANGED data
        BY <2>t, <4>1
      <4>2. CASE data' = [data EXCEPT !.persons[Admin] = IF @ = 0 THEN 1 ELSE @]
        <5>1. [data.persons EXCEPT ![Admin] = IF @ = 0 THEN 1 ELSE @] \in [Users -> 0..2]
          BY <2>t, StartupAssumption DEF Data
        <5> QED
          BY <2>t, <4>2, <5>1 DEF Data
      <4> QED
        BY <2>6, <4>1, <4>2 DEF AdminPerson
    <3>2. pc[p] = "person" /\ Goto(p, "init") /\ UNCHANGED <<applied, version, pm, telemetry>>
            /\ faults' \in 0..MaxFaults
      BY <2>6, <2>t, StartupAssumption DEF AdminPerson
    <3> QED
      BY <2>u, <3>1, <3>2, BootstrapKeepsInv
  <2>7. CASE InitAll(p)
    <3>1. CASE AllInitialized(pm[p])
      BY <2>7, <2>t, <2>a, <2>u, <3>1, GotoKeepsInv DEF InitAll
    <3>2. CASE ~AllInitialized(pm[p])
      BY <2>7, <2>t, <3>2, InitInOrder, PluginStepKeepsInv DEF InitAll
    <3> QED
      BY <3>1, <3>2
  <2>8. CASE StartAll(p)
    <3>1. CASE AllStarted(pm[p])
      BY <2>8, <2>t, <2>a, <2>u, <3>1, GotoKeepsInv DEF StartAll
    <3>2. CASE ~AllStarted(pm[p])
      BY <2>8, <2>t, <3>2, StartInOrder, PluginStepKeepsInv DEF StartAll
    <3> QED
      BY <3>1, <3>2
  <2>9. CASE Listen(p)
    BY <2>9, <2>t, <2>a, <2>u, GotoKeepsInv DEF Listen
  <2>10. CASE Signal(p)
    BY <2>10, <2>t, <2>a, GotoKeepsInv DEF Signal
  <2>11. CASE StopAll(p)
    <3>1. CASE ToStop(pm[p]) = 0
      BY <2>11, <2>t, <2>a, <3>1, GotoKeepsInv DEF StopAll, AllStopped
    <3>2. CASE ToStop(pm[p]) # 0
      BY <2>11, <2>t, <3>2, StopInOrder, PluginStepKeepsInv DEF StopAll, AllStopped
    <3> QED
      BY <3>1, <3>2
  <2>12. CASE FlushTelemetry(p)
    BY <2>12, <2>t, <2>a, GotoKeepsInv DEF FlushTelemetry
  <2>13. CASE CloseDatabase(p)
    BY <2>13, <2>t, ExitKeepsInv DEF CloseDatabase
  <2>14. CASE Die(p)
    <3>1. faults' \in 0..MaxFaults
      BY <2>14, <2>t, StartupAssumption DEF Die
    <3> QED
      BY <2>14, <3>1, ExitKeepsInv DEF Die
  <2> QED
    BY <2>1, <2>2, <2>3, <2>4, <2>5, <2>6, <2>7, <2>8, <2>9, <2>10, <2>11, <2>12,
       <2>13, <2>14 DEF MainStep
<1> QED
  BY <1>1, <1>2

\* The invariant holds throughout.
LEMMA InvHolds == StartupSpec => []StartupInv
<1>1. StartupInit => StartupInv
  BY InitEstablishesInv
<1>2. StartupInv /\ [StartupNext]_startVars => StartupInv'
  BY NextKeepsInv
<1> QED
  BY <1>1, <1>2, PTL DEF StartupSpec

\* Every variable keeps its type: plugins are initialised, started and stopped
\* within bounds and migrations leave well-formed rows, whatever the number of
\* processes and plugins.
THEOREM StartupTypeCorrect == StartupSpec => []StartupTypeOK
<1>1. StartupInv => StartupTypeOK
  BY DEF StartupInv
<1> QED
  BY <1>1, InvHolds, PTL

\* Migrate and CurrentVersion: migrations are applied without gaps, although
\* processes race for them, exit and die.
THEOREM SchemaInOrderHolds == StartupSpec => []SchemaInOrder
<1>1. StartupInv => SchemaInOrder
  BY DEF StartupInv
<1> QED
  BY <1>1, InvHolds, PTL

\* main: whoever has passed Migrate and BootstrapAdmin finds the newest schema,
\* the seeded roles and a user, whatever the other processes do.
THEOREM ServesMigratedHolds == StartupSpec => []ServesMigrated
<1>1. StartupInv => ServesMigrated
  <2>1. 3 \in Versions
    BY DEF Versions, LastVersion
  <2> QED
    BY <2>1 DEF StartupInv, ServesMigrated
<1> QED
  BY <1>1, InvHolds, PTL

-----------------------------------------------------------------------------
\* The calls of Stop so far, from the last plugin that was initialised.
ReverseSoFar(m) ==
    \A i \in 1..Len(m.stopped) : m.stopped[i] = m.initialized[(Len(m.initialized) - i) + 1]

\* What the order of the deferred calls gives: nothing is stopped before the
\* signal, everything is when telemetry is shut down, and telemetry runs until
\* then.
DeferredInv ==
    \A p \in Procs :
        /\ ReverseSoFar(pm[p])
        /\ pc[p] \notin {"stop", "flush", "close"} => Len(pm[p].stopped) = 0
        /\ pc[p] \in {"flush", "close"} => ToStop(pm[p]) = 0
        /\ pc[p] \notin {"off", "close"} => p \in telemetry

\* A prefix of the reversed list, element by element
LEMMA ReverseSoFarIsPrefix ==
    ASSUME NEW m, PluginsInOrder(m), ReverseSoFar(m)
    PROVE  IsPrefix(m.stopped, Reverse(m.initialized))
<1> DEFINE s == m.stopped
           t == Reverse(m.initialized)
<1>1. m.initialized \in Seq(Plugin) /\ s \in Seq(Plugin) /\ Len(s) <= Len(m.initialized)
  BY DEF PluginsInOrder, PluginState
<1>2. t \in Seq(Plugin) /\ Len(t) = Len(m.initialized)
  BY <1>1 DEF Reverse
<1>3. \A i \in 1..Len(s) : s[i] = t[i]
  BY <1>1 DEF Reverse, ReverseSoFar
<1> HIDE DEF s, t
<1>4. SubSeq(s, 1, Len(s)) = SubSeq(t, 1, Len(s))
  BY <1>1, <1>2, <1>3
<1> QED
  BY <1>1, <1>2, <1>4 DEF IsPrefix, s, t

\* A Stop goes to the plugin that is next from the end.
LEMMA StopKeepsReverse ==
    ASSUME NEW m, PluginsInOrder(m), ToStop(m) # 0, ReverseSoFar(m)
    PROVE  ReverseSoFar(StopPlugin(m))
<1> DEFINE n == NextToStop(m)
<1>1. m.stopped \in Seq(Plugin) /\ m.initialized \in Seq(Plugin) /\ m \in PluginState
  BY DEF PluginsInOrder, PluginState
<1>2. Len(m.stopped) \in Nat /\ Len(m.initialized) \in Nat
  BY <1>1
<1>3. /\ StopPlugin(m).stopped = Append(m.stopped, n)
      /\ StopPlugin(m).initialized = m.initialized
  BY <1>1 DEF StopPlugin, PluginState
<1>4. n = m.initialized[(Len(m.initialized) - (Len(m.stopped) + 1)) + 1]
  <2>1. \A a, b \in Nat : a - b = (a - (b + 1)) + 1
    OBVIOUS
  <2>2. Len(m.initialized) - Len(m.stopped) = (Len(m.initialized) - (Len(m.stopped) + 1)) + 1
    BY <1>2, <2>1, Zenon
  <2> QED
    BY <2>2 DEF NextToStop, ToStop
<1> HIDE DEF n
<1>5. Len(Append(m.stopped, n)) = Len(m.stopped) + 1
  BY <1>1
<1>6. Append(m.stopped, n)[Len(m.stopped) + 1] = n
  BY <1>1
<1>7. \A i \in 1..Len(m.stopped) : Append(m.stopped, n)[i] = m.stopped[i]
  BY <1>1
<1>8. \A i \in 1..(Len(m.stopped) + 1) : i \in 1..Len(m.stopped) \/ i = Len(m.stopped) + 1
  BY <1>2
<1> QED
  BY <1>3, <1>4, <1>5, <1>6, <1>7, <1>8 DEF ReverseSoFar

\* A step of one process that keeps the four facts for it
LEMMA StepOfOne ==
    ASSUME StartupInv, DeferredInv, NEW p \in Procs, NEW s \in Phase, NEW m,
           pc' = [pc EXCEPT ![p] = s], pm' = [pm EXCEPT ![p] = m],
           telemetry \ {p} \subseteq telemetry',
           ReverseSoFar(m),
           s \notin {"stop", "flush", "close"} => Len(m.stopped) = 0,
           s \in {"flush", "close"} => ToStop(m) = 0,
           s \notin {"off", "close"} => p \in telemetry'
    PROVE  DeferredInv'
<1>1. \A q \in Procs : pc'[q] = (IF q = p THEN s ELSE pc[q])
                         /\ pm'[q] = (IF q = p THEN m ELSE pm[q])
  BY DEF StartupInv, StartupTypeOK
<1> SUFFICES ASSUME NEW q \in Procs
             PROVE  /\ ReverseSoFar(pm'[q])
                    /\ pc'[q] \notin {"stop", "flush", "close"} => Len(pm'[q].stopped) = 0
                    /\ pc'[q] \in {"flush", "close"} => ToStop(pm'[q]) = 0
                    /\ pc'[q] \notin {"off", "close"} => q \in telemetry'
  BY DEF DeferredInv
<1>2. CASE q = p
  BY <1>1, <1>2
<1>3. CASE q # p
  BY <1>1, <1>3 DEF DeferredInv
<1> QED
  BY <1>2, <1>3

\* A manager in which nothing has been stopped has nothing out of order.
LEMMA NothingStopped ==
    ASSUME NEW m, Len(m.stopped) = 0
    PROVE  ReverseSoFar(m)
BY DEF ReverseSoFar

\* The end of a process
LEMMA ExitKeepsDeferred ==
    ASSUME StartupInv, DeferredInv, NEW p \in Procs, Exit(p)
    PROVE  DeferredInv'
<1>1. Len(NewPluginManager.stopped) = 0 /\ "off" \in Phase
  BY DEF NewPluginManager, Phase
<1>2. ReverseSoFar(NewPluginManager)
  BY <1>1, NothingStopped
<1> QED
  BY <1>1, <1>2, StepOfOne DEF Exit, Goto

\* A step that moves a process on and leaves its manager alone
LEMMA GotoKeepsDeferred ==
    ASSUME StartupInv, DeferredInv, NEW p \in Procs, NEW s \in Phase, Goto(p, s),
           pm' = pm, telemetry \ {p} \subseteq telemetry',
           s # "off",
           s \notin {"stop", "flush", "close"} => pc[p] \notin {"stop", "flush", "close"},
           s \in {"flush", "close"} => ToStop(pm[p]) = 0,
           s # "close" => p \in telemetry'
    PROVE  DeferredInv'
<1>1. pm' = [pm EXCEPT ![p] = pm[p]] /\ ReverseSoFar(pm[p])
        /\ (pc[p] \notin {"stop", "flush", "close"} => Len(pm[p].stopped) = 0)
  BY DEF StartupInv, StartupTypeOK, DeferredInv
<1> QED
  BY <1>1, StepOfOne DEF Goto

\* A step of a plugin loop
LEMMA LoopKeepsDeferred ==
    ASSUME StartupInv, DeferredInv, NEW p \in Procs, NEW m, pm' = [pm EXCEPT ![p] = m],
           pc[p] \in {"init", "start", "stop"}, UNCHANGED <<pc, telemetry>>,
           ReverseSoFar(m), pc[p] # "stop" => Len(m.stopped) = 0
    PROVE  DeferredInv'
<1>1. pc' = [pc EXCEPT ![p] = pc[p]] /\ pc[p] \in Phase /\ p \in telemetry
  BY DEF StartupInv, StartupTypeOK, DeferredInv
<1> QED
  BY <1>1, StepOfOne

\* One case per step of main
LEMMA NextKeepsDeferred ==
    ASSUME StartupInv, DeferredInv, [StartupNext]_startVars
    PROVE  DeferredInv'
<1>1. CASE UNCHANGED startVars
  BY <1>1 DEF startVars, DeferredInv
<1>2. CASE StartupNext
  <2> SUFFICES ASSUME NEW p \in Procs, MainStep(p) \/ Signal(p) \/ Die(p)
               PROVE  DeferredInv'
    BY <1>2 DEF StartupNext
  <2> USE DEF Phase
  <2>d. /\ pc[p] \notin {"stop", "flush", "close"} => Len(pm[p].stopped) = 0
        /\ pc[p] \in {"flush", "close"} => ToStop(pm[p]) = 0
        /\ pc[p] \notin {"off", "close"} => p \in telemetry
        /\ ReverseSoFar(pm[p]) /\ PluginsInOrder(pm[p]) /\ pm[p] \in PluginState
    BY DEF DeferredInv, StartupInv, PluginsInOrder
  <2>1. CASE Boot(p)
    BY <2>1, GotoKeepsDeferred DEF Boot
  <2>2. CASE MigrateStep(p)
    <3>1. CASE version[p] \in applied
      BY <2>2, <3>1, ExitKeepsDeferred DEF MigrateStep
    <3>2. CASE version[p] \notin applied
      BY <2>2, <3>2 DEF MigrateStep, DeferredInv
    <3> QED
      BY <3>1, <3>2
  <2>3. CASE Migrated(p)
    BY <2>3, <2>d, GotoKeepsDeferred DEF Migrated
  <2>4. CASE CountUsers(p)
    BY <2>4, <2>d, GotoKeepsDeferred DEF CountUsers
  <2>5. CASE CreateAdmin(p)
    <3>1. CASE Admin \in data.users
      BY <2>5, <3>1, ExitKeepsDeferred DEF CreateAdmin
    <3>2. CASE Admin \notin data.users
      BY <2>5, <2>d, <3>2, GotoKeepsDeferred DEF CreateAdmin
    <3> QED
      BY <3>1, <3>2
  <2>6. CASE AdminPerson(p)
    BY <2>6, <2>d, GotoKeepsDeferred DEF AdminPerson
  <2>7. CASE InitAll(p)
    <3>1. CASE AllInitialized(pm[p])
      BY <2>7, <2>d, <3>1, GotoKeepsDeferred DEF InitAll
    <3>2. CASE ~AllInitialized(pm[p])
      <4>1. InitPlugin(pm[p]).stopped = pm[p].stopped
        BY <2>d DEF InitPlugin, PluginState
      <4> QED
        BY <2>7, <2>d, <3>2, <4>1, NothingStopped, LoopKeepsDeferred DEF InitAll
    <3> QED
      BY <3>1, <3>2
  <2>8. CASE StartAll(p)
    <3>1. CASE AllStarted(pm[p])
      BY <2>8, <2>d, <3>1, GotoKeepsDeferred DEF StartAll
    <3>2. CASE ~AllStarted(pm[p])
      <4>1. StartPlugin(pm[p]).stopped = pm[p].stopped
        BY <2>d DEF StartPlugin, PluginState
      <4> QED
        BY <2>8, <2>d, <3>2, <4>1, NothingStopped, LoopKeepsDeferred DEF StartAll
    <3> QED
      BY <3>1, <3>2
  <2>9. CASE Listen(p)
    BY <2>9, <2>d, GotoKeepsDeferred DEF Listen
  <2>10. CASE Signal(p)
    BY <2>10, <2>d, GotoKeepsDeferred DEF Signal
  <2>11. CASE StopAll(p)
    <3>1. CASE ToStop(pm[p]) = 0
      BY <2>11, <2>d, <3>1, GotoKeepsDeferred DEF StopAll, AllStopped
    <3>2. CASE ToStop(pm[p]) # 0
      BY <2>11, <2>d, <3>2, StopKeepsReverse, LoopKeepsDeferred DEF StopAll, AllStopped
    <3> QED
      BY <3>1, <3>2
  <2>12. CASE FlushTelemetry(p)
    BY <2>12, <2>d, GotoKeepsDeferred DEF FlushTelemetry
  <2>13. CASE CloseDatabase(p)
    BY <2>13, ExitKeepsDeferred DEF CloseDatabase
  <2>14. CASE Die(p)
    BY <2>14, ExitKeepsDeferred DEF Die
  <2> QED
    BY <2>1, <2>2, <2>3, <2>4, <2>5, <2>6, <2>7, <2>8, <2>9, <2>10, <2>11, <2>12,
       <2>13, <2>14 DEF MainStep
<1> QED
  BY <1>1, <1>2

\* main and StopAll: plugins are stopped from the last to the first, all of them
\* before telemetry is shut down, for any number of plugins and processes.
THEOREM StopsInReverseHolds == StartupSpec => []StopsInReverse
<1>1. StartupInit => DeferredInv
  BY NothingStopped DEF StartupInit, DeferredInv, NewPluginManager
<1>2. StartupInv /\ DeferredInv /\ [StartupNext]_startVars => DeferredInv'
  BY NextKeepsDeferred
<1>3. StartupInv /\ DeferredInv => StopsInReverse
  <2> SUFFICES ASSUME StartupInv, DeferredInv, NEW p \in Procs
               PROVE  /\ IsPrefix(pm[p].stopped, Reverse(pm[p].initialized))
                      /\ pc[p] # "off" /\ p \notin telemetry
                            => Len(pm[p].stopped) = Len(pm[p].initialized)
    BY DEF StopsInReverse
  <2>1. IsPrefix(pm[p].stopped, Reverse(pm[p].initialized))
    BY ReverseSoFarIsPrefix DEF StartupInv, DeferredInv
  <2>2. ASSUME pc[p] # "off", p \notin telemetry
        PROVE  Len(pm[p].stopped) = Len(pm[p].initialized)
    <3>1. Len(pm[p].initialized) - Len(pm[p].stopped) = 0
      BY <2>2 DEF DeferredInv, ToStop
    <3>2. Len(pm[p].initialized) \in Nat /\ Len(pm[p].stopped) \in Nat
      BY DEF StartupInv, PluginsInOrder, PluginState
    <3> QED
      BY <3>1, <3>2
  <2> QED
    BY <2>1, <2>2
<1> QED
  BY <1>1, <1>2, <1>3, InvHolds, PTL DEF StartupSpec
-----------------------------------------------------------------------------
(* Nothing gets lost. What has been carried over so far depends on the versions *)
(* that are applied, and a later migration must find the rows of the older      *)
(* release still there: the statuses before the fifth, the raw definitions, no  *)
(* project before the seventh. A process is between Count and the person of the *)
(* administrator only if there was no user.                                     *)

\* What has become of a status after migration 5.
Carried(old, new) ==
    IF old = None THEN new = None
    ELSE new \in NewStatus /\ new = IF old \in DOMAIN Renamed THEN Renamed[old] ELSE old

\* What has become of the number of persons of a user.
PersonCarried(u) ==
    \/ u \in data.users \ origin.data.users /\ data.persons[u] = 1
    \/ data.persons[u] = IF u \in origin.data.users /\ (Ran(7) \/ Ran(8))
                         THEN 1 ELSE origin.data.persons[u]

CarriedInv ==
    LET old == origin.data IN
    /\ old \in Data /\ origin.applied \subseteq applied
    /\ data.users = old.users \/ (old.users = {} /\ data.users = {Admin})
    /\ data.raw = old.raw
    /\ 5 \notin applied => \A e \in Entries : /\ data.status[e] = old.status[e]
                                              /\ old.status[e] \in OldStatus \cup {None}
    /\ 5 \in applied => \A e \in Entries : Carried(old.status[e], data.status[e])
    /\ data.cards = old.cards \cup (IF Ran(6) THEN old.raw ELSE {})
    /\ data.projects = IF 7 \in applied THEN 1 ELSE 0
    /\ data.members = old.members \cup (IF Ran(7) THEN Present(old) ELSE {})
    /\ \A u \in Users : old.persons[u] \in {0, 1} /\ PersonCarried(u)
    /\ \A p \in Procs : /\ pc[p] \in {"create", "person"} => old.users = {}
                        /\ pc[p] = "person" => Admin \in data.users

\* Migration 5 renames: no old name is a new one, and a new one is not "no entry".
LEMMA RenamedIsNew ==
    /\ \A x \in DOMAIN Renamed : Renamed[x] \in NewStatus /\ Renamed[x] # None
    /\ \A x \in NewStatus : x \notin DOMAIN Renamed /\ x # None
    /\ \A x \in OldStatus : x \in NewStatus \/ x \in DOMAIN Renamed
    /\ None \notin DOMAIN Renamed
<1>1. DOMAIN Renamed = {"healthy", "down", "unknown"}
  BY DEF Renamed
<1>2. /\ Renamed["healthy"] = "active" /\ Renamed["down"] = "offline"
      /\ Renamed["unknown"] = "registered"
  BY DEF Renamed
<1> QED
  BY <1>1, <1>2, NoneAssumption DEF NewStatus, OldStatus

\* What migration 5 does to a status.
LEMMA HealthColumnsStatus ==
    ASSUME NEW d \in Data
    PROVE  /\ HealthColumns(d).raw = d.raw /\ HealthColumns(d).cards = d.cards
           /\ HealthColumns(d).projects = d.projects
           /\ HealthColumns(d).members = d.members /\ HealthColumns(d).persons = d.persons
           /\ \A e \in Entries : HealthColumns(d).status[e] =
                 IF d.status[e] \in DOMAIN Renamed THEN Renamed[d.status[e]] ELSE d.status[e]
<1> DEFINE s == [e \in Entries |-> IF d.status[e] \in DOMAIN Renamed
                                   THEN Renamed[d.status[e]] ELSE d.status[e]]
<1>1. HealthColumns(d) = [d EXCEPT !.status = s]
  BY DEF HealthColumns
<1>2. HealthColumns(d).status = s
  <2> HIDE DEF s
  <2> QED
    BY <1>1 DEF Data
<1>3. /\ HealthColumns(d).raw = d.raw /\ HealthColumns(d).cards = d.cards
      /\ HealthColumns(d).projects = d.projects
      /\ HealthColumns(d).members = d.members /\ HealthColumns(d).persons = d.persons
  <2> HIDE DEF s
  <2> QED
    BY <1>1 DEF Data
<1> QED
  BY <1>2, <1>3

\* What migrations 7 and 8 do to persons.
LEMMA SeedPersonPartiesPersons ==
    ASSUME NEW d \in Data
    PROVE  /\ SeedPersonParties(d).raw = d.raw /\ SeedPersonParties(d).cards = d.cards
           /\ SeedPersonParties(d).projects = d.projects
           /\ SeedPersonParties(d).members = d.members
           /\ SeedPersonParties(d).status = d.status
           /\ \A u \in Users : SeedPersonParties(d).persons[u] =
                 IF u \in d.users /\ d.persons[u] = 0 THEN 1 ELSE d.persons[u]
<1> DEFINE s == [u \in Users |-> IF u \in d.users /\ d.persons[u] = 0 THEN 1
                                 ELSE d.persons[u]]
<1>1. SeedPersonParties(d) = [d EXCEPT !.persons = s]
  BY DEF SeedPersonParties
<1>2. /\ SeedPersonParties(d).persons = s
      /\ SeedPersonParties(d).raw = d.raw /\ SeedPersonParties(d).cards = d.cards
      /\ SeedPersonParties(d).projects = d.projects
      /\ SeedPersonParties(d).members = d.members
      /\ SeedPersonParties(d).status = d.status
  <2> HIDE DEF s
  <2> QED
    BY <1>1 DEF Data
<1> QED
  BY <1>2

\* What migration 7 does to projects and memberships as well.
LEMMA PartyArchetypeMembers ==
    ASSUME NEW d \in Data
    PROVE  /\ PartyArchetype(d).raw = d.raw /\ PartyArchetype(d).cards = d.cards
           /\ PartyArchetype(d).projects = IF d.projects = 0 THEN 1 ELSE d.projects
           /\ PartyArchetype(d).members = d.members \cup Present(d)
           /\ PartyArchetype(d).status = d.status
           /\ PartyArchetype(d).persons = SeedPersonParties(d).persons
<1> DEFINE e == SeedPersonParties(d)
           n == IF e.projects = 0 THEN 1 ELSE e.projects
           m == e.members \cup Present(d)
<1>1. /\ e \in Data /\ e.projects = d.projects /\ e.members = d.members /\ e.raw = d.raw
      /\ e.cards = d.cards /\ e.status = d.status
  BY SeedPersonPartiesRows, SeedPersonPartiesPersons
<1>2. PartyArchetype(d) = [e EXCEPT !.projects = n, !.members = m]
  BY DEF PartyArchetype
<1> HIDE DEF e
<1>3. n = (IF d.projects = 0 THEN 1 ELSE d.projects) /\ m = d.members \cup Present(d)
  BY <1>1
<1> HIDE DEF n, m
<1>4. /\ PartyArchetype(d).projects = n /\ PartyArchetype(d).members = m
      /\ PartyArchetype(d).raw = e.raw /\ PartyArchetype(d).cards = e.cards
      /\ PartyArchetype(d).status = e.status /\ PartyArchetype(d).persons = e.persons
  BY <1>1, <1>2 DEF Data
<1> QED
  BY <1>1, <1>3, <1>4 DEF e

\* What every migration does to the rows that are carried over.
LEMMA UpCarries ==
    ASSUME NEW v \in Versions, NEW d \in Data
    PROVE  /\ Up(v, d).users = d.users /\ Up(v, d).raw = d.raw
           /\ v # 5 => Up(v, d).status = d.status
           /\ v = 5 => \A e \in Entries : Up(v, d).status[e] =
                 IF d.status[e] \in DOMAIN Renamed THEN Renamed[d.status[e]] ELSE d.status[e]
           /\ v # 6 => Up(v, d).cards = d.cards
           /\ v = 6 => Up(v, d).cards = d.cards \cup d.raw
           /\ v # 7 => Up(v, d).projects = d.projects /\ Up(v, d).members = d.members
           /\ v = 7 => /\ Up(v, d).projects = IF d.projects = 0 THEN 1 ELSE d.projects
                       /\ Up(v, d).members = d.members \cup Present(d)
           /\ v \notin {7, 8} => Up(v, d).persons = d.persons
           /\ v \in {7, 8} => \A u \in Users : Up(v, d).persons[u] =
                 IF u \in d.users /\ d.persons[u] = 0 THEN 1 ELSE d.persons[u]
<1>1. v \in 1..9
  BY DEF Versions, LastVersion
<1>2. Up(v, d) = CASE v = 3 -> DefaultRoles(d)
                   [] v = 4 -> Settings(d)
                   [] v = 5 -> HealthColumns(d)
                   [] v = 6 -> RawCards(d)
                   [] v = 7 -> PartyArchetype(d)
                   [] v = 8 -> SeedPersonParties(d)
                   [] OTHER -> d
  BY DEF Up
<1>u. Up(v, d).users = d.users
  BY UpRows
<1>3. CASE v = 3
  <2>1. Up(v, d) = [d EXCEPT !.roles = d.roles \cup SeededRoles]
    BY <1>2, <1>3 DEF DefaultRoles
  <2> QED
    BY <1>3, <1>u, <2>1 DEF Data
<1>4. CASE v = 4
  <2>1. Up(v, d) = [d EXCEPT !.settings = d.settings \cup SeededSettings]
    BY <1>2, <1>4 DEF Settings
  <2> QED
    BY <1>4, <1>u, <2>1 DEF Data
<1>5. CASE v = 5
  BY <1>2, <1>5, <1>u, HealthColumnsStatus
<1>6. CASE v = 6
  <2>1. Up(v, d) = [d EXCEPT !.cards = d.cards \cup d.raw]
    BY <1>2, <1>6 DEF RawCards
  <2> QED
    BY <1>6, <1>u, <2>1 DEF Data
<1>7. CASE v = 7
  BY <1>2, <1>7, <1>u, PartyArchetypeMembers, SeedPersonPartiesPersons
<1>8. CASE v = 8
  BY <1>2, <1>8, <1>u, SeedPersonPartiesPersons
<1>9. CASE v \in {1, 2, 9}
  BY <1>2, <1>9
<1> QED
  BY <1>1, <1>3, <1>4, <1>5, <1>6, <1>7, <1>8, <1>9

\* The same entries are there, and what carries over is what the property says.
LEMMA CarriedMeans ==
    ASSUME CarriedInv
    PROVE  Present(data) = Present(origin.data) /\ DataCarriedOver
<1> DEFINE old == origin.data
<1>1. \A e \in Entries : data.status[e] = None <=> old.status[e] = None
  <2>1. CASE 5 \in applied
    BY <2>1, RenamedIsNew DEF CarriedInv, Carried
  <2>2. CASE 5 \notin applied
    BY <2>2 DEF CarriedInv
  <2> QED
    BY <2>1, <2>2
<1>2. Present(data) = Present(old)
  BY <1>1 DEF Present
<1>3. 5 \in applied => \A e \in Present(old) :
          /\ data.status[e] \in NewStatus
          /\ data.status[e] = IF old.status[e] \in DOMAIN Renamed
                              THEN Renamed[old.status[e]] ELSE old.status[e]
  BY DEF CarriedInv, Carried, Present
<1> QED
  BY <1>2, <1>3 DEF CarriedInv, DataCarriedOver, PersonCarried

\* A database of an older release: nothing has been carried over yet, or all of it.
LEMMA InitCarried == StartupInit => CarriedInv
<1> SUFFICES ASSUME StartupInit PROVE CarriedInv
  OBVIOUS
<1>1. PICK n \in 0..LastVersion : applied = 1..n /\ data \in WrittenBy(n)
  BY DEF StartupInit
<1> DEFINE S == {None} \cup (IF n >= 5 THEN NewStatus ELSE IF n >= 1 THEN OldStatus ELSE {})
           P == IF n >= 7 THEN [Users -> {0, 1}] ELSE {[u \in Users |-> 0]}
           J == IF n >= 7 THEN 1 ELSE 0
<1>2. origin.data = data /\ origin.applied = applied /\ data \in Data
  BY <1>1, WrittenByRows DEF StartupInit
<1>3. data.status \in [Entries -> S] /\ data.persons \in P /\ data.projects = J
  BY <1>1 DEF WrittenBy
<1>4. n \in 0..9 /\ \A k \in 1..9 : k \in applied <=> n >= k
  BY <1>1 DEF LastVersion
<1>5. 5 \notin applied => \A e \in Entries : data.status[e] \in OldStatus \cup {None}
  BY <1>3, <1>4
<1>6. 5 \in applied => \A e \in Entries : Carried(data.status[e], data.status[e])
  BY <1>3, <1>4, RenamedIsNew DEF Carried
<1>7. \A u \in Users : data.persons[u] \in {0, 1}
  BY <1>3
<1>8. data.projects = IF 7 \in applied THEN 1 ELSE 0
  BY <1>3, <1>4
<1>9. \A v \in Versions : ~Ran(v)
  BY <1>2 DEF Ran
<1>10. \A u \in Users : PersonCarried(u)
  BY <1>2, <1>9 DEF PersonCarried, Versions, LastVersion
<1>11. \A p \in Procs : pc[p] \notin {"create", "person"}
  BY DEF StartupInit
<1>12. /\ data.cards = data.cards \cup (IF Ran(6) THEN data.raw ELSE {})
       /\ data.members = data.members \cup (IF Ran(7) THEN Present(data) ELSE {})
  BY <1>9 DEF Versions, LastVersion
<1> QED
  BY <1>2, <1>5, <1>6, <1>7, <1>8, <1>10, <1>11, <1>12 DEF CarriedInv

\* A migration carries over what it is there for and leaves the rest alone.
LEMMA MigrateCarries ==
    ASSUME StartupInv, CarriedInv, NEW v \in Versions, v \notin applied,
           data' = Up(v, data), applied' = applied \cup {v}, origin' = origin, pc' = pc
    PROVE  CarriedInv'
<1> DEFINE old == origin.data
<1>0. data \in Data /\ old \in Data /\ Present(data) = Present(old)
  BY CarriedMeans DEF StartupInv, StartupTypeOK, CarriedInv
<1>1. /\ data'.users = data.users /\ data'.raw = data.raw
      /\ v # 5 => data'.status = data.status
      /\ v = 5 => \A e \in Entries : data'.status[e] =
            IF data.status[e] \in DOMAIN Renamed THEN Renamed[data.status[e]] ELSE data.status[e]
      /\ v # 6 => data'.cards = data.cards
      /\ v = 6 => data'.cards = data.cards \cup data.raw
      /\ v # 7 => data'.projects = data.projects /\ data'.members = data.members
      /\ v = 7 => /\ data'.projects = IF data.projects = 0 THEN 1 ELSE data.projects
                  /\ data'.members = data.members \cup Present(data)
      /\ v \notin {7, 8} => data'.persons = data.persons
      /\ v \in {7, 8} => \A u \in Users : data'.persons[u] =
            IF u \in data.users /\ data.persons[u] = 0 THEN 1 ELSE data.persons[u]
  BY <1>0, UpCarries
<1>2. /\ \A k \in 1..9 : k \in applied' <=> k \in applied \/ k = v
      /\ \A k \in 1..9 : Ran(k)' <=> Ran(k) \/ k = v
      /\ ~Ran(v)
  BY DEF Ran, CarriedInv
<1>3. 5 \notin applied' => \A e \in Entries : /\ data'.status[e] = old.status[e]
                                              /\ old.status[e] \in OldStatus \cup {None}
  BY <1>1, <1>2 DEF CarriedInv
<1>4. 5 \in applied' => \A e \in Entries : Carried(old.status[e], data'.status[e])
  <2>1. CASE v = 5
    <3> SUFFICES ASSUME NEW e \in Entries PROVE Carried(old.status[e], data'.status[e])
      OBVIOUS
    <3>1. /\ data.status[e] = old.status[e] /\ old.status[e] \in OldStatus \cup {None}
          /\ data'.status[e] = IF old.status[e] \in DOMAIN Renamed
                               THEN Renamed[old.status[e]] ELSE old.status[e]
      BY <1>1, <2>1 DEF CarriedInv
    <3> QED
      BY <3>1, RenamedIsNew DEF Carried
  <2>2. CASE v # 5
    BY <1>1, <1>2, <2>2 DEF CarriedInv
  <2> QED
    BY <2>1, <2>2
<1>5. data'.cards = old.cards \cup (IF Ran(6)' THEN old.raw ELSE {})
  BY <1>1, <1>2 DEF CarriedInv
<1>6. data'.projects = IF 7 \in applied' THEN 1 ELSE 0
  BY <1>1, <1>2 DEF CarriedInv
<1>7. data'.members = old.members \cup (IF Ran(7)' THEN Present(old) ELSE {})
  BY <1>0, <1>1, <1>2 DEF CarriedInv
<1>8. ASSUME NEW u \in Users
      PROVE  PersonCarried(u)'
  <2>1. /\ PersonCarried(u) /\ old.persons[u] \in {0, 1}
        /\ u \in old.users => u \in data.users
        /\ data'.users = data.users /\ origin' = origin
    BY <1>1 DEF CarriedInv
  <2>2. CASE v \in {7, 8}
    <3>1. /\ data'.persons[u] = IF u \in data.users /\ data.persons[u] = 0 THEN 1
                                ELSE data.persons[u]
          /\ Ran(7)' \/ Ran(8)'
      BY <1>1, <1>2, <2>2
    <3>2. data.persons[u] \in {0, 1}
      BY <2>1 DEF PersonCarried
    <3> QED
      BY <2>1, <3>1, <3>2 DEF PersonCarried
  <2>3. CASE v \notin {7, 8}
    <3>1. data'.persons = data.persons /\ (Ran(7)' <=> Ran(7)) /\ (Ran(8)' <=> Ran(8))
      BY <1>1, <1>2, <2>3
    <3> QED
      BY <2>1, <3>1 DEF PersonCarried
  <2> QED
    BY <2>2, <2>3
<1>9. /\ old' = old /\ origin'.applied \subseteq applied' /\ data'.raw = old.raw
      /\ data'.users = old.users \/ (old.users = {} /\ data'.users = {Admin})
      /\ \A u \in Users : old.persons[u] \in {0, 1}
      /\ \A p \in Procs : /\ pc'[p] \in {"create", "person"} => old.users = {}
                          /\ pc'[p] = "person" => Admin \in data'.users
  BY <1>1 DEF CarriedInv
<1>10. Present(old)' = Present(old)
  BY <1>9 DEF Present
<1> HIDE DEF old
<1> QED
  BY <1>0, <1>3, <1>4, <1>5, <1>6, <1>7, <1>8, <1>9, <1>10 DEF CarriedInv, old

\* A step that writes users and persons only keeps what else has been carried over.
LEMMA BootstrapCarries ==
    ASSUME CarriedInv, applied' = applied, origin' = origin,
           data'.raw = data.raw, data'.cards = data.cards, data'.status = data.status,
           data'.projects = data.projects, data'.members = data.members,
           \/ data'.users = origin.data.users
           \/ origin.data.users = {} /\ data'.users = {Admin},
           \A u \in Users : PersonCarried(u)',
           \A p \in Procs : /\ pc'[p] \in {"create", "person"} => origin.data.users = {}
                            /\ pc'[p] = "person" => Admin \in data'.users
    PROVE  CarriedInv'
<1>1. \A v : Ran(v)' <=> Ran(v)
  BY DEF Ran
<1> QED
  BY <1>1 DEF CarriedInv, Present

\* One case per step of main that writes the tables or takes part in the bootstrap
LEMMA NextCarries ==
    ASSUME StartupInv, CarriedInv, [StartupNext]_startVars
    PROVE  CarriedInv'
<1> DEFINE old == origin.data
<1>0. /\ data \in Data /\ pc \in [Procs -> Phase]
      /\ data.users = old.users \/ (old.users = {} /\ data.users = {Admin})
      /\ \A u \in Users : PersonCarried(u)
      /\ \A p \in Procs : /\ pc[p] \in {"create", "person"} => old.users = {}
                          /\ pc[p] = "person" => Admin \in data.users
  BY DEF StartupInv, StartupTypeOK, CarriedInv
<1>1. ASSUME UNCHANGED <<data, applied, origin>>,
             \A p \in Procs : pc'[p] \in {"create", "person"} =>
                                 pc'[p] = pc[p] \/ (data.users = {} /\ pc'[p] = "create")
      PROVE  CarriedInv'
  <2>1. \A u \in Users : PersonCarried(u)'
    BY <1>0, <1>1 DEF PersonCarried, Ran
  <2> QED
    BY <1>0, <1>1, <2>1, BootstrapCarries
<1>2. ASSUME NEW p \in Procs, MigrateStep(p), ~UNCHANGED <<data, applied, origin>>
      PROVE  CarriedInv'
  BY <1>2, MigrateCarries DEF MigrateStep
<1>3. ASSUME NEW p \in Procs, CreateAdmin(p), ~UNCHANGED <<data, applied, origin>>
      PROVE  CarriedInv'
  <2>1. /\ data' = [data EXCEPT !.users = data.users \cup {Admin}]
        /\ applied' = applied /\ origin' = origin
        /\ pc[p] = "create" /\ pc' = [pc EXCEPT ![p] = "person"] /\ Admin \notin data.users
    BY <1>3 DEF CreateAdmin, Goto
  <2>2. /\ data'.users = data.users \cup {Admin} /\ data'.persons = data.persons
        /\ data'.raw = data.raw /\ data'.cards = data.cards /\ data'.status = data.status
        /\ data'.projects = data.projects /\ data'.members = data.members
    BY <1>0, <2>1 DEF Data
  <2>3. old.users = {} /\ data'.users = {Admin}
    BY <1>0, <2>1, <2>2
  <2>4. \A u \in Users : PersonCarried(u)'
    BY <1>0, <2>1, <2>2, <2>3 DEF PersonCarried, Ran
  <2>5. \A q \in Procs : /\ pc'[q] \in {"create", "person"} => old.users = {}
                         /\ pc'[q] = "person" => Admin \in data'.users
    BY <2>3
  <2> QED
    BY <2>1, <2>2, <2>3, <2>4, <2>5, BootstrapCarries
<1>4. ASSUME NEW p \in Procs, AdminPerson(p), ~UNCHANGED <<data, applied, origin>>
      PROVE  CarriedInv'
  <2> DEFINE s == [data.persons EXCEPT ![Admin] = IF @ = 0 THEN 1 ELSE @]
  <2>1. /\ data' = [data EXCEPT !.persons = s] /\ applied' = applied /\ origin' = origin
        /\ pc[p] = "person" /\ pc' = [pc EXCEPT ![p] = "init"]
    BY <1>4 DEF AdminPerson, Goto
  <2>2. \A u \in Users : s[u] = IF u = Admin /\ data.persons[u] = 0 THEN 1 ELSE data.persons[u]
    BY <1>0, StartupAssumption DEF Data
  <2> HIDE DEF s
  <2>3. /\ data'.users = data.users /\ data'.persons = s
        /\ data'.raw = data.raw /\ data'.cards = data.cards /\ data'.status = data.status
        /\ data'.projects = data.projects /\ data'.members = data.members
    BY <1>0, <2>1 DEF Data
  <2>4. old.users = {} /\ data.users = {Admin}
    BY <1>0, <2>1
  <2>5. \A u \in Users : PersonCarried(u)'
    BY <1>0, <2>1, <2>2, <2>3, <2>4 DEF PersonCarried, Ran
  <2>6. \A q \in Procs : /\ pc'[q] \in {"create", "person"} => old.users = {}
                         /\ pc'[q] = "person" => Admin \in data'.users
    BY <2>3, <2>4
  <2> QED
    BY <1>0, <2>1, <2>3, <2>5, <2>6, BootstrapCarries
<1>5. ASSUME NEW p \in Procs, CountUsers(p)
      PROVE  CarriedInv'
  <2>1. /\ UNCHANGED <<data, applied, origin>>
        /\ pc' = [pc EXCEPT ![p] = IF data.users = {} THEN "create" ELSE "init"]
    BY <1>5 DEF CountUsers, Goto
  <2>2. \A q \in Procs : pc'[q] \in {"create", "person"} =>
                            pc'[q] = pc[q] \/ (data.users = {} /\ pc'[q] = "create")
    BY <1>0, <2>1
  <2> QED
    BY <1>1, <2>1, <2>2
<1>6. ASSUME NEW p \in Procs, UNCHANGED <<data, applied, origin>>,
             pc' = pc \/ \E phase \in Phase \ {"create", "person"} :
                            pc' = [pc EXCEPT ![p] = phase]
      PROVE  CarriedInv'
  <2>1. \A q \in Procs : pc'[q] \in {"create", "person"} => pc'[q] = pc[q]
    BY <1>0, <1>6
  <2> QED
    BY <1>1, <1>6, <2>1
<1>7. ASSUME NEW p \in Procs, MigrateStep(p) \/ CreateAdmin(p) \/ AdminPerson(p),
             UNCHANGED <<data, applied, origin>>
      PROVE  CarriedInv'
  <2>1. pc' = pc \/ \E phase \in Phase \ {"create", "person"} : pc' = [pc EXCEPT ![p] = phase]
    <3>1. CASE MigrateStep(p)
      BY <1>7, <3>1 DEF MigrateStep, Exit, Goto, Phase
    <3>2. CASE CreateAdmin(p)
      <4>1. CASE Admin \in data.users
        BY <3>2, <4>1 DEF CreateAdmin, Exit, Goto, Phase
      <4>2. CASE Admin \notin data.users
        <5>1. data' = [data EXCEPT !.users = data.users \cup {Admin}]
          BY <3>2, <4>2 DEF CreateAdmin
        <5>2. data'.users = data.users \cup {Admin}
          BY <1>0, <5>1 DEF Data
        <5> QED
          BY <1>7, <4>2, <5>2
      <4> QED
        BY <4>1, <4>2
    <3>3. CASE AdminPerson(p)
      BY <3>3 DEF AdminPerson, Goto, Phase
    <3> QED
      BY <1>7, <3>1, <3>2, <3>3
  <2> QED
    BY <1>6, <1>7, <2>1
<1>8. ASSUME NEW p \in Procs,
             \/ Boot(p) \/ Migrated(p) \/ InitAll(p) \/ StartAll(p) \/ Listen(p) \/ Signal(p)
             \/ StopAll(p) \/ FlushTelemetry(p) \/ CloseDatabase(p) \/ Die(p)
      PROVE  CarriedInv'
  <2>1. /\ UNCHANGED <<data, applied, origin>>
        /\ pc' = pc \/ \E phase \in Phase \ {"create", "person"} : pc' = [pc EXCEPT ![p] = phase]
    BY <1>8 DEF Boot, Migrated, InitAll, StartAll, Listen, Signal, StopAll, FlushTelemetry,
                CloseDatabase, Die, Exit, Goto, Phase
  <2> QED
    BY <1>6, <2>1
<1>9. CASE UNCHANGED startVars
  <2>1. UNCHANGED <<data, applied, origin>> /\ pc' = pc
    BY <1>9 DEF startVars
  <2> QED
    BY <1>1, <2>1
<1>10. CASE StartupNext
  <2>1. PICK p \in Procs : MainStep(p) \/ Signal(p) \/ Die(p)
    BY <1>10 DEF StartupNext
  <2>2. CASE MigrateStep(p) \/ CreateAdmin(p) \/ AdminPerson(p)
    BY <1>2, <1>3, <1>4, <1>7, <2>2
  <2>3. CASE ~(MigrateStep(p) \/ CreateAdmin(p) \/ AdminPerson(p))
    BY <1>5, <1>8, <2>1, <2>3 DEF MainStep
  <2> QED
    BY <2>2, <2>3
<1> QED
  BY <1>9, <1>10

\* Upgrading any database an older release can have left loses and doubles nothing
\* and puts nothing back that had been taken out, however many processes migrate it
\* at once, exit, die and start again between migrations.
THEOREM DataCarriedOverHolds == StartupSpec => []DataCarriedOver
<1>1. StartupInv /\ CarriedInv /\ [StartupNext]_startVars => CarriedInv'
  BY NextCarries
<1>2. CarriedInv => DataCarriedOver
  BY CarriedMeans
<1> QED
  BY <1>1, <1>2, InitCarried, InvHolds, PTL DEF StartupSpec
=============================================================================
