------------------------------- MODULE Startup -------------------------------
(***************************************************************************)
(* cmd/agentlens/main.go: processes that share a database start, serve and *)
(* stop. A process opens the database, runs the pending migrations, makes  *)
(* the first administrator, initialises and starts its plugins and serves; *)
(* on a signal it stops the plugins, then telemetry, then closes the       *)
(* database. os.Exit(1) skips everything deferred. A supervisor starts a   *)
(* process again.                                                          *)
(***************************************************************************)
EXTENDS Migrations, PluginManager

CONSTANTS Procs,      \* processes
          Admin,      \* the id of the user "admin"
          MaxFaults   \* bound: failing calls and crashes

ASSUME StartupAssumption ==
    /\ Admin \in Users
    /\ MaxFaults \in Nat

VARIABLES applied,    \* table schema_migrations
          data,       \* the other tables
          pc,         \* where main is
          version,    \* the next migration in the loop of Migrate
          pm,         \* plugin managers
          telemetry,  \* processes whose telemetry runs
          faults,
          origin      \* history: applied and data before the first process started

startVars == <<applied, data, pc, version, pm, telemetry, faults, origin>>

Phase == {"off", "migrate", "count", "create", "person", "init", "start",
          "listen", "serve", "stop", "flush", "close"}

PluginState == [next: 1..(Len(Plugins) + 1), initialized: Seq(Plugin),
                started: 0..Len(Plugins), stopped: Seq(Plugin)]

StartupTypeOK ==
    /\ applied \in SUBSET Versions
    /\ data \in Data
    /\ pc \in [Procs -> Phase]
    /\ version \in [Procs -> 1..(LastVersion + 1)]
    /\ pm \in [Procs -> PluginState]
    /\ telemetry \in SUBSET Procs
    /\ faults \in 0..MaxFaults

\* The administrator that a bootstrap makes gets a new id: no person has it yet.
StartupInit ==
    /\ \E n \in 0..LastVersion : applied = 1..n /\ data \in WrittenBy(n)
    /\ Admin \notin data.users => data.persons[Admin] = 0
    /\ pc = [p \in Procs |-> "off"]
    /\ version = [p \in Procs |-> 1]
    /\ pm = [p \in Procs |-> NewPluginManager]
    /\ telemetry = {}
    /\ faults = 0
    /\ origin = [applied |-> applied, data |-> data]

Goto(p, phase) == pc' = [pc EXCEPT ![p] = phase]

\* The process ends; what it had in memory is gone.
Exit(p) ==
    /\ Goto(p, "off")
    /\ version' = [version EXCEPT ![p] = 1]
    /\ pm' = [pm EXCEPT ![p] = NewPluginManager]
    /\ telemetry' = telemetry \ {p}

\* faulty variant: all migrations, each time
BootFromScratch(p) ==
    /\ pc[p] = "off"
    /\ Goto(p, "migrate")
    /\ telemetry' = telemetry \cup {p}
    /\ version' = [version EXCEPT ![p] = 1]
    /\ UNCHANGED <<applied, data, pm, faults, origin>>

\* Telemetry, Open and CurrentVersion
Boot(p) ==
    /\ pc[p] = "off"
    /\ Goto(p, "migrate")
    /\ telemetry' = telemetry \cup {p}
    /\ version' = [version EXCEPT ![p] = CurrentVersion(applied) + 1]
    /\ UNCHANGED <<applied, data, pm, faults, origin>>

\* faulty variant: a migration that fails is logged, and the next one runs
MigrateStepLogged(p) ==
    /\ pc[p] = "migrate"
    /\ version[p] \in Versions
    /\ version' = [version EXCEPT ![p] = @ + 1]
    /\ \/ /\ version[p] \notin applied
          /\ data' = Up(version[p], data)
          /\ applied' = applied \cup {version[p]}
          /\ UNCHANGED faults
       \/ /\ faults < MaxFaults
          /\ faults' = faults + 1
          /\ UNCHANGED <<applied, data>>
    /\ UNCHANGED <<pc, pm, telemetry, origin>>

\* faulty variant: another process is there first and will do the rest
MigrateStepYields(p) ==
    /\ pc[p] = "migrate"
    /\ version[p] \in Versions
    /\ IF version[p] \in applied
       THEN Goto(p, "count") /\ UNCHANGED <<applied, data, version>>
       ELSE /\ data' = Up(version[p], data)
            /\ applied' = applied \cup {version[p]}
            /\ version' = [version EXCEPT ![p] = @ + 1]
            /\ UNCHANGED pc
    /\ UNCHANGED <<pm, telemetry, faults, origin>>

\* One pending migration: its transaction also inserts the version, whose
\* primary key makes it fail when another process has been faster.
MigrateStep(p) ==
    /\ pc[p] = "migrate"
    /\ version[p] \in Versions
    /\ IF version[p] \in applied
       THEN Exit(p) /\ UNCHANGED <<applied, data>>
       ELSE /\ data' = Up(version[p], data)
            /\ applied' = applied \cup {version[p]}
            /\ version' = [version EXCEPT ![p] = @ + 1]
            /\ UNCHANGED <<pc, pm, telemetry>>
    /\ UNCHANGED <<faults, origin>>

Migrated(p) ==
    /\ pc[p] = "migrate"
    /\ version[p] \notin Versions
    /\ Goto(p, "count")
    /\ UNCHANGED <<applied, data, version, pm, telemetry, faults, origin>>

\* BootstrapAdmin: Count ...
CountUsers(p) ==
    /\ pc[p] = "count"
    /\ Goto(p, IF data.users = {} THEN "create" ELSE "init")
    /\ UNCHANGED <<applied, data, version, pm, telemetry, faults, origin>>

\* ... and Create, which the unique user name refuses if another process has
\* made the administrator meanwhile.
CreateAdmin(p) ==
    /\ pc[p] = "create"
    /\ IF Admin \in data.users
       THEN Exit(p) /\ UNCHANGED data
       ELSE /\ data' = [data EXCEPT !.users = @ \cup {Admin}]
            /\ Goto(p, "person")
            /\ UNCHANGED <<version, pm, telemetry>>
    /\ UNCHANGED <<applied, faults, origin>>

\* CreatePersonForUser: nothing to do if there is a person; a failure is logged.
AdminPerson(p) ==
    /\ pc[p] = "person"
    /\ Goto(p, "init")
    /\ \/ /\ data' = [data EXCEPT !.persons[Admin] = IF @ = 0 THEN 1 ELSE @]
          /\ UNCHANGED faults
       \/ /\ faults < MaxFaults
          /\ faults' = faults + 1
          /\ UNCHANGED data
    /\ UNCHANGED <<applied, version, pm, telemetry, origin>>

InitAll(p) ==
    /\ pc[p] = "init"
    /\ IF AllInitialized(pm[p])
       THEN Goto(p, "start") /\ UNCHANGED pm
       ELSE pm' = [pm EXCEPT ![p] = InitPlugin(@)] /\ UNCHANGED pc
    /\ UNCHANGED <<applied, data, version, telemetry, faults, origin>>

StartAll(p) ==
    /\ pc[p] = "start"
    /\ IF AllStarted(pm[p])
       THEN Goto(p, "listen") /\ UNCHANGED pm
       ELSE pm' = [pm EXCEPT ![p] = StartPlugin(@)] /\ UNCHANGED pc
    /\ UNCHANGED <<applied, data, version, telemetry, faults, origin>>

\* Discovery is started and the server listens.
Listen(p) ==
    /\ pc[p] = "listen"
    /\ Goto(p, "serve")
    /\ UNCHANGED <<applied, data, version, pm, telemetry, faults, origin>>

\* SIGTERM, and Shutdown of the server without an error
Signal(p) ==
    /\ pc[p] = "serve"
    /\ Goto(p, "stop")
    /\ UNCHANGED <<applied, data, version, pm, telemetry, faults, origin>>

\* Deferred first: StopAll. The last Stop may have failed.
StopAll(p) ==
    /\ pc[p] = "stop"
    /\ \E failed \in BOOLEAN :
           IF AllStopped(pm[p], failed)
           THEN Goto(p, "flush") /\ UNCHANGED pm
           ELSE pm' = [pm EXCEPT ![p] = StopPlugin(@)] /\ UNCHANGED pc
    /\ UNCHANGED <<applied, data, version, telemetry, faults, origin>>

\* Deferred next: telemetry's Shutdown, whose errors are logged.
FlushTelemetry(p) ==
    /\ pc[p] = "flush"
    /\ telemetry' = telemetry \ {p}
    /\ Goto(p, "close")
    /\ UNCHANGED <<applied, data, version, pm, faults, origin>>

\* Deferred last: the context is cancelled and the database closed.
CloseDatabase(p) ==
    /\ pc[p] = "close"
    /\ Exit(p)
    /\ UNCHANGED <<applied, data, faults, origin>>

\* A call fails and main calls os.Exit(1), or the process is killed.
Die(p) ==
    /\ pc[p] # "off"
    /\ faults < MaxFaults
    /\ faults' = faults + 1
    /\ Exit(p)
    /\ UNCHANGED <<applied, data, origin>>

MainStep(p) ==
    \/ Boot(p) \/ MigrateStep(p) \/ Migrated(p) \/ CountUsers(p) \/ CreateAdmin(p)
    \/ AdminPerson(p) \/ InitAll(p) \/ StartAll(p) \/ Listen(p) \/ StopAll(p)
    \/ FlushTelemetry(p) \/ CloseDatabase(p)

StartupNext == \E p \in Procs : MainStep(p) \/ Signal(p) \/ Die(p)

StartupSpec == StartupInit /\ [][StartupNext]_startVars

\* main runs on, and the supervisor starts a process that has ended; nothing is
\* assumed of signals and failures.
FairStartup == StartupSpec /\ \A p \in Procs : WF_startVars(MainStep(p))

-----------------------------------------------------------------------------
\* Migrations are applied without gaps, whoever applies them and wherever a
\* process dies: what CurrentVersion reads stands for all versions below it.
SchemaInOrder == \A v \in applied : 1..v \subseteq applied

\* A process that serves does so on the newest schema and with some user to log
\* in as, also if another process is migrating, bootstrapping or dying.
ServesMigrated ==
    \A p \in Procs :
        pc[p] \in {"init", "start", "listen", "serve"}
            => applied = Versions /\ data.users # {} /\ data.roles = SeededRoles

\* A migration that has run since the first process started
Ran(v) == v \in applied \ origin.applied

\* Nothing of the database that was found gets lost on the way, nothing is
\* doubled and nothing that had been taken out is put back: users stay, statuses
\* mean the same, raw definitions become raw cards once, there is one default
\* project. Entries without a membership and users without a person get theirs
\* from the migration that is there for it and from no later start; only an
\* administrator that a bootstrap makes, when there is no user, is new.
DataCarriedOver ==
    LET old == origin.data IN
    /\ data.users = old.users \/ (old.users = {} /\ data.users = {Admin})
    /\ Present(data) = Present(old)
    /\ 5 \in applied =>
          \A e \in Present(old) :
              /\ data.status[e] \in NewStatus
              /\ data.status[e] = IF old.status[e] \in DOMAIN Renamed
                                  THEN Renamed[old.status[e]] ELSE old.status[e]
    /\ data.cards = old.cards \cup (IF Ran(6) THEN old.raw ELSE {})
    /\ data.projects = IF 7 \in applied THEN 1 ELSE 0
    /\ data.members = old.members \cup (IF Ran(7) THEN Present(old) ELSE {})
    /\ \A u \in Users :
          \/ u \in data.users \ old.users /\ data.persons[u] = 1
          \/ data.persons[u] = IF u \in old.users /\ (Ran(7) \/ Ran(8))
                               THEN 1 ELSE old.persons[u]

\* main.go: telemetry is shut down after the plugins have been stopped, every
\* one of them, the last initialised first, even if a Stop fails.
StopsInReverse ==
    \A p \in Procs :
        /\ IsPrefix(pm[p].stopped, Reverse(pm[p].initialized))
        /\ pc[p] # "off" /\ p \notin telemetry
              => Len(pm[p].stopped) = Len(pm[p].initialized)

\* As long as failures are finitely many somebody gets through to serving,
\* although processes that race for a migration or for the administrator exit.
SomebodyServes == <>(\E p \in Procs : pc[p] = "serve")
=============================================================================
