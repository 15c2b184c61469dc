--------------------------- MODULE CatalogSystem ---------------------------
(***************************************************************************)
(* Everything that writes catalog_entries, together: the health worker,    *)
(* on-demand probes, the lifecycle and catalog API (HealthProber) and the  *)
(* discovery manager (Discovery), with nothing but the database between    *)
(* them.                                                                   *)
(***************************************************************************)
EXTENDS HealthProber, Discovery

systemVars == <<vars, discoveryVars>>

SystemInit == Init /\ DiscoveryInit

\* What discovery leaves alone.
proberRest == <<proberVars, lastCall, lastCleanup, failures>>

\* Steps of the prober and of the API that discovery does not notice.
HealthStep ==
    /\ \/ WorkerStep
       \/ ListFails
       \/ \E w \in Workers : WriteFails(w)
       \/ \E id \in Ids :
             DeleteEntry(id) \/ \E state \in {"deprecated", "active"} : PatchLifecycle(id, state)
       \/ \E c \in Callers : CancelRequest(c) \/ \E id \in Ids : ProbeEntry(c, id)
    /\ UNCHANGED discoveryVars

PushEntry(id, at) == Register(id, at) /\ Pushed(id)

SystemRestart == Restart /\ DiscoveryRestart

SystemTick == Tick /\ DiscoveryTick

DiscoveryRuns == DiscoveryStep /\ UNCHANGED <<proberRest, faults>>

DiscoveryFails ==
    /\ DiscoveryFault
    /\ faults < MaxFaults
    /\ faults' = faults + 1
    /\ UNCHANGED proberRest

SystemNext ==
    \/ HealthStep
    \/ \E id \in Ids, at \in AgentType : PushEntry(id, at)
    \/ SystemRestart
    \/ SystemTick
    \/ DiscoveryRuns
    \/ DiscoveryFails

SystemSpec == SystemInit /\ [][SystemNext]_systemVars

-----------------------------------------------------------------------------
(* Properties *)

SystemTypeOK == TypeOK /\ DiscoveryTypeOK

\* What can still be said of a copy of the health columns once discovery saves whole
\* rows: never ahead of the failures that happened, no success after the last probe,
\* and no trace of a probe in an entry that was never probed.
Truthful(id, h) ==
    /\ h.fails <= failures[id]
    /\ h.succ >= h.probed
    /\ h.probed = Never => h.fails = 0 /\ h.succ = Never
    /\ h.state = "registered" => h.probed = Never

\* Whoever writes a row, and however old the copy is that it was computed from, the
\* row reports a state that the entry really was in: counters and timestamps of
\* different probes are never mixed, and failures never made up.
RowsTruthful ==
    /\ \A id \in Ids : Present(id) => Truthful(id, entries[id].h)
    /\ \A w \in Workers : jobs[w] # Absent => Truthful(jobs[w].id, jobs[w].h)
    /\ \A id \in Ids : pass.listed[id] # Absent => Truthful(id, pass.listed[id].h)
    /\ pass.found # Absent /\ pass.found.id # Absent
          => Truthful(pass.found.id, pass.found.row.h)

\* "Entries with SourcePush are never overwritten by discovery" (ADR-008): no step of
\* the manager changes an entry, or the agent type of an entry, that came through the
\* API, nor creates one in its place after it was deleted.
PushProtected ==
    [][DiscoveryStep => \A id \in Ids : sourceOf[id] = "push" =>
          entries'[id] = entries[id] /\ agentTypes'[id] = agentTypes[id]]_systemVars

\* The manager finds again what it has created, whatever became of it meanwhile (a new
\* version, a deprecation, a deletion undone by a late save, an entry of the API for
\* the same endpoint): it never has two entries for one endpoint.
OneDiscoveredPerEndpoint ==
    \A id, other \in Ids :
        /\ Present(id) /\ Present(other)
        /\ sourceOf[id] # "push" /\ sourceOf[other] # "push"
        /\ agentTypes[id].endpoint = agentTypes[other].endpoint
        => id = other
=============================================================================
