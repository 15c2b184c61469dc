-------------------------- MODULE MCCatalogSystem --------------------------
(***************************************************************************)
(* Small instances of CatalogSystem.                                       *)
(***************************************************************************)
EXTENDS CatalogSystem, TLC

CONSTANTS c1, ep1

Card(version) == [protocol |-> "mcp", endpoint |-> ep1, version |-> version]

OneCard == {Card("1")}
TwoVersions == {Card("1"), Card("2")}

Static == <<"config">>
StaticAndK8s == <<"config", "k8s">>

(* Discovery and the API while the clock stands still, so that no probe runs: *)
(* probes write health columns, which decide nothing about which entries there *)
(* are.  This leaves room for several entries, versions and sources.  Any      *)
(* number of store calls of discovery may fail.                                *)
ClocklessNext ==
    \/ /\ UNCHANGED discoveryVars
       /\ \E id \in Ids : DeleteEntry(id) \/ PatchLifecycle(id, "deprecated")
    \/ \E id \in Ids, at \in AgentType : PushEntry(id, at)
    \/ DiscoveryRuns
    \/ DiscoveryFault /\ UNCHANGED <<proberRest, faults>>

ClocklessSpec == SystemInit /\ [][ClocklessNext]_systemVars
=============================================================================
