--------------------------- MODULE PluginManager ---------------------------
(***************************************************************************)
(* internal/kernel/plugin_manager.go: the manager of one process as a      *)
(* record of what InitAll, StartAll and StopAll have done so far. Plugins  *)
(* are initialised in the order of Register.                               *)
(***************************************************************************)
EXTENDS Integers, Sequences, SequencesExt

CONSTANTS Plugins,   \* sequence of plugins, in the order of Register
          Licensed   \* plugins whose feature the license has, or that need none

Plugin == {Plugins[i] : i \in 1..Len(Plugins)}

ASSUME PluginsAssumption == Plugins \in Seq(Plugin)

\* next: position in Plugins; initialized: as the manager keeps it; started: how
\* many of them run; stopped: the calls of Stop, in their order.
NewPluginManager == [next |-> 1, initialized |-> <<>>, started |-> 0, stopped |-> <<>>]

AllInitialized(pm) == pm.next > Len(Plugins)
AllStarted(pm) == pm.started = Len(pm.initialized)

\* InitAll, one plugin: without a license it is skipped.
InitPlugin(pm) ==
    LET p == Plugins[pm.next]
    IN  [pm EXCEPT !.next = @ + 1,
                   !.initialized = IF p \in Licensed THEN Append(@, p) ELSE @]

\* StartAll, one plugin
StartPlugin(pm) == [pm EXCEPT !.started = @ + 1]

ToStop(pm) == Len(pm.initialized) - Len(pm.stopped)

\* StopAll, one plugin: from the last to the first
NextToStop(pm) == pm.initialized[ToStop(pm)]

StopPlugin(pm) == [pm EXCEPT !.stopped = Append(@, NextToStop(pm))]

\* faulty variant: StopAll returns when a Stop fails
AllStoppedOrFailed(pm, failed) == ToStop(pm) = 0 \/ failed

\* StopAll goes on after a failure and reports it at the end.
AllStopped(pm, failed) == ToStop(pm) = 0
=============================================================================
