-------------------------- MODULE ProbeRateLimiter --------------------------
(***************************************************************************)
(* probeRateLimiter (internal/api/health_handlers.go): the in-memory map   *)
(* that admits one on-demand probe per entry and window, and evicts what   *)
(* it no longer needs.  allow holds the mutex throughout, so one call is   *)
(* one step.                                                               *)
(***************************************************************************)
EXTENDS Timestamps

CONSTANTS
    Ids,      \* entry ids, as they arrive in the URL
    Window    \* the window the handler passes (5s)

ASSUME WindowAssumption == Window \in 1 .. MaxAge

VARIABLES
    lastCall,     \* map[string]time.Time; Never: no such key
    lastCleanup   \* Never: the zero time

limiterVars == <<lastCall, lastCleanup>>

LimiterTypeOK ==
    /\ lastCall \in [Ids -> Stamps]
    /\ lastCleanup \in Stamps

LimiterInit ==
    /\ lastCall = [id \in Ids |-> Never]
    /\ lastCleanup = Never

CleanupDue == lastCleanup >= Window

\* Faulty variants: a cleanup that empties the map, and one that evicts nothing.
EvictedAll == IF CleanupDue THEN [id \in Ids |-> Never] ELSE lastCall

EvictedNone == lastCall

\* The map after the eviction that allow may do first.
Evicted ==
    IF CleanupDue
    THEN [id \in Ids |-> IF lastCall[id] >= Window THEN Never ELSE lastCall[id]]
    ELSE lastCall

Admits(id) == Evicted[id] >= Window

\* A denied call still does the cleanup.
Allow(id) ==
    /\ lastCleanup' = IF CleanupDue THEN 0 ELSE lastCleanup
    /\ lastCall' = IF Admits(id) THEN [Evicted EXCEPT ![id] = 0] ELSE Evicted

LimiterTick ==
    /\ lastCall' = [id \in Ids |-> Older(lastCall[id])]
    /\ lastCleanup' = Older(lastCleanup)
=============================================================================
