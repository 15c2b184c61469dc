------------------------------ MODULE RateLimit ------------------------------
(***************************************************************************)
(* The limiter on its own: any calls, at any time, for any entry, with a   *)
(* record of when calls were really admitted, which the code does not keep.*)
(***************************************************************************)
EXTENDS ProbeRateLimiter

VARIABLES
    admitted,  \* history: age of the last admitted call of each entry
    gap        \* history: time between the last two admitted calls of each entry

vars == <<lastCall, lastCleanup, admitted, gap>>

TypeOK ==
    /\ LimiterTypeOK
    /\ admitted \in [Ids -> Stamps]
    /\ gap \in [Ids -> Stamps]

Init ==
    /\ LimiterInit
    /\ admitted = [id \in Ids |-> Never]
    /\ gap = [id \in Ids |-> Never]

Call(id) ==
    /\ Allow(id)
    /\ IF Admits(id)
       THEN /\ admitted' = [admitted EXCEPT ![id] = 0]
            /\ gap' = [gap EXCEPT ![id] = admitted[id]]
       ELSE UNCHANGED <<admitted, gap>>

Tick ==
    /\ LimiterTick
    /\ admitted' = [id \in Ids |-> Older(admitted[id])]
    /\ UNCHANGED gap

Next == Tick \/ \E id \in Ids : Call(id)

Spec == Init /\ [][Next]_vars
-----------------------------------------------------------------------------
\* "Rate-limited to one call per entry per 5 seconds": two admitted calls of one
\* entry are a window apart or more, whatever the calls in between (for any
\* entry) made allow evict.
RateLimited == \A id \in Ids : gap[id] >= Window

\* The map forgets ("to keep the map bounded"): what the last cleanup left was
\* younger than the window then, so no key is older than the last cleanup by a
\* window or more.
MapForgets ==
    \A id \in Ids : lastCall[id] # Never =>
        /\ lastCleanup # Never
        /\ lastCall[id] < lastCleanup + Window
=============================================================================
