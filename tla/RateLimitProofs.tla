-------------------------- MODULE RateLimitProofs --------------------------
(***************************************************************************)
(* The limiter keeps its promise for every window and every set of ids.    *)
(* RateLimited is not inductive: it needs that the map has not forgotten a *)
(* call that is still inside its window (Remembers), which is what the     *)
(* eviction could break.                                                   *)
(***************************************************************************)
EXTENDS RateLimit, TLAPS

\* The map still holds every call admitted less than a window ago.
Remembers == \A id \in Ids : admitted[id] < Window => lastCall[id] = admitted[id]

IInv == TypeOK /\ Remembers /\ RateLimited /\ MapForgets

\* Time passing makes no timestamp younger, and keeps it a timestamp.
LEMMA OlderGrows ==
    ASSUME NEW a \in Stamps
    PROVE  /\ Older(a) \in Stamps
           /\ Older(a) >= a
           /\ Older(a) <= a + 1
           /\ Older(a) = Never <=> a = Never
BY MaxAgeAssumption DEF Stamps, Older, Never

\* Nothing was called yet.
LEMMA InitIInv == Init => IInv
BY MaxAgeAssumption, WindowAssumption
DEF Init, IInv, TypeOK, LimiterTypeOK, LimiterInit, Remembers, RateLimited, MapForgets,
    Stamps, Never

\* A clock unit preserves the invariant: ages grow together.
LEMMA TickIInv == IInv /\ Tick => IInv'
<1> SUFFICES ASSUME IInv, Tick PROVE IInv'
    OBVIOUS
<1> USE MaxAgeAssumption, WindowAssumption
<1>1. TypeOK'
    BY OlderGrows DEF IInv, TypeOK, LimiterTypeOK, Tick, LimiterTick
<1>2. Remembers'
    BY OlderGrows DEF IInv, TypeOK, LimiterTypeOK, Remembers, Tick, LimiterTick, Stamps, Never
<1>3. RateLimited'
    BY DEF IInv, RateLimited, Tick
<1>4. MapForgets'
    <2> SUFFICES ASSUME NEW id \in Ids, lastCall'[id] # Never
                 PROVE  lastCleanup' # Never /\ lastCall'[id] < lastCleanup' + Window
        BY DEF MapForgets
    <2>1. lastCall[id] # Never /\ lastCall[id] \in Stamps /\ lastCleanup \in Stamps
        BY OlderGrows DEF IInv, TypeOK, LimiterTypeOK, Tick, LimiterTick
    <2>2. lastCleanup # Never /\ lastCall[id] < lastCleanup + Window
        BY <2>1 DEF IInv, MapForgets
    <2>3. lastCall'[id] = Older(lastCall[id]) /\ lastCleanup' = Older(lastCleanup)
        BY DEF Tick, LimiterTick
    <2> QED
        BY <2>1, <2>2, <2>3 DEF Older, Stamps, Never
<1> QED
    BY <1>1, <1>2, <1>3, <1>4 DEF IInv

\* What the eviction may and may not do to a key.
LEMMA EvictedKeeps ==
    ASSUME TypeOK, NEW id \in Ids
    PROVE  /\ Evicted \in [Ids -> Stamps]
           /\ lastCall[id] < Window => Evicted[id] = lastCall[id]
           /\ Evicted[id] < Window => lastCall[id] = Evicted[id]
           /\ Evicted[id] # Never => Evicted[id] = lastCall[id]
           /\ CleanupDue /\ Evicted[id] # Never => Evicted[id] < Window
BY MaxAgeAssumption, WindowAssumption
DEF TypeOK, LimiterTypeOK, Evicted, CleanupDue, Stamps, Never

\* A call of allow preserves the invariant.
LEMMA CallIInv == ASSUME NEW id \in Ids PROVE IInv /\ Call(id) => IInv'
<1> SUFFICES ASSUME IInv, Call(id) PROVE IInv'
    OBVIOUS
<1> USE MaxAgeAssumption, WindowAssumption
<1>0. TypeOK
    BY DEF IInv
<1>1. TypeOK'
    BY <1>0, EvictedKeeps DEF TypeOK, LimiterTypeOK, Call, Allow, Stamps, Never
<1>2. Remembers'
    <2> SUFFICES ASSUME NEW k \in Ids, admitted'[k] < Window
                 PROVE  lastCall'[k] = admitted'[k]
        BY DEF Remembers
    <2>1. CASE Admits(id) /\ k = id
        BY <2>1, <1>0, EvictedKeeps DEF TypeOK, LimiterTypeOK, Call, Allow
    <2>2. CASE ~(Admits(id) /\ k = id)
        <3>1. admitted'[k] = admitted[k] /\ lastCall'[k] = Evicted[k]
            BY <2>2, <1>0, EvictedKeeps DEF TypeOK, LimiterTypeOK, Call, Allow
        <3>2. lastCall[k] = admitted[k]
            BY <3>1 DEF IInv, Remembers
        <3> QED
            BY <3>1, <3>2, <1>0, EvictedKeeps
    <2> QED
        BY <2>1, <2>2
<1>3. RateLimited'
    <2> SUFFICES ASSUME NEW k \in Ids PROVE gap'[k] >= Window
        BY DEF RateLimited
    <2>1. CASE Admits(id) /\ k = id
        <3>1. gap'[k] = admitted[id]
            BY <2>1, <1>0 DEF TypeOK, Call
        <3>2. Evicted[id] >= Window
            BY <2>1 DEF Admits
        <3>3. ~(admitted[id] < Window)
            <4> SUFFICES ASSUME admitted[id] < Window PROVE FALSE
                OBVIOUS
            <4>1. lastCall[id] < Window
                BY DEF IInv, Remembers
            <4> QED
                BY <4>1, <3>2, <1>0, EvictedKeeps DEF TypeOK, LimiterTypeOK, Stamps, Never
        <3> QED
            BY <3>1, <3>3, <1>0 DEF TypeOK, Stamps, Never
    <2>2. CASE ~(Admits(id) /\ k = id)
        BY <2>2, <1>0 DEF TypeOK, Call, IInv, RateLimited
    <2> QED
        BY <2>1, <2>2
<1>4. MapForgets'
    <2> SUFFICES ASSUME NEW k \in Ids, lastCall'[k] # Never
                 PROVE  lastCleanup' # Never /\ lastCall'[k] < lastCleanup' + Window
        BY DEF MapForgets
    <2>1. lastCall'[k] = 0 \/ (lastCall'[k] = Evicted[k] /\ Evicted[k] # Never)
        BY <1>0, EvictedKeeps DEF Call, Allow
    <2>2. lastCleanup' = IF CleanupDue THEN 0 ELSE lastCleanup
        BY DEF Call, Allow
    <2>3. lastCleanup \in Stamps
        BY <1>0 DEF TypeOK, LimiterTypeOK
    <2>4. CASE CleanupDue
        BY <2>1, <2>2, <2>4, <1>0, EvictedKeeps DEF Stamps, Never
    <2>5. CASE ~CleanupDue
        <3>1. lastCleanup' = lastCleanup /\ lastCleanup # Never
            BY <2>2, <2>3, <2>5 DEF CleanupDue, Stamps, Never
        <3>2. CASE lastCall'[k] = 0
            BY <3>1, <3>2, <2>3 DEF Stamps, Never
        <3>3. CASE lastCall'[k] = Evicted[k] /\ Evicted[k] # Never
            <4>1. lastCall'[k] = lastCall[k] /\ lastCall[k] # Never
                BY <3>3, <1>0, EvictedKeeps
            <4> QED
                BY <4>1, <3>1 DEF IInv, MapForgets
        <3> QED
            BY <2>1, <3>2, <3>3
    <2> QED
        BY <2>4, <2>5
<1> QED
    BY <1>1, <1>2, <1>3, <1>4 DEF IInv

\* The invariant holds of every behaviour of the limiter.
THEOREM Invariance == Spec => []IInv
<1>1. IInv /\ UNCHANGED vars => IInv'
    BY DEF vars, IInv, TypeOK, LimiterTypeOK, Remembers, RateLimited, MapForgets
<1>2. IInv /\ [Next]_vars => IInv'
    BY <1>1, TickIInv, CallIInv DEF Next
<1> QED
    BY InitIInv, <1>2, PTL DEF Spec

\* probeRateLimiter.allow never admits two probes of one entry within a window,
\* whichever cleanups happen in between.
THEOREM RateLimitHolds == Spec => []RateLimited
<1>1. IInv => RateLimited
    BY DEF IInv
<1> QED
    BY <1>1, Invariance, PTL

\* allow's periodic eviction keeps the map from remembering old calls.
THEOREM MapForgetsHolds == Spec => []MapForgets
<1>1. IInv => MapForgets
    BY DEF IInv
<1> QED
    BY <1>1, Invariance, PTL
=============================================================================
