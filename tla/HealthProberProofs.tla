-------------------------- MODULE HealthProberProofs --------------------------
(***************************************************************************)
(* Proofs about HealthProber, for every set of ids and callers, every      *)
(* interval, timeout, concurrency, batch size, threshold and fault bound.  *)
(*                                                                         *)
(* The invariants about rows are not inductive by themselves: a row is     *)
(* overwritten with a copy made earlier, so the same must hold of every    *)
(* copy a worker carries (HealthCoherent and FailuresBacked speak of both),*)
(* and the agent type a copy refers to must not change (JobsUsed: it was   *)
(* there when the copy was made, and agent types are never replaced).      *)
(***************************************************************************)
EXTENDS HealthProber, TLAPS

\* A probe in flight is about an id that has been used.
JobsUsed == \A w \in Workers : jobs[w] # Absent => agentTypes[jobs[w].id] # Absent

IInv == TypeOK /\ JobsUsed /\ HealthCoherent /\ FailuresBacked

USE MaxAgeAssumption, CapAssumption, ProberAssumption, AbsentAssumption,
    JobAssumption DEF Never, Stamps, Ages
-----------------------------------------------------------------------------
(* The operators *)

\* A timestamp stays a timestamp, and real ones stay real.
LEMMA OlderType ==
    /\ \A a \in Stamps : Older(a) \in Stamps /\ (Older(a) = Never <=> a = Never)
    /\ \A a \in Ages : Older(a) \in Ages
    /\ \A a, b \in Stamps : a >= b => Older(a) >= Older(b)
BY DEF Older

\* Ageing a health copy changes its timestamps only.
LEMMA OlderHealthType ==
    ASSUME NEW h \in Health
    PROVE  /\ OlderHealth(h) \in Health
           /\ OlderHealth(h).state = h.state /\ OlderHealth(h).fails = h.fails
           /\ OlderHealth(h).probed = Older(h.probed) /\ OlderHealth(h).succ = Older(h.succ)
<1>1. /\ h.state \in LifecycleState /\ h.fails \in 0 .. FailCap
      /\ h.probed \in Stamps /\ h.succ \in Stamps
    BY DEF Health
<1> QED
    BY <1>1, OlderType DEF Health, OlderHealth

\* probeOne returns a health value, whatever the outcome.
LEMMA ProbeOneType ==
    ASSUME NEW h \in Health, NEW at, NEW outcome \in Outcome
    PROVE  ProbeOne(h, at, outcome) \in Health
<1>1. h.fails \in 0 .. FailCap /\ h.succ \in Stamps
    BY DEF Health
<1>2. CountUp(h.fails) \in 0 .. FailCap
    BY <1>1 DEF CountUp
<1>3. FailureHealth(h) \in Health
    BY <1>1, <1>2 DEF FailureHealth, Health, LifecycleState
<1>4. NoURLHealth(h) \in Health
    BY <1>1, <1>2 DEF NoURLHealth, Health, LifecycleState
<1>5. \A slow \in BOOLEAN : SuccessHealth(slow) \in Health
    BY DEF SuccessHealth, Health, LifecycleState
<1> QED
    BY <1>3, <1>4, <1>5 DEF ProbeOne, NoRequest
-----------------------------------------------------------------------------
(* Types *)

\* A created row has the columns' types.
LEMMA CreateType ==
    ASSUME StoreTypeOK, NEW id \in Ids, NEW at \in AgentType, Create(id, at)
    PROVE  StoreTypeOK'
<1>1. [h |-> NewHealth, seen |-> 0] \in Row
    BY DEF NewHealth, Row, Health, LifecycleState
<1>2. at # Absent
    OBVIOUS
<1> QED
    BY <1>1, <1>2 DEF Create, StoreTypeOK

\* A deleted entry leaves the tables well-typed.
LEMMA DeleteType ==
    ASSUME StoreTypeOK, NEW id \in Ids, Delete(id)
    PROVE  StoreTypeOK'
BY DEF Delete, StoreTypeOK, Present

\* SetLifecycle changes one column, to a lifecycle state.
LEMMA SetLifecycleRow ==
    ASSUME StoreTypeOK, NEW id \in Ids, NEW state \in LifecycleState, SetLifecycle(id, state)
    PROVE  /\ entries[id] \in Row
           /\ entries' \in [Ids -> Row \cup {Absent}]
           /\ entries'[id] \in Row
           /\ entries'[id].h.state = state
           /\ entries'[id].h.fails = entries[id].h.fails
           /\ entries'[id].h.probed = entries[id].h.probed
           /\ entries'[id].h.succ = entries[id].h.succ
           /\ \A other \in Ids \ {id} : entries'[other] = entries[other]
<1>1. entries[id] \in Row
    BY DEF SetLifecycle, StoreTypeOK, Present
<1> DEFINE r == [entries[id] EXCEPT !.h.state = state]
<1>2. r \in Row /\ r.h.state = state /\ r.h.fails = entries[id].h.fails
      /\ r.h.probed = entries[id].h.probed /\ r.h.succ = entries[id].h.succ
    BY <1>1 DEF Row, Health
<1>3. entries' = [entries EXCEPT ![id] = r]
    BY DEF SetLifecycle, StoreTypeOK
<1> HIDE DEF r
<1> QED
    BY <1>1, <1>2, <1>3 DEF StoreTypeOK

\* UpdateHealth replaces the health of a present row, and no other row.
LEMMA UpdateHealthRow ==
    ASSUME StoreTypeOK, NEW id \in Ids, NEW h \in Health, UpdateHealth(id, h)
    PROVE  /\ entries' \in [Ids -> Row \cup {Absent}]
           /\ \A other \in Ids : entries'[other] = Absent <=> entries[other] = Absent
           /\ Present(id) => entries'[id].h = h
           /\ \A other \in Ids \ {id} : entries'[other] = entries[other]
<1>1. CASE Present(id)
    <2>1. entries[id] \in Row
        BY <1>1 DEF StoreTypeOK, Present
    <2>2. (IF h.succ = Never THEN entries[id].seen ELSE h.succ) \in Ages
        BY <2>1 DEF Row, Health
    <2> DEFINE r == [h |-> h, seen |-> IF h.succ = Never THEN entries[id].seen ELSE h.succ]
    <2>3. r \in Row /\ r.h = h
        BY <2>2 DEF Row
    <2>4. entries' = [entries EXCEPT ![id] = r]
        BY <1>1 DEF UpdateHealth, StoreTypeOK
    <2> HIDE DEF r
    <2> QED
        BY <1>1, <2>3, <2>4 DEF StoreTypeOK, Present
<1> QED
    BY <1>1 DEF UpdateHealth, StoreTypeOK

\* Time passing ages every present row, and no row appears or disappears.
LEMMA StoreTickRow ==
    ASSUME StoreTypeOK, StoreTick
    PROVE  /\ entries' \in [Ids -> Row \cup {Absent}]
           /\ \A id \in Ids : entries'[id] = Absent <=> entries[id] = Absent
           /\ \A id \in Ids : Present(id) => entries[id] \in Row
                                             /\ entries'[id].h = OlderHealth(entries[id].h)
<1>1. ASSUME NEW id \in Ids, Present(id)
      PROVE  /\ entries[id] \in Row
             /\ [h |-> OlderHealth(entries[id].h), seen |-> Older(entries[id].seen)] \in Row
    <2>1. entries[id] \in Row /\ entries[id].h \in Health /\ entries[id].seen \in Ages
        BY <1>1 DEF StoreTypeOK, Present, Row
    <2> QED
        BY <2>1, OlderType, OlderHealthType DEF Row
<1> QED
    BY <1>1 DEF StoreTick, StoreTypeOK, Present

\* FinishProbe moves a job on, with the result of probeOne as its health.
LEMMA FinishProbeJob ==
    ASSUME TypeOK, NEW w \in Workers, NEW outcome \in Outcome, FinishProbe(w, outcome)
    PROVE  /\ jobs[w] \in Job
           /\ jobs' \in [Workers -> Job \cup {Absent}]
           /\ jobs'[w] \in Job /\ jobs'[w].stage = "writing" /\ jobs'[w].id = jobs[w].id
           /\ jobs'[w].h = ProbeOne(jobs[w].h, AgentTypeOf(w), outcome)
           /\ \A v \in Workers \ {w} : jobs'[v] = jobs[v]
<1>1. jobs[w] \in Job
    BY DEF FinishProbe, Stage, TypeOK
<1>2. ProbeOne(jobs[w].h, AgentTypeOf(w), outcome) \in Health
    BY <1>1, ProbeOneType DEF Job
<1> DEFINE r == [stage |-> "writing", id |-> jobs[w].id,
                    h |-> ProbeOne(jobs[w].h, AgentTypeOf(w), outcome), elapsed |-> 0]
<1>3. r \in Job /\ r.stage = "writing" /\ r.id = jobs[w].id
      /\ r.h = ProbeOne(jobs[w].h, AgentTypeOf(w), outcome)
    BY <1>1, <1>2 DEF Job
<1>4. jobs' = [jobs EXCEPT ![w] = r]
    BY DEF FinishProbe, TypeOK
<1> HIDE DEF r
<1> QED
    BY <1>1, <1>3, <1>4 DEF TypeOK

\* Launch only changes the stage.
LEMMA LaunchJob ==
    ASSUME TypeOK, NEW id \in Ids, Launch(id)
    PROVE  /\ jobs[id] \in Job
           /\ jobs' \in [Workers -> Job \cup {Absent}]
           /\ jobs'[id] \in Job /\ jobs'[id].id = jobs[id].id /\ jobs'[id].h = jobs[id].h
           /\ \A v \in Workers \ {id} : jobs'[v] = jobs[v]
<1>1. id \in Workers /\ jobs[id] \in Job
    BY DEF Launch, FirstInQueue, Stage, TypeOK, Workers
<1> DEFINE r == [jobs[id] EXCEPT !.stage = "probing"]
<1>2. r \in Job /\ r.id = jobs[id].id /\ r.h = jobs[id].h
    BY <1>1 DEF Job
<1>3. jobs' = [jobs EXCEPT ![id] = r]
    BY DEF Launch, TypeOK
<1> HIDE DEF r
<1> QED
    BY <1>1, <1>2, <1>3 DEF TypeOK

\* A listed entry is present, and its job carries a copy of its health.
LEMMA StartCycleJobs ==
    ASSUME TypeOK, StartCycle
    PROVE  /\ jobs' \in [Workers -> Job \cup {Absent}]
           /\ \A w \in Workers :
                 \/ jobs'[w] = jobs[w]
                 \/ /\ w \in Ids /\ Present(w)
                    /\ jobs'[w] # Absent /\ jobs'[w].id = w /\ jobs'[w].h = entries[w].h
<1> PICK batch \in ListForProbing(Interval, Concurrency * BatchFactor) :
        jobs' = [w \in Workers |->
                   IF w \in batch
                   THEN [stage |-> "queued", id |-> w, h |-> entries[w].h, elapsed |-> 0]
                   ELSE jobs[w]]
    BY DEF StartCycle
<1>1. batch \subseteq Ids /\ \A id \in batch : Present(id)
    BY DEF ListForProbing, DueForProbing
<1>2. ASSUME NEW id \in batch
      PROVE  LET j == [stage |-> "queued", id |-> id, h |-> entries[id].h, elapsed |-> 0]
             IN  j \in Job /\ j # Absent
    <2>1. id \in Ids /\ entries[id].h \in Health
        BY <1>1 DEF TypeOK, StoreTypeOK, Present, Row
    <2> QED
        BY <2>1 DEF Job
<1> QED
    BY <1>1, <1>2 DEF TypeOK, Workers

\* An admitted on-demand probe carries a copy of the health of a present entry.
LEMMA ProbeEntryJobs ==
    ASSUME TypeOK, NEW c \in Callers, NEW id \in Ids, ProbeEntry(c, id)
    PROVE  /\ jobs' \in [Workers -> Job \cup {Absent}]
           /\ \A w \in Workers :
                 \/ jobs'[w] = jobs[w]
                 \/ /\ w = c /\ Present(id)
                    /\ jobs'[w] # Absent /\ jobs'[w].id = id /\ jobs'[w].h = entries[id].h
<1>1. CASE Limiter!Admits(id) /\ Present(id)
    <2> DEFINE j == [stage |-> "probing", id |-> id, h |-> entries[id].h, elapsed |-> 0]
    <2>1. entries[id].h \in Health
        BY <1>1 DEF TypeOK, StoreTypeOK, Present, Row
    <2>2. j \in Job /\ j # Absent /\ j.id = id /\ j.h = entries[id].h
        BY <2>1 DEF Job
    <2>3. jobs' = [jobs EXCEPT ![c] = j]
        BY <1>1 DEF ProbeEntry
    <2> HIDE DEF j
    <2> QED
        BY <1>1, <2>2, <2>3 DEF TypeOK, Workers
<1>2. CASE ~(Limiter!Admits(id) /\ Present(id))
    BY <1>2 DEF ProbeEntry, TypeOK
<1> QED
    BY <1>1, <1>2

\* Time passing ages the copies that workers carry.
LEMMA TickJobs ==
    ASSUME TypeOK, Tick
    PROVE  /\ jobs' \in [Workers -> Job \cup {Absent}]
           /\ \A w \in Workers :
                 \/ jobs[w] = Absent /\ jobs'[w] = Absent
                 \/ /\ jobs[w] \in Job /\ jobs'[w].id = jobs[w].id
                    /\ jobs'[w].h = OlderHealth(jobs[w].h)
<1>1. ASSUME NEW w \in Workers, jobs[w] # Absent
      PROVE  /\ jobs[w] \in Job /\ OlderJob(jobs[w]) \in Job
             /\ OlderJob(jobs[w]).id = jobs[w].id
             /\ OlderJob(jobs[w]).h = OlderHealth(jobs[w].h)
    <2>1. jobs[w] \in Job
        BY <1>1 DEF TypeOK
    <2>2. OlderHealth(jobs[w].h) \in Health
        BY <2>1, OlderHealthType DEF Job
    <2>3. (IF jobs[w].stage = "probing" THEN jobs[w].elapsed + 1 ELSE jobs[w].elapsed)
             \in 0 .. Timeout
        BY <1>1, <2>1 DEF Tick, Stage, Job
    <2> QED
        BY <2>1, <2>2, <2>3 DEF Job, OlderJob
<1> QED
    BY <1>1 DEF Tick, TypeOK

\* The rate limiter's part of a step keeps its types.
LEMMA LimiterType ==
    ASSUME Limiter!LimiterTypeOK
    PROVE  /\ Limiter!LimiterTick => Limiter!LimiterTypeOK'
           /\ \A id \in Ids : Limiter!Allow(id) => Limiter!LimiterTypeOK'
           /\ Restart => Limiter!LimiterTypeOK'
<1> USE DEF Limiter!LimiterTypeOK, Limiter!Stamps, Limiter!Never
<1>1. Limiter!LimiterTick => Limiter!LimiterTypeOK'
    BY DEF Limiter!LimiterTick, Limiter!Older
<1>2. ASSUME NEW id \in Ids PROVE Limiter!Allow(id) => Limiter!LimiterTypeOK'
    <2>1. Limiter!Evicted \in [Ids -> Limiter!Stamps]
        BY DEF Limiter!Evicted
    <2> QED
        BY <2>1 DEF Limiter!Allow
<1>3. Restart => Limiter!LimiterTypeOK'
    BY DEF Restart
<1> QED
    BY <1>1, <1>2, <1>3

\* Init satisfies the type invariant.
LEMMA InitType == Init => TypeOK
<1> SUFFICES ASSUME Init PROVE TypeOK
    OBVIOUS
<1>1. cycling \in BOOLEAN /\ tick \in BOOLEAN
    BY Zenon DEF Init
<1>2. /\ StoreTypeOK /\ Limiter!LimiterTypeOK
      /\ jobs \in [Workers -> Job \cup {Absent}] /\ failures \in [Ids -> 0 .. FailCap]
      /\ phase \in 0 .. Interval - 1 /\ faults \in 0 .. MaxFaults
    BY DEF Init, StoreInit, StoreTypeOK, Limiter!LimiterInit, Limiter!LimiterTypeOK,
           Limiter!Stamps, Limiter!Never
<1> QED
    BY <1>1, <1>2 DEF TypeOK

\* Every step preserves the type invariant.
LEMMA NextType == TypeOK /\ [Next]_vars => TypeOK'
<1> SUFFICES ASSUME TypeOK, [Next]_vars PROVE TypeOK'
    OBVIOUS
<1> USE DEF Limiter!LimiterTypeOK
<1>1. ASSUME NEW id \in Ids, NEW at \in AgentType, Register(id, at) PROVE TypeOK'
    BY <1>1, CreateType DEF TypeOK, Register, proberVars
<1>2. ASSUME NEW id \in Ids, DeleteEntry(id) PROVE TypeOK'
    BY <1>2, DeleteType DEF TypeOK, DeleteEntry, proberVars
<1>3. ASSUME NEW id \in Ids, NEW state \in {"deprecated", "active"}, PatchLifecycle(id, state)
      PROVE  TypeOK'
    <2>1. state \in LifecycleState /\ SetLifecycle(id, state) /\ StoreTypeOK
        BY <1>3 DEF PatchLifecycle, LifecycleState, TypeOK
    <2>2. entries' \in [Ids -> Row \cup {Absent}] /\ entries[id] # Absent
          /\ \A other \in Ids \ {id} : entries'[other] = entries[other]
        BY <2>1, SetLifecycleRow DEF SetLifecycle, Present
    <2> QED
        BY <1>3, <2>2 DEF TypeOK, StoreTypeOK, PatchLifecycle, proberVars
<1>4. ASSUME NEW c \in Callers, NEW id \in Ids, ProbeEntry(c, id) PROVE TypeOK'
    <2>1. Limiter!LimiterTypeOK'
        BY <1>4, LimiterType DEF TypeOK, ProbeEntry
    <2> QED
        BY <1>4, <2>1, ProbeEntryJobs DEF TypeOK, StoreTypeOK, ProbeEntry
<1>5. ASSUME NEW c \in Callers, CancelRequest(c) PROVE TypeOK'
    BY <1>5 DEF TypeOK, StoreTypeOK, CancelRequest
<1>6. ASSUME StartCycle PROVE TypeOK'
    BY <1>6, StartCycleJobs DEF TypeOK, StoreTypeOK, StartCycle
<1>7. ASSUME ListFails PROVE TypeOK'
    <2>1. tick' \in BOOLEAN
        BY <1>7, Zenon DEF ListFails
    <2>2. faults' \in 0 .. MaxFaults
        BY <1>7 DEF TypeOK, ListFails
    <2>3. UNCHANGED <<entries, agentTypes, jobs, cycling, phase, lastCall, lastCleanup, failures>>
        BY <1>7, Zenon DEF ListFails
    <2> QED
        BY <2>1, <2>2, <2>3 DEF TypeOK, StoreTypeOK
<1>8. ASSUME NEW id \in Ids, Launch(id) PROVE TypeOK'
    BY <1>8, LaunchJob DEF TypeOK, StoreTypeOK, Launch
<1>9. ASSUME NEW w \in Workers, NEW outcome \in Outcome, FinishProbe(w, outcome) PROVE TypeOK'
    <2>1. jobs[w] \in Job /\ jobs' \in [Workers -> Job \cup {Absent}]
        BY <1>9, FinishProbeJob
    <2>2. failures' \in [Ids -> 0 .. FailCap]
        BY <1>9, <2>1 DEF FinishProbe, CountUp, TypeOK, Job
    <2> QED
        BY <1>9, <2>1, <2>2 DEF TypeOK, StoreTypeOK, FinishProbe
<1>10. ASSUME NEW w \in Workers, WriteResult(w) PROVE TypeOK'
    <2>1. jobs[w] \in Job /\ StoreTypeOK
        BY <1>10 DEF WriteResult, Stage, TypeOK
    <2>2. jobs[w].id \in Ids /\ jobs[w].h \in Health
        BY <2>1 DEF Job
    <2>3. /\ entries' \in [Ids -> Row \cup {Absent}]
          /\ \A other \in Ids : entries'[other] = Absent <=> entries[other] = Absent
        BY <1>10, <2>1, <2>2, UpdateHealthRow DEF WriteResult
    <2> QED
        BY <1>10, <2>3 DEF TypeOK, StoreTypeOK, WriteResult
<1>11. ASSUME NEW w \in Workers, WriteFails(w) PROVE TypeOK'
    BY <1>11 DEF TypeOK, StoreTypeOK, WriteFails
<1>12. ASSUME EndCycle PROVE TypeOK'
    BY <1>12 DEF TypeOK, StoreTypeOK, EndCycle
<1>13. ASSUME Restart PROVE TypeOK'
    <2>1. Limiter!LimiterTypeOK'
        BY <1>13, LimiterType DEF TypeOK
    <2>2. tick' \in BOOLEAN /\ cycling' \in BOOLEAN /\ UNCHANGED <<entries, agentTypes, failures>>
        BY <1>13, Zenon DEF Restart
    <2>3. /\ jobs' \in [Workers -> Job \cup {Absent}]
          /\ phase' \in 0 .. Interval - 1 /\ faults' \in 0 .. MaxFaults
        BY <1>13 DEF TypeOK, Restart
    <2> QED
        BY <2>1, <2>2, <2>3 DEF TypeOK, StoreTypeOK
<1>14. ASSUME Tick PROVE TypeOK'
    <2>1. Limiter!LimiterTypeOK'
        BY <1>14, LimiterType DEF TypeOK, Tick
    <2>2. StoreTypeOK'
        BY <1>14, StoreTickRow DEF TypeOK, StoreTypeOK, Tick, StoreTick
    <2>3. phase' \in 0 .. Interval - 1
        BY <1>14 DEF TypeOK, Tick
    <2>4. tick' \in BOOLEAN
        BY <1>14, Zenon DEF Tick
    <2> QED
        BY <1>14, <2>1, <2>2, <2>3, <2>4, TickJobs DEF TypeOK, Tick
<1>15. ASSUME UNCHANGED vars PROVE TypeOK'
    BY <1>15 DEF vars, TypeOK, StoreTypeOK
<1> QED
    BY <1>1, <1>2, <1>3, <1>4, <1>5, <1>6, <1>7, <1>8, <1>9, <1>10, <1>11, <1>12, <1>13,
       <1>14, <1>15
    DEF Next, WorkerStep, Fault, ApiStep

\* HealthProber is type-correct.
THEOREM TypeCorrect == Spec => []TypeOK
BY InitType, NextType, PTL DEF Spec
-----------------------------------------------------------------------------
(* Coherence of a copy under what is done to it *)

\* ... when time passes;
LEMMA CoherentOlder ==
    ASSUME NEW at, NEW h \in Health, Coherent(at, h)
    PROVE  Coherent(at, OlderHealth(h))
<1>1. h.probed \in Stamps /\ h.succ \in Stamps
    BY DEF Health
<1> QED
    BY <1>1, OlderType, OlderHealthType DEF Coherent

\* ... when an administrator sets the state;
LEMMA CoherentPatched ==
    ASSUME NEW at, NEW h \in Health, NEW g \in Health, Coherent(at, h),
           g.state \in {"deprecated", "active"},
           g.fails = h.fails, g.probed = h.probed, g.succ = h.succ
    PROVE  Coherent(at, g)
BY DEF Coherent

\* ... and when it is probed, which adds at most the one failure that was counted.
LEMMA CoherentProbed ==
    ASSUME NEW at, NEW h \in Health, NEW outcome \in Outcome, Coherent(at, h),
           NEW f \in 0 .. FailCap, h.fails <= f
    PROVE  /\ Coherent(at, ProbeOne(h, at, outcome))
           /\ ProbeOne(h, at, outcome).fails <= IF Failed(h, at, outcome) THEN CountUp(f) ELSE f
<1>1. h.fails \in 0 .. FailCap /\ h.probed \in Stamps /\ h.succ \in Stamps
    BY DEF Health
<1>2. CASE h.state = "deprecated"
    BY <1>1, <1>2 DEF ProbeOne, Failed, NoRequest
<1>3. CASE h.state # "deprecated" /\ at.endpoint = NoEndpoint
    <2>1. ProbeOne(h, at, outcome) = NoURLHealth(h) /\ Failed(h, at, outcome)
        BY <1>3 DEF ProbeOne, Failed, NoRequest
    <2> QED
        BY <1>1, <1>3, <2>1 DEF NoURLHealth, Coherent, CountUp
<1>4. CASE ~NoRequest(h, at) /\ outcome = "fail"
    <2>1. ProbeOne(h, at, outcome) = FailureHealth(h) /\ Failed(h, at, outcome)
        BY <1>4 DEF ProbeOne, Failed, NoRequest
    <2> QED
        BY <1>1, <2>1 DEF FailureHealth, Coherent, CountUp
<1>5. CASE ~NoRequest(h, at) /\ outcome # "fail"
    <2>1. ProbeOne(h, at, outcome) = SuccessHealth(outcome = "slow") /\ ~Failed(h, at, outcome)
        BY <1>5 DEF ProbeOne, Failed, NoRequest
    <2> QED
        BY <1>1, <2>1 DEF SuccessHealth, Coherent
<1> QED
    BY <1>2, <1>3, <1>4, <1>5 DEF NoRequest

\* A new row.
LEMMA CoherentNew == \A at : Coherent(at, NewHealth)
BY DEF Coherent, NewHealth
-----------------------------------------------------------------------------
(* The inductive invariant *)

\* What IInv says of one copy.
Good(id, h) ==
    /\ agentTypes[id] # Absent
    /\ h \in Health /\ Coherent(agentTypes[id], h) /\ h.fails <= failures[id]

RowsGood == \A id \in Ids : Present(id) => Good(id, entries[id].h)

JobsGood == \A w \in Workers : jobs[w] # Absent => Good(jobs[w].id, jobs[w].h)

\* IInv is TypeOK and Good of every row and of every copy in flight.
LEMMA IInvIsGood == IInv <=> TypeOK /\ RowsGood /\ JobsGood
<1>1. TypeOK => \A id \in Ids : Present(id) => entries[id].h \in Health /\ agentTypes[id] # Absent
    BY DEF TypeOK, StoreTypeOK, Present, Row
<1>2. TypeOK => \A w \in Workers : jobs[w] # Absent => jobs[w].h \in Health
    BY DEF TypeOK, Job
<1> QED
    BY <1>1, <1>2
    DEF IInv, JobsUsed, HealthCoherent, FailuresBacked, RowsGood, JobsGood, Good, AgentTypeOf

\* Init satisfies the invariant: there is no copy.
LEMMA InitIInv == Init => IInv
<1> SUFFICES ASSUME Init PROVE IInv
    OBVIOUS
<1>1. TypeOK
    BY InitType
<1>2. \A id \in Ids : ~Present(id)
    BY DEF Init, StoreInit, Present
<1>3. \A w \in Workers : jobs[w] = Absent
    BY DEF Init
<1> QED
    BY <1>1, <1>2, <1>3, IInvIsGood DEF RowsGood, JobsGood

\* Every step preserves it.
LEMMA NextIInv == IInv /\ [Next]_vars => IInv'
<1> SUFFICES ASSUME IInv, [Next]_vars PROVE IInv'
    OBVIOUS
<1>0. TypeOK /\ TypeOK'
    BY NextType DEF IInv
<1> USE DEF RowsGood, JobsGood
<1>a. RowsGood
    BY IInvIsGood
<1>b. JobsGood
    BY IInvIsGood
<1>c. \A w \in Workers : jobs[w] # Absent => jobs[w] \in Job /\ jobs[w].id \in Ids
    BY <1>0 DEF TypeOK, Job
<1>d. SUFFICES RowsGood' /\ JobsGood'
    BY <1>0, <1>d, IInvIsGood, PTL
<1>1. ASSUME NEW id \in Ids, NEW at \in AgentType, Register(id, at) PROVE RowsGood' /\ JobsGood'
    <2>1. /\ agentTypes[id] = Absent /\ agentTypes'[id] = at /\ at # Absent
          /\ \A k \in Ids \ {id} : agentTypes'[k] = agentTypes[k] /\ entries'[k] = entries[k]
          /\ entries'[id].h = NewHealth /\ failures' = failures /\ jobs' = jobs
        BY <1>0, <1>1 DEF Register, Create, TypeOK, StoreTypeOK, proberVars
    <2>2. NewHealth \in Health /\ NewHealth.fails <= failures[id]
        BY <1>0 DEF NewHealth, Health, LifecycleState, TypeOK
    <2>3. RowsGood'
        BY <1>a, <2>1, <2>2, CoherentNew DEF Good, Present
    <2>4. JobsGood'
        BY <1>b, <1>c, <2>1 DEF Good
    <2> QED
        BY <2>3, <2>4
<1>2. ASSUME NEW id \in Ids, DeleteEntry(id) PROVE RowsGood' /\ JobsGood'
    BY <1>0, <1>2, <1>a, <1>b
    DEF DeleteEntry, Delete, Present, Good, TypeOK, StoreTypeOK, proberVars
<1>3. ASSUME NEW id \in Ids, NEW state \in {"deprecated", "active"}, PatchLifecycle(id, state)
      PROVE  RowsGood' /\ JobsGood'
    <2>1. /\ StoreTypeOK /\ state \in LifecycleState /\ SetLifecycle(id, state) /\ Present(id)
          /\ UNCHANGED <<agentTypes, jobs, failures>>
        BY <1>0, <1>3 DEF PatchLifecycle, SetLifecycle, LifecycleState, TypeOK, proberVars
    <2>2. Good(id, entries[id].h)
        BY <1>a, <2>1
    <2>3. entries[id].h \in Health /\ entries'[id].h \in Health
        BY <2>1, SetLifecycleRow DEF Row
    <2>4. Coherent(agentTypes[id], entries'[id].h) /\ entries'[id].h.fails = entries[id].h.fails
        BY <2>1, <2>2, <2>3, SetLifecycleRow, CoherentPatched DEF Good
    <2>5. Good(id, entries[id].h)'
        BY <2>1, <2>2, <2>3, <2>4 DEF Good
    <2> QED
        BY <1>a, <1>b, <2>1, <2>5, SetLifecycleRow DEF Good, Present
<1>4. ASSUME NEW c \in Callers, NEW id \in Ids, ProbeEntry(c, id) PROVE RowsGood' /\ JobsGood'
    <2>1. UNCHANGED <<entries, agentTypes, failures>>
        BY <1>4 DEF ProbeEntry
    <2> QED
        BY <1>0, <1>4, <1>a, <1>b, <2>1, ProbeEntryJobs DEF Good, Present
<1>5. ASSUME NEW c \in Callers, CancelRequest(c) PROVE RowsGood' /\ JobsGood'
    BY <1>0, <1>5, <1>a, <1>b DEF CancelRequest, Good, Present, TypeOK
<1>6. ASSUME StartCycle PROVE RowsGood' /\ JobsGood'
    <2>1. UNCHANGED <<entries, agentTypes, failures>>
        BY <1>6 DEF StartCycle
    <2> QED
        BY <1>0, <1>6, <1>a, <1>b, <2>1, StartCycleJobs DEF Good, Present
<1>7. ASSUME ListFails PROVE RowsGood' /\ JobsGood'
    BY <1>7, <1>a, <1>b DEF ListFails, Good, Present
<1>8. ASSUME NEW id \in Ids, Launch(id) PROVE RowsGood' /\ JobsGood'
    <2>1. UNCHANGED <<entries, agentTypes, failures>> /\ jobs[id] # Absent /\ id \in Workers
        BY <1>8 DEF Launch, FirstInQueue, Stage, Workers
    <2> QED
        BY <1>0, <1>8, <1>a, <1>b, <2>1, LaunchJob DEF Good, Present
<1>9. ASSUME NEW w \in Workers, NEW outcome \in Outcome, FinishProbe(w, outcome)
      PROVE  RowsGood' /\ JobsGood'
    <2> DEFINE i == jobs[w].id
               r == ProbeOne(jobs[w].h, agentTypes[i], outcome)
               failed == Failed(jobs[w].h, agentTypes[i], outcome)
    <2>1. UNCHANGED <<entries, agentTypes>> /\ jobs[w] # Absent
        BY <1>9 DEF FinishProbe, Stage
    <2>2. i \in Ids /\ Good(i, jobs[w].h) /\ failures \in [Ids -> 0 .. FailCap]
        BY <1>0, <1>b, <1>c, <2>1 DEF TypeOK
    <2>3. failures' = IF failed THEN [failures EXCEPT ![i] = CountUp(@)] ELSE failures
        BY <1>9 DEF FinishProbe, AgentTypeOf
    <2>4. \A k \in Ids : failures[k] <= failures'[k] /\ failures'[k] \in 0 .. FailCap
        BY <2>2, <2>3 DEF CountUp
    <2>5. Coherent(agentTypes[i], r) /\ r.fails <= failures'[i]
        <3>1. /\ Coherent(agentTypes[i], r)
              /\ r.fails <= IF failed THEN CountUp(failures[i]) ELSE failures[i]
            BY <2>2, CoherentProbed DEF Good
        <3> HIDE DEF r, failed, i
        <3>2. failures'[i] = IF failed THEN CountUp(failures[i]) ELSE failures[i]
            BY <2>2, <2>3
        <3> QED
            BY <3>1, <3>2
    <2>6. r \in Health
        BY <2>2, ProbeOneType DEF Good
    <2>7. jobs'[w].id = i /\ jobs'[w].h = r /\ \A v \in Workers \ {w} : jobs'[v] = jobs[v]
        BY <1>0, <1>9, FinishProbeJob DEF AgentTypeOf
    <2> HIDE DEF r, failed
    <2>8. ASSUME NEW k \in Ids, NEW h, Good(k, h)
          PROVE  agentTypes'[k] # Absent /\ h \in Health /\ Coherent(agentTypes'[k], h)
                 /\ h.fails <= failures'[k]
        BY <2>1, <2>2, <2>4, <2>8 DEF Good, Health
    <2>9. RowsGood'
        BY <1>a, <2>1, <2>8 DEF Good, Present
    <2>10. JobsGood'
        <3> SUFFICES ASSUME NEW v \in Workers, jobs'[v] # Absent PROVE Good(jobs[v].id, jobs[v].h)'
            OBVIOUS
        <3>1. CASE v = w
            BY <2>1, <2>2, <2>5, <2>6, <2>7, <3>1 DEF Good
        <3>2. CASE v # w
            BY <1>b, <1>c, <2>7, <2>8, <3>2 DEF Good
        <3> QED
            BY <3>1, <3>2
    <2> QED
        BY <2>9, <2>10
<1>10. ASSUME NEW w \in Workers, WriteResult(w) PROVE RowsGood' /\ JobsGood'
    <2>1. /\ jobs[w] # Absent /\ UpdateHealth(jobs[w].id, jobs[w].h)
          /\ UNCHANGED <<agentTypes, failures>>
        BY <1>10 DEF WriteResult, Stage
    <2>2. StoreTypeOK /\ jobs[w].id \in Ids /\ jobs[w].h \in Health /\ Good(jobs[w].id, jobs[w].h)
        BY <1>0, <1>b, <1>c, <2>1 DEF TypeOK, Good
    <2>3. /\ \A k \in Ids : entries'[k] = Absent <=> entries[k] = Absent
          /\ Present(jobs[w].id) => entries'[jobs[w].id].h = jobs[w].h
          /\ \A k \in Ids \ {jobs[w].id} : entries'[k] = entries[k]
        BY <2>1, <2>2, UpdateHealthRow
    <2>4. RowsGood'
        BY <1>a, <2>1, <2>2, <2>3 DEF Good, Present
    <2>5. JobsGood'
        BY <1>0, <1>10, <1>b, <2>1 DEF WriteResult, Good, TypeOK
    <2> QED
        BY <2>4, <2>5
<1>11. ASSUME NEW w \in Workers, WriteFails(w) PROVE RowsGood' /\ JobsGood'
    BY <1>0, <1>11, <1>a, <1>b DEF WriteFails, Good, Present, TypeOK
<1>12. ASSUME EndCycle PROVE RowsGood' /\ JobsGood'
    BY <1>12, <1>a, <1>b DEF EndCycle, Good, Present
<1>13. ASSUME Restart PROVE RowsGood' /\ JobsGood'
    BY <1>13, <1>a DEF Restart, Good, Present
<1>14. ASSUME Tick PROVE RowsGood' /\ JobsGood'
    <2>1. StoreTypeOK /\ StoreTick /\ UNCHANGED <<agentTypes, failures>>
        BY <1>0, <1>14 DEF Tick, StoreTick, TypeOK
    <2>2. ASSUME NEW k, NEW h, Good(k, h)
          PROVE  /\ OlderHealth(h) \in Health /\ Coherent(agentTypes[k], OlderHealth(h))
                 /\ OlderHealth(h).fails <= failures[k]
        BY <2>2, OlderHealthType, CoherentOlder DEF Good
    <2>3. RowsGood'
        <3> SUFFICES ASSUME NEW id \in Ids, Present(id)' PROVE Good(id, entries[id].h)'
            OBVIOUS
        <3>1. Present(id) /\ entries'[id].h = OlderHealth(entries[id].h)
            BY <2>1, StoreTickRow DEF Present
        <3>2. Good(id, entries[id].h)
            BY <3>1, <1>a
        <3> QED
            BY <2>1, <2>2, <3>1, <3>2 DEF Good
    <2>4. JobsGood'
        <3> SUFFICES ASSUME NEW w \in Workers, jobs'[w] # Absent PROVE Good(jobs[w].id, jobs[w].h)'
            OBVIOUS
        <3>1. /\ jobs[w] # Absent /\ jobs'[w].id = jobs[w].id
              /\ jobs'[w].h = OlderHealth(jobs[w].h)
            BY <1>0, <1>14, TickJobs
        <3>2. Good(jobs[w].id, jobs[w].h)
            BY <3>1, <1>b
        <3> QED
            BY <2>1, <2>2, <3>1, <3>2 DEF Good
    <2> QED
        BY <2>3, <2>4
<1>15. ASSUME UNCHANGED vars PROVE RowsGood' /\ JobsGood'
    BY <1>15, <1>a, <1>b DEF vars, Good, Present
<1> QED
    BY <1>1, <1>2, <1>3, <1>4, <1>5, <1>6, <1>7, <1>8, <1>9, <1>10, <1>11, <1>12, <1>13,
       <1>14, <1>15
    DEF Next, WorkerStep, Fault, ApiStep

\* The invariant holds of every behaviour.
THEOREM Invariance == Spec => []IInv
BY InitIInv, NextIInv, PTL DEF Spec

\* The health columns of every row fit together, for every threshold and any number of
\* probes, cancellations, failed writes and restarts racing with the lifecycle API.
THEOREM HealthCoherentHolds == Spec => []HealthCoherent
<1>1. IInv => HealthCoherent
    BY DEF IInv
<1> QED
    BY <1>1, Invariance, PTL

\* No entry with an endpoint is shown offline before Threshold probes of it failed.
THEOREM OfflineEarnedHolds == Spec => []OfflineEarned
<1>1. IInv => OfflineEarned
    <2> SUFFICES ASSUME IInv, NEW id \in Ids, Present(id), entries[id].h.state = "offline",
                        agentTypes[id].endpoint # NoEndpoint
                 PROVE  failures[id] >= Threshold
        BY DEF OfflineEarned
    <2>1. entries[id].h.fails >= Threshold /\ entries[id].h.fails <= failures[id]
        BY DEF IInv, HealthCoherent, Coherent, FailuresBacked
    <2>2. entries[id].h.fails \in 0 .. FailCap /\ failures[id] \in 0 .. FailCap
        BY DEF IInv, TypeOK, StoreTypeOK, Present, Row, Health
    <2> QED
        BY <2>1, <2>2
<1> QED
    BY <1>1, Invariance, PTL
-----------------------------------------------------------------------------
(* Refinement of EntryLifecycle *)

\* No result waiting to be written says registered.
NoneRegisters == \A w \in Workers : Stage(w, "writing") => jobs[w].h.state # "registered"

\* probeOne never returns a registered health.
LEMMA ProbeOneMoves ==
    ASSUME NEW h \in Health, NEW at, NEW outcome \in Outcome
    PROVE  ProbeOne(h, at, outcome).state # "registered"
BY DEF ProbeOne, NoRequest, NoURLHealth, FailureHealth, SuccessHealth

\* NoneRegisters is inductive, given the types.
LEMMA NextNoneRegisters == TypeOK /\ NoneRegisters /\ [Next]_vars => NoneRegisters'
<1> SUFFICES ASSUME TypeOK, NoneRegisters, [Next]_vars PROVE NoneRegisters'
    OBVIOUS
<1> USE DEF NoneRegisters, Stage
<1>1. ASSUME NEW w \in Workers, NEW outcome \in Outcome, FinishProbe(w, outcome)
      PROVE  NoneRegisters'
    <2>1. jobs[w].h \in Health
        BY <1>1, FinishProbeJob DEF Job
    <2> QED
        BY <1>1, <2>1, FinishProbeJob, ProbeOneMoves
<1>2. ASSUME NEW id \in Ids, Launch(id) PROVE NoneRegisters'
    <2>1. jobs' = [jobs EXCEPT ![id].stage = "probing"] /\ jobs[id] \in Job
        BY <1>2, LaunchJob DEF Launch
    <2>2. jobs'[id].stage = "probing" /\ \A v \in Workers \ {id} : jobs'[v] = jobs[v]
        BY <1>2, <2>1, LaunchJob DEF TypeOK, Job, Workers
    <2> QED
        BY <2>2
<1>3. ASSUME StartCycle PROVE NoneRegisters'
    BY <1>3 DEF StartCycle
<1>4. ASSUME NEW c \in Callers, NEW id \in Ids, ProbeEntry(c, id) PROVE NoneRegisters'
    BY <1>4 DEF ProbeEntry, TypeOK
<1>5. ASSUME NEW w \in Workers, CancelRequest(w) \/ WriteResult(w) \/ WriteFails(w)
      PROVE  NoneRegisters'
    BY <1>5 DEF CancelRequest, WriteResult, WriteFails, TypeOK
<1>6. ASSUME Tick PROVE NoneRegisters'
    <2> SUFFICES ASSUME NEW w \in Workers, jobs'[w] # Absent, jobs'[w].stage = "writing"
                 PROVE  jobs'[w].h.state # "registered"
        OBVIOUS
    <2>1. jobs[w] \in Job /\ jobs'[w] = OlderJob(jobs[w])
        BY <1>6 DEF Tick, TypeOK
    <2>2. jobs[w] # Absent /\ jobs[w].stage = "writing" /\ jobs'[w].h = OlderHealth(jobs[w].h)
        BY <2>1 DEF OlderJob, Job
    <2> QED
        BY <2>1, <2>2 DEF OlderHealth
<1>7. ASSUME Restart PROVE NoneRegisters'
    BY <1>7 DEF Restart
<1>8. ASSUME UNCHANGED jobs PROVE NoneRegisters'
    BY <1>8
<1> QED
    BY <1>1, <1>2, <1>3, <1>4, <1>5, <1>6, <1>7, <1>8
    DEF Next, WorkerStep, Fault, ApiStep, Register, DeleteEntry, PatchLifecycle, ListFails,
        EndCycle, proberVars, vars, Workers

LifeMap == [id \in Ids |-> LifeOf(id)]

\* Every step of HealthProber is a step of EntryLifecycle or leaves it unchanged.
LEMMA StepRefines ==
    TypeOK /\ TypeOK' /\ NoneRegisters /\ [Next]_vars => [Lifecycle!Next]_LifeMap
<1> SUFFICES ASSUME TypeOK, TypeOK', NoneRegisters, [Next]_vars
             PROVE  Lifecycle!Next \/ LifeMap' = LifeMap
    OBVIOUS
<1> USE DEF LifeMap
<1>0. \A id \in Ids : Present(id) => /\ agentTypes[id] # Absent
                                     /\ entries[id].h.state \in LifecycleState
    BY DEF TypeOK, StoreTypeOK, Present, Row, Health
<1>1. ASSUME UNCHANGED <<entries, agentTypes>> PROVE LifeMap' = LifeMap
    BY <1>1 DEF LifeOf
<1>2. ASSUME NEW id \in Ids, NEW at \in AgentType, Register(id, at) PROVE Lifecycle!Next
    <2>1. /\ agentTypes[id] = Absent /\ agentTypes'[id] # Absent
          /\ entries'[id] # Absent /\ entries'[id].h.state = "registered"
          /\ \A k \in Ids \ {id} : agentTypes'[k] = agentTypes[k] /\ entries'[k] = entries[k]
        <3>1. [h |-> NewHealth, seen |-> 0] \in Row
            BY DEF NewHealth, Row, Health, LifecycleState
        <3> QED
            BY <1>2, <3>1 DEF Register, Create, TypeOK, StoreTypeOK, NewHealth
    <2>2. LifeMap[id] = "unused" /\ LifeMap' = [LifeMap EXCEPT ![id] = "registered"]
        BY <2>1 DEF LifeOf
    <2> QED
        BY <2>2 DEF Lifecycle!Next, Lifecycle!Register
<1>3. ASSUME NEW id \in Ids, DeleteEntry(id) PROVE Lifecycle!Next
    <2>1. /\ Present(id) /\ entries'[id] = Absent /\ agentTypes' = agentTypes
          /\ \A k \in Ids \ {id} : entries'[k] = entries[k]
        BY <1>3 DEF DeleteEntry, Delete, TypeOK, StoreTypeOK
    <2>2. LifeMap[id] \in Lifecycle!States /\ LifeMap' = [LifeMap EXCEPT ![id] = "gone"]
        BY <1>0, <2>1 DEF LifeOf, Present, Lifecycle!States, LifecycleState
    <2> QED
        BY <2>2 DEF Lifecycle!Next, Lifecycle!Remove
<1>4. ASSUME NEW id \in Ids, NEW state \in {"deprecated", "active"}, PatchLifecycle(id, state)
      PROVE  Lifecycle!Next
    <2>1. /\ StoreTypeOK /\ state \in LifecycleState /\ SetLifecycle(id, state) /\ Present(id)
          /\ agentTypes' = agentTypes
        BY <1>4 DEF PatchLifecycle, SetLifecycle, LifecycleState, TypeOK
    <2>2. /\ entries'[id] # Absent /\ entries'[id].h.state = state
          /\ \A k \in Ids \ {id} : entries'[k] = entries[k]
        BY <2>1, SetLifecycleRow
    <2>3. LifeMap[id] \in Lifecycle!States /\ LifeMap' = [LifeMap EXCEPT ![id] = state]
        BY <1>0, <2>1, <2>2 DEF LifeOf, Present, Lifecycle!States, LifecycleState
    <2> QED
        BY <2>3 DEF Lifecycle!Next, Lifecycle!Administer
<1>5. ASSUME NEW w \in Workers, WriteResult(w) PROVE Lifecycle!Next \/ LifeMap' = LifeMap
    <2> DEFINE i == jobs[w].id
               s == jobs[w].h.state
    <2>1. /\ StoreTypeOK /\ jobs[w] \in Job /\ UpdateHealth(i, jobs[w].h)
          /\ agentTypes' = agentTypes /\ s # "registered"
        BY <1>5 DEF WriteResult, Stage, TypeOK, NoneRegisters
    <2>2. i \in Ids /\ jobs[w].h \in Health /\ s \in LifecycleState
        BY <2>1 DEF Job, Health
    <2>3. CASE ~Present(i)
        BY <2>1, <2>3, <1>1 DEF UpdateHealth
    <2>4. CASE Present(i)
        <3>1. /\ entries'[i] # Absent /\ entries'[i].h.state = s
              /\ \A k \in Ids \ {i} : entries'[k] = entries[k]
            BY <2>1, <2>2, <2>4, UpdateHealthRow DEF Present
        <3>2. LifeMap[i] \in Lifecycle!States /\ LifeMap' = [LifeMap EXCEPT ![i] = s]
            BY <1>0, <2>1, <2>2, <2>4, <3>1 DEF LifeOf, Present, Lifecycle!States, LifecycleState
        <3>3. s \in {"active", "degraded", "offline"} \/ s \in {"active", "deprecated"}
            BY <2>1, <2>2 DEF LifecycleState
        <3> HIDE DEF s, i
        <3> QED
            BY <2>2, <3>2, <3>3 DEF Lifecycle!Next, Lifecycle!Report, Lifecycle!Administer
    <2> QED
        BY <2>3, <2>4
<1>6. ASSUME Tick PROVE LifeMap' = LifeMap
    <2>1. agentTypes' = agentTypes /\ StoreTick /\ StoreTypeOK
        BY <1>6 DEF Tick, StoreTick, TypeOK
    <2>2. ASSUME NEW id \in Ids
          PROVE  /\ entries'[id] = Absent <=> entries[id] = Absent
                 /\ Present(id) => entries'[id].h.state = entries[id].h.state
        <3>1. Present(id) => entries[id].h \in Health
            BY <2>1, StoreTickRow DEF Row
        <3> QED
            BY <2>1, <3>1, StoreTickRow, OlderHealthType DEF Present
    <2> QED
        BY <2>1, <2>2 DEF LifeOf, Present
<1> QED
    BY <1>1, <1>2, <1>3, <1>4, <1>5, <1>6
    DEF Next, WorkerStep, Fault, ApiStep, ProbeEntry, CancelRequest, StartCycle, ListFails,
        Launch, FinishProbe, WriteFails, EndCycle, Restart, vars

\* Probing and administration implement EntryLifecycle: entries are registered once,
\* never become registered again, and deleted ones are not brought back by late results.
THEOREM LifecycleImplemented == Spec => ImplementsLifecycle
<1>1. Init => Lifecycle!Init /\ NoneRegisters
    BY DEF Init, StoreInit, Lifecycle!Init, LifeOf, NoneRegisters, Stage
<1>2. Spec => []NoneRegisters
    BY <1>1, NextNoneRegisters, TypeCorrect, PTL DEF Spec
<1> QED
    BY <1>1, <1>2, TypeCorrect, StepRefines, PTL DEF Spec, ImplementsLifecycle, Lifecycle!Spec, LifeMap
=============================================================================
