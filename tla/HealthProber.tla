---------------------------- MODULE HealthProber ----------------------------
(***************************************************************************)
(* Health probing of catalog entries: the periodic worker and the          *)
(* on-demand probe of plugins/health, the endpoints of                     *)
(* internal/api/health_handlers.go, and the rows of CatalogStore they all  *)
(* read and write without a lock.                                          *)
(*                                                                         *)
(* A probe works on a copy of the row that it read earlier, takes up to    *)
(* Timeout, and then overwrites the row's health columns.  Between the     *)
(* read and the write, administrators may deprecate, restore or delete the *)
(* entry, and another probe of it may start and end.                       *)
(*                                                                         *)
(* Workers: the periodic worker probes entry id in a goroutine that is     *)
(* named here by the id itself, since checkAll waits for all goroutines of *)
(* a cycle and a cycle lists an entry once; an HTTP request for an         *)
(* on-demand probe is named by its caller.                                 *)
(***************************************************************************)
EXTENDS CatalogStore

CONSTANTS
    Callers,       \* concurrent POST /catalog/{id}/probe requests
    Interval,      \* health_check.interval, in clock units
    Timeout,       \* health_check.timeout, in clock units
    Concurrency,   \* health_check.concurrency (New turns 0 and less into 1)
    BatchFactor,   \* a cycle lists at most Concurrency * BatchFactor entries (4)
    Threshold,     \* health_check.failure_threshold (not validated, may be 0)
    Window,        \* the window of the on-demand rate limiter
    Prompt,        \* TRUE: time passes only while every worker waits
    MaxFaults      \* bound on store failures and process restarts

ASSUME ProberAssumption ==
    /\ Interval \in 1 .. MaxAge - 1
    /\ Timeout \in Nat
    /\ Concurrency \in Nat \ {0}
    /\ BatchFactor \in Nat \ {0}
    /\ Threshold \in 0 .. FailCap
    /\ Window \in 1 .. MaxAge
    /\ Prompt \in BOOLEAN
    /\ MaxFaults \in Nat
    /\ Ids \cap Callers = {}

VARIABLES
    jobs,          \* per worker: the probe it is carrying out
    cycling,       \* checkAll is running
    tick,          \* ticker.C holds a tick (its buffer has room for one)
    phase,         \* clock units since the ticker last fired
    lastCall, lastCleanup,   \* the rate limiter
    failures,      \* history: failed probes of each entry, up to FailCap
    faults         \* store failures and restarts so far

proberVars == <<jobs, cycling, tick, phase>>

vars == <<entries, agentTypes, jobs, cycling, tick, phase, lastCall, lastCleanup,
          failures, faults>>

Limiter == INSTANCE ProbeRateLimiter

Workers == Ids \cup Callers

\* queued: listed by checkAll, waiting for a slot of the semaphore, with the
\* listed copy of the health; probing: probeOne is running on that copy;
\* writing: probeOne returned h, UpdateHealth has not run yet.
Job == [stage : {"queued", "probing", "writing"}, id : Ids, h : Health,
        elapsed : 0 .. Timeout]

ASSUME JobAssumption == Absent \notin Job

Stage(w, s) == jobs[w] # Absent /\ jobs[w].stage = s

\* The agent type read along with the copy: neither probes nor the catalog API
\* change one that exists, and discovery never changes its endpoint.
AgentTypeOf(w) == agentTypes[jobs[w].id]

CycleJobs == {id \in Ids : jobs[id] # Absent}

Launched == {id \in Ids : Stage(id, "probing") \/ Stage(id, "writing")}

\* A queued entry whose turn it is: goroutines are started in list order.
FirstInQueue(id) ==
    /\ Stage(id, "queued")
    /\ \A other \in Ids : Stage(other, "queued") =>
          ProbedNoLaterThan(jobs[id].h, jobs[other].h)

TypeOK ==
    /\ StoreTypeOK
    /\ jobs \in [Workers -> Job \cup {Absent}]
    /\ cycling \in BOOLEAN
    /\ tick \in BOOLEAN
    /\ phase \in 0 .. Interval - 1
    /\ Limiter!LimiterTypeOK
    /\ failures \in [Ids -> 0 .. FailCap]
    /\ faults \in 0 .. MaxFaults

Init ==
    /\ StoreInit
    /\ jobs = [w \in Workers |-> Absent]
    /\ cycling = FALSE
    /\ tick = FALSE
    /\ phase = 0
    /\ Limiter!LimiterInit
    /\ failures = [id \in Ids |-> 0]
    /\ faults = 0
-----------------------------------------------------------------------------
(* probeOne: what a probe makes of the health it was given *)

CountUp(n) == IF n < FailCap THEN n + 1 ELSE n

SuccessHealth(slow) ==
    [state |-> IF slow THEN "degraded" ELSE "active", fails |-> 0, probed |-> 0, succ |-> 0]

\* Faulty variants: offline one failure too late; a failure counted twice.
FailureHealthLate(h) ==
    LET n == CountUp(h.fails)
    IN  [state |-> IF n > Threshold THEN "offline" ELSE "degraded",
         fails |-> n, probed |-> 0, succ |-> h.succ]

FailureHealthTwice(h) ==
    LET n == CountUp(CountUp(h.fails))
    IN  [state |-> IF n >= Threshold THEN "offline" ELSE "degraded",
         fails |-> n, probed |-> 0, succ |-> h.succ]

FailureHealth(h) ==
    LET n == CountUp(h.fails)
    IN  [state |-> IF n >= Threshold THEN "offline" ELSE "degraded",
         fails |-> n, probed |-> 0, succ |-> h.succ]

NoURLHealth(h) ==
    [state |-> "offline", fails |-> CountUp(h.fails), probed |-> 0, succ |-> h.succ]

\* fail: an invalid URL, a transport error, the timeout, or a status other than 2xx.
Outcome == {"fast", "slow", "fail"}

\* probeOne on a copy h of the health and at of the agent type: no HTTP request is
\* made if the entry was deprecated when it was read, or has no endpoint.
NoRequest(h, at) == h.state = "deprecated" \/ at.endpoint = NoEndpoint

ProbeOne(h, at, outcome) ==
    CASE h.state = "deprecated" -> h
      [] h.state # "deprecated" /\ at.endpoint = NoEndpoint -> NoURLHealth(h)
      [] ~NoRequest(h, at) /\ outcome = "fail" -> FailureHealth(h)
      [] ~NoRequest(h, at) /\ outcome # "fail" -> SuccessHealth(outcome = "slow")

Failed(h, at, outcome) ==
    h.state # "deprecated" /\ (at.endpoint = NoEndpoint \/ outcome = "fail")
-----------------------------------------------------------------------------
(* The catalog API *)

Register(id, at) ==
    /\ Create(id, at)
    /\ UNCHANGED <<proberVars, lastCall, lastCleanup, failures, faults>>

DeleteEntry(id) ==
    /\ Delete(id)
    /\ UNCHANGED <<proberVars, lastCall, lastCleanup, failures, faults>>

\* PATCH /catalog/{id}/lifecycle.  Its first Get only turns a missing entry into
\* a 404, which SetLifecycle's own row count would refuse as well.
PatchLifecycle(id, state) ==
    /\ SetLifecycle(id, state)
    /\ UNCHANGED <<agentTypes, proberVars, lastCall, lastCleanup, failures, faults>>

\* POST /catalog/{id}/probe up to the HTTP request: rate limit, then Get.
ProbeEntry(c, id) ==
    /\ jobs[c] = Absent
    /\ Limiter!Allow(id)
    /\ jobs' = IF Limiter!Admits(id) /\ Present(id)
               THEN [jobs EXCEPT ![c] = [stage |-> "probing", id |-> id,
                                         h |-> entries[id].h, elapsed |-> 0]]
               ELSE jobs
    /\ UNCHANGED <<entries, agentTypes, cycling, tick, phase, failures, faults>>

\* The client goes away: the request's context fails the HTTP probe and then
\* UpdateHealth as well, so the probe leaves no trace.
CancelRequest(c) ==
    /\ jobs[c] # Absent
    /\ jobs' = [jobs EXCEPT ![c] = Absent]
    /\ UNCHANGED <<entries, agentTypes, cycling, tick, phase, lastCall, lastCleanup,
                   failures, faults>>
-----------------------------------------------------------------------------
(* The periodic worker *)

\* run takes a tick and checkAll lists the batch.
StartCycle ==
    /\ tick /\ ~cycling
    /\ tick' = FALSE
    /\ cycling' = TRUE
    /\ \E batch \in ListForProbing(Interval, Concurrency * BatchFactor) :
          jobs' = [w \in Workers |->
                     IF w \in batch
                     THEN [stage |-> "queued", id |-> w, h |-> entries[w].h, elapsed |-> 0]
                     ELSE jobs[w]]
    /\ UNCHANGED <<entries, agentTypes, phase, lastCall, lastCleanup, failures, faults>>

\* ListForProbing fails: the tick is spent, the next one tries again.
ListFails ==
    /\ tick /\ ~cycling
    /\ faults < MaxFaults
    /\ faults' = faults + 1
    /\ tick' = FALSE
    /\ UNCHANGED <<entries, agentTypes, jobs, cycling, phase, lastCall, lastCleanup, failures>>

\* sem <- struct{}{} and the start of the goroutine.
Launch(id) ==
    /\ FirstInQueue(id)
    /\ Cardinality(Launched) < Concurrency
    /\ jobs' = [jobs EXCEPT ![id].stage = "probing"]
    /\ UNCHANGED <<entries, agentTypes, cycling, tick, phase, lastCall, lastCleanup,
                   failures, faults>>

\* probeOne returns; the result's timestamps are taken here.
FinishProbe(w, outcome) ==
    /\ Stage(w, "probing")
    /\ jobs' = [jobs EXCEPT ![w] = [stage |-> "writing", id |-> jobs[w].id,
                                    h |-> ProbeOne(jobs[w].h, AgentTypeOf(w), outcome),
                                    elapsed |-> 0]]
    /\ failures' = IF Failed(jobs[w].h, AgentTypeOf(w), outcome)
                   THEN [failures EXCEPT ![jobs[w].id] = CountUp(@)]
                   ELSE failures
    /\ UNCHANGED <<entries, agentTypes, cycling, tick, phase, lastCall, lastCleanup, faults>>

\* UpdateHealth, then the goroutine or the request ends and its slot is free.
WriteResult(w) ==
    /\ Stage(w, "writing")
    /\ UpdateHealth(jobs[w].id, jobs[w].h)
    /\ jobs' = [jobs EXCEPT ![w] = Absent]
    /\ UNCHANGED <<agentTypes, cycling, tick, phase, lastCall, lastCleanup, failures, faults>>

\* UpdateHealth fails: the error is logged and the result is lost.
WriteFails(w) ==
    /\ Stage(w, "writing")
    /\ faults < MaxFaults
    /\ faults' = faults + 1
    /\ jobs' = [jobs EXCEPT ![w] = Absent]
    /\ UNCHANGED <<entries, agentTypes, cycling, tick, phase, lastCall, lastCleanup, failures>>

\* wg.Wait returns once no goroutine of the cycle is left.
EndCycle ==
    /\ cycling /\ CycleJobs = {}
    /\ cycling' = FALSE
    /\ UNCHANGED <<entries, agentTypes, jobs, tick, phase, lastCall, lastCleanup,
                   failures, faults>>

\* The process stops and starts again: rows survive, everything in memory is
\* lost.  (A graceful stop cancels the contexts of all probes, whose writes
\* then fail, and has the same effect.)
Restart ==
    /\ faults < MaxFaults
    /\ faults' = faults + 1
    /\ jobs' = [w \in Workers |-> Absent]
    /\ cycling' = FALSE
    /\ tick' = FALSE
    /\ phase' = 0
    /\ lastCall' = [id \in Ids |-> Never]
    /\ lastCleanup' = Never
    /\ UNCHANGED <<entries, agentTypes, failures>>
-----------------------------------------------------------------------------
(* Time *)

\* Some worker can take a step that waits for nothing outside the process.
Busy ==
    \/ tick /\ ~cycling
    \/ cycling /\ CycleJobs = {}
    \/ \E w \in Workers : Stage(w, "writing") \/ (Stage(w, "probing") /\ NoRequest(jobs[w].h, AgentTypeOf(w)))
    \/ Cardinality(Launched) < Concurrency /\ \E id \in Ids : Stage(id, "queued")

OlderJob(job) ==
    [job EXCEPT !.h = OlderHealth(@),
                !.elapsed = IF job.stage = "probing" THEN @ + 1 ELSE @]

\* A clock unit passes; a pending tick is not queued twice.  A probe ends
\* within its timeout.
Tick ==
    /\ \A w \in Workers : Stage(w, "probing") => jobs[w].elapsed < Timeout
    /\ Prompt => ~Busy
    /\ StoreTick
    /\ jobs' = [w \in Workers |-> IF jobs[w] = Absent THEN Absent ELSE OlderJob(jobs[w])]
    /\ phase' = (phase + 1) % Interval
    /\ tick' = (tick \/ phase + 1 = Interval)
    /\ Limiter!LimiterTick
    /\ UNCHANGED <<cycling, failures, faults>>
-----------------------------------------------------------------------------
WorkerStep ==
    \/ StartCycle
    \/ EndCycle
    \/ \E id \in Ids : Launch(id)
    \/ \E w \in Workers : WriteResult(w) \/ \E outcome \in Outcome : FinishProbe(w, outcome)

Fault ==
    \/ ListFails
    \/ Restart
    \/ \E w \in Workers : WriteFails(w)

ApiStep ==
    \/ \E id \in Ids :
          \/ \E at \in AgentType : Register(id, at)
          \/ DeleteEntry(id)
          \/ \E state \in {"deprecated", "active"} : PatchLifecycle(id, state)
    \/ \E c \in Callers : CancelRequest(c) \/ \E id \in Ids : ProbeEntry(c, id)

Next == WorkerStep \/ Fault \/ ApiStep \/ Tick

Spec == Init /\ [][Next]_vars

\* The Go scheduler runs every goroutine that can run, and time does not stop.
FairSpec == Spec /\ WF_vars(WorkerStep) /\ WF_vars(Tick)
-----------------------------------------------------------------------------
(* Properties *)

\* What the health columns say together, for a copy h of the health of an entry with
\* agent type at.
Coherent(at, h) ==
    /\ h.state = "registered" => h.probed = Never
    /\ h.state = "degraded" => h.probed # Never /\ (h.fails = 0 \/ h.fails < Threshold)
    /\ h.state = "offline" =>
          h.probed # Never /\ (h.fails >= Threshold \/ at.endpoint = NoEndpoint)
    /\ h.probed = Never => h.fails = 0 /\ h.succ = Never
    /\ h.probed # Never /\ h.fails = 0 => h.succ = h.probed
    /\ h.succ >= h.probed

\* The columns of a row always fit together, although two probes and the lifecycle
\* endpoint overwrite them without coordination: degraded means slow or below the
\* failure threshold, offline means the threshold is reached (or there is nothing to
\* probe), no failures since the last success, registered means never probed.
\* It holds because every copy in flight is coherent as well.
HealthCoherent ==
    /\ \A id \in Ids : Present(id) => Coherent(agentTypes[id], entries[id].h)
    /\ \A w \in Workers : jobs[w] # Absent => Coherent(AgentTypeOf(w), jobs[w].h)

\* An entry with an endpoint is shown offline only after Threshold of its probes
\* have really failed: results lost, repeated or written late never make up a failure.
OfflineEarned ==
    \A id \in Ids :
        Present(id) /\ entries[id].h.state = "offline" /\ agentTypes[id].endpoint # NoEndpoint
            => failures[id] >= Threshold

\* ... which holds because no copy of the failure counter runs ahead of the failures.
FailuresBacked ==
    /\ \A id \in Ids : Present(id) => entries[id].h.fails <= failures[id]
    /\ \A w \in Workers : jobs[w] # Absent => jobs[w].h.fails <= failures[jobs[w].id]

\* The life of every entry, as EntryLifecycle sees it.
LifeOf(id) ==
    IF agentTypes[id] = Absent THEN "unused"
    ELSE IF entries[id] = Absent THEN "gone" ELSE entries[id].h.state

Lifecycle == INSTANCE EntryLifecycle WITH life <- [id \in Ids |-> LifeOf(id)]

\* The prober and the lifecycle API implement EntryLifecycle: a probe result that
\* arrives after its entry was deleted does not bring it back, and no stale copy
\* makes an entry registered again.
ImplementsLifecycle == Lifecycle!Spec

\* What the documentation says of deprecation ("deprecated --> active: PATCH
\* /lifecycle" is the only way out; "excluded from active probe cycles until
\* restored"): only an administrator's PATCH takes an entry out of deprecated.
DeprecatedUntilRestored ==
    [][\A id \in Ids :
          /\ Present(id) /\ entries[id].h.state = "deprecated"
          /\ Present(id)' /\ entries'[id].h.state # "deprecated"
          => PatchLifecycle(id, "active")]_vars

Monitored(id) == Present(id) /\ entries[id].h.state # "deprecated"

\* No entry is starved by the others, however many more there are than fit in a
\* batch: as long as it is monitored it is probed again and again.
ProbedAgainAndAgain ==
    \A id \in Ids : []<>(Monitored(id) => entries[id].h.probed = 0)

\* A probe of id ends with h.
ProbeEnds(id, w) == Stage(w, "probing") /\ Stage(w, "writing")' /\ jobs[w].id = id

\* If from some time on every probe of a monitored entry succeeds, the catalog keeps
\* showing it active or degraded: no state, offline included, is a trap.
RecoveryIsNoticed ==
    \A id \in Ids :
        /\ <>[]Monitored(id)
        /\ <>[][\A w \in Workers : ProbeEnds(id, w) => jobs'[w].h.fails = 0]_vars
        => []<>(Present(id) /\ entries[id].h.state \in {"active", "degraded"})

\* If from some time on every probe of a monitored entry fails, the catalog keeps
\* showing it offline: the failure counter does get to the threshold.
OutageIsNoticed ==
    \A id \in Ids :
        /\ <>[]Monitored(id)
        /\ <>[][\A w \in Workers : ProbeEnds(id, w) => jobs'[w].h.fails > 0]_vars
        => []<>(Present(id) /\ entries[id].h.state = "offline")
=============================================================================
