--------------------------- MODULE MCHealthProber ---------------------------
(* Instances of HealthProber for TLC.                                       *)
EXTENDS HealthProber, TLC

CONSTANTS id1, id2, id3, c1, ep1

OneId == {id1}
ThreeIds == {id1, id2, id3}
OneCaller == {c1}
NoCallers == {}
-----------------------------------------------------------------------------
(* A catalog that holds more entries than a batch: all of Ids have just been  *)
(* created, and from then on they are probed, deprecated, restored and        *)
(* deleted.                                                                    *)
FullInit ==
    /\ agentTypes = [id \in Ids |->
          [protocol |-> "mcp", version |-> IF id = id3 THEN "2" ELSE "1",
           endpoint |-> IF id = id1 THEN ep1 ELSE NoEndpoint]]
    /\ entries = [id \in Ids |-> [h |-> NewHealth, seen |-> 0]]
    /\ jobs = [w \in Workers |-> Absent]
    /\ cycling = FALSE /\ tick = FALSE /\ phase = 0
    /\ Limiter!LimiterInit
    /\ failures = [id \in Ids |-> 0]
    /\ faults = 0

FullSpec == FullInit /\ [][Next]_vars /\ WF_vars(WorkerStep) /\ WF_vars(Tick)
=============================================================================
