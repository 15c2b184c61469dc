--------------------------- MODULE EntryLifecycle ---------------------------
(***************************************************************************)
(* What the catalog promises about the life of an entry, without saying    *)
(* who moves it or when: it is registered once, is then moved about by     *)
(* probe reports and administrators and never becomes registered again,    *)
(* and once deleted it stays deleted.                                      *)
(***************************************************************************)
CONSTANT Ids

VARIABLE life

States == {"registered", "active", "degraded", "offline", "deprecated"}

Init == life = [id \in Ids |-> "unused"]

Register(id) ==
    /\ life[id] = "unused"
    /\ life' = [life EXCEPT ![id] = "registered"]

Report(id) ==
    /\ life[id] \in States
    /\ \E s \in {"active", "degraded", "offline"} : life' = [life EXCEPT ![id] = s]

Administer(id) ==
    /\ life[id] \in States
    /\ \E s \in {"active", "deprecated"} : life' = [life EXCEPT ![id] = s]

Remove(id) ==
    /\ life[id] \in States
    /\ life' = [life EXCEPT ![id] = "gone"]

Next == \E id \in Ids : Register(id) \/ Report(id) \/ Administer(id) \/ Remove(id)

Spec == Init /\ [][Next]_life
=============================================================================
