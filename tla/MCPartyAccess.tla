--------------------------- MODULE MCPartyAccess ---------------------------
(***************************************************************************)
(* A small instance of PartyAccess: a person and a group, each of which    *)
(* may have several roles in the default project.                          *)
(***************************************************************************)
EXTENDS PartyAccess

CONSTANTS ann, g1, dflt, q1

SomeParties == {ann, g1, dflt}

SomeKinds ==
    [p \in SomeParties |-> CASE p = ann -> "person"
                             [] p = g1 -> "group"
                             [] OTHER -> "project"]
=============================================================================
