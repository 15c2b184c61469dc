---------------------------- MODULE MCPartyGraph ----------------------------
(***************************************************************************)
(* Small instances of PartyGraph.                                          *)
(***************************************************************************)
EXTENDS PartyGraph, TLC

CONSTANTS ann, g1, g2, g3, dflt, q1

\* A person and three groups, so that a cycle may take three edges.
GroupParties == {ann, g1, g2, g3, dflt}

GroupKinds ==
    [p \in GroupParties |-> CASE p = ann -> "person"
                              [] p = dflt -> "project"
                              [] OTHER -> "group"]

\* Bound: memberships of catalog entries, which nothing here depends on.
FewMemberships == \A m, n \in memberships : m = n

GroupSymmetry == Permutations({g1, g2, g3})
=============================================================================
