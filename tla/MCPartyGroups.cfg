CONSTANTS
    ann = ann
    g1 = g1
    g2 = g2
    g3 = g3
    dflt = dflt
    q1 = q1
    DefaultProject = dflt
    Absent = Absent
    Parties <- GroupParties
    KindOf <- GroupKinds
    ProjectRoles = {}
    Entries = {e1}
    Requests = {q1}
SPECIFICATION Spec
CONSTRAINT FewMemberships
SYMMETRY GroupSymmetry
INVARIANTS
    ClosureExact
    Acyclic
    AncestorsAreGroups
