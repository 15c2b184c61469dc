CONSTANTS
    ann = ann
    g1 = g1
    dflt = dflt
    q1 = q1
    DefaultProject = dflt
    Absent = Absent
    Person = ann
    TokenPermissions = {"catalog:read", "catalog:write"}
    Parties <- SomeParties
    KindOf <- SomeKinds
    ProjectRoles = {"project:owner", "project:viewer"}
    Entries = {}
    Requests = {q1}
SPECIFICATION AccessSpec
INVARIANTS KeepsAccess InventsNoAccess
PROPERTY RoleUpdateIsOptimistic
