CONSTANTS
    Users = {u1, u2}
    FirstAdmin = u1
    NameOf <- SameAsId
    AdminRole = "role-admin"
    OtherRoles = {"other"}
    RoleNames = {"admin", "other"}
    Permissions <- SomePerms
    PermSets <- NoneOrAll
    Reqs = {q1, q2}
    MaxFailedAttempts = 2
    LockDuration = 2
    MaxFaults = 1
    MaxRoleWrites = 1
    MaxTokens = 1
    Absent = Absent
    Idle = Idle
SPECIFICATION EitherSpec
INVARIANTS AccountsTypeOK LockEarned
PROPERTY LockExpires
