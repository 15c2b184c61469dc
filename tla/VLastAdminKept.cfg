CONSTANTS
    Users = {u1, u2}
    FirstAdmin = u1
    NameOf <- SameAsId
    AdminRole = "role-admin"
    OtherRoles = {}
    RoleNames = {"admin", "other"}
    Permissions <- SomePerms
    PermSets <- NoneOrAll
    Reqs = {q1, q2}
    MaxFailedAttempts = 2
    LockDuration = 1
    MaxFaults = 0
    MaxRoleWrites = 0
    MaxTokens = 2
    Absent = Absent
    Idle = Idle
SPECIFICATION DeletionSpec
PROPERTY LastAdminKept
