CONSTANTS
    Users = {admin, old}
    Entries = {e1}
    None = None
    Plugins <- ThreePlugins
    Licensed = {"card-store", "health-checker"}
    Procs = {p1, p2}
    Admin = admin
    MaxFaults = 1
SPECIFICATION FairStartup
INVARIANTS StartupTypeOK SchemaInOrder ServesMigrated DataCarriedOver StopsInReverse
PROPERTY SomebodyServes
