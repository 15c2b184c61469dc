CONSTANTS
    Ids = {i1, i2}
    Cards <- SomeCards
    Imports <- SomeImports
    Flat <- SomeBodies
    Reached = {"active"}
    Reqs = {q1}
    Manager = manager
    MaxRedirects = 2
    MaxFaults = 1
    None = None
    Idle = Idle
SPECIFICATION CatalogSpec
INVARIANTS CatalogTypeOK ShownAsInCard RawCardIsItsOwn ListedCanBeOpened ConnectsToPublic
SYMMETRY Interchangeable
