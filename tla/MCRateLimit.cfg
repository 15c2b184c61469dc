CONSTANTS
    id1 = id1
    id2 = id2
    id3 = id3
    Ids <- MCIds
    Window = 2
    MaxAge = 5
SPECIFICATION Spec
SYMMETRY Symmetry
INVARIANTS
    RateLimited
    MapForgets
