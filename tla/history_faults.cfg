SPECIFICATION Spec
CONSTANTS
    h1 = h1
    h2 = h2
    h3 = h3
    h4 = h4
    Ids = {h1, h2, h3}
    Limits = {0, 1, 2}
    DefaultLimit = 2
    MaxRevision = 4
    Stops = "anytime"
    MayFail = TRUE
SYMMETRY IdSymmetry
CHECK_DEADLOCK FALSE
INVARIANTS Durable
PROPERTIES NewestKept RevisionFresh
