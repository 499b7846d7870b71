SPECIFICATION Spec
CONSTANTS
    i1 = i1
    i2 = i2
    t1 = t1
    t2 = t2
    t3 = t3
    None = None
    Ids <- MCIds
    Tokens <- MCTokens
    LeaseSeconds = 2
    MaxTime = 5
    MaxFaults = 1
SYMMETRY Symmetry
INVARIANTS
    TypeOK
    EndedHasNoLease
    NothingUnsaved
PROPERTIES
    EndedIsFinal
    LeasesAreControl
