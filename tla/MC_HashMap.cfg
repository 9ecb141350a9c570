CONSTANTS
    k1 = k1
    k2 = k2
    k3 = k3
    k4 = k4
    k5 = k5
    v1 = v1
    v2 = v2
    NoKey = NoKey
    NoValue = NoValue
    Keys <- MCKeys
    Values <- MCValues
    Hash <- MCHash
    EntrySize <- MCEntrySize
    SizeLimit <- MCSizeLimit
    Requests <- MCRequests

SPECIFICATION Spec
SYMMETRY MCSymmetry

INVARIANTS
    TypeOK
    ChainsCoverEntries
    ChainTailsOwned
    LookupFindsEntries
    IterationVisitsEachOnce

PROPERTIES
    RefinesAbstractMap
