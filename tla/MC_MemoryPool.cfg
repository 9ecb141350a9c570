\* Two threads, five objects, max_local_elements = 3: a thread's fourth
\* add transfers two objects, which the other thread can then take.
CONSTANTS
    t1 = t1
    t2 = t2
    e1 = e1
    e2 = e2
    e3 = e3
    e4 = e4
    e5 = e5
    null = null
    Threads <- MCThreads
    Elements <- MCElements
    Null <- null
    MaxLocal = 3
SYMMETRY MCSymmetry
SPECIFICATION Spec
INVARIANTS
    TypeOK
    ElementsOwnedOnce
    CountsMatchLists
    LocalCacheBounded
    NoNullDereference
