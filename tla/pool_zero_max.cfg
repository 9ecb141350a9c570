\* max_local_elements = 0, as in the test ZeroMaxThreadLocal.
CONSTANTS
    t1 = t1
    t2 = t2
    e1 = e1
    e2 = e2
    e3 = e3
    e4 = e4
    e5 = e5
    null = null
    Threads <- MCThreads
    Elements <- MCElements
    Null <- null
    MaxLocal = 0
SYMMETRY MCSymmetry
SPECIFICATION Spec
INVARIANT
    NoNullDereference
