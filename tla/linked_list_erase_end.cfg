\* erase(begin()) on an empty list, as the EmptyListOperations test does.
CONSTANTS
    Lists = {L1, L2}
    Elements = {e1, e2, e3}
    Null = null
    EraseAtEnd = TRUE
    SelfMove = FALSE
SPECIFICATION Spec
INVARIANT
    RingsWellFormed
