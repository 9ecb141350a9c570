\* list = std::move(list), as the MoveSelfAssignment test does.
CONSTANTS
    Lists = {L1, L2}
    Elements = {e1, e2, e3}
    Null = null
    EraseAtEnd = FALSE
    SelfMove = TRUE
SPECIFICATION Spec
PROPERTY
    RefinesLists
