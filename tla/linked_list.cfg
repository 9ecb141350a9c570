\* Two lists over three elements; the caller never erases end() and never
\* moves a list onto itself.
CONSTANTS
    Lists = {L1, L2}
    Elements = {e1, e2, e3}
    Null = null
    EraseAtEnd = FALSE
    SelfMove = FALSE
SPECIFICATION Spec
INVARIANT
    RingsWellFormed
PROPERTY
    RefinesLists
