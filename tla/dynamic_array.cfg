\* A trivially copyable element (an int) of 128 KiB per element in the
\* compaction arithmetic, so that a gap of 4 cells triggers compaction.
CONSTANTS
    d = d
    v = v
    raw = raw
    moved = moved
    Values <- MCValues
    DefaultValue <- d
    Raw <- raw
    Moved <- moved
    ElementSize = 131072
    TriviallyCopyable = TRUE
    MaxSize = 3
    Requests = {0, 2, 5}
SPECIFICATION Spec
INVARIANTS
    TypeOK
    ElementCountMatches
PROPERTY
    RefinesSequence
