\* insert_at given a reference to an element of the same array.
CONSTANTS
    d = d
    v = v
    raw = raw
    moved = moved
    Values <- MCValues
    DefaultValue <- d
    Raw <- raw
    Moved <- moved
    ElementSize = 131072
    TriviallyCopyable = TRUE
    MaxSize = 3
    Requests = {0, 2, 5}
SPECIFICATION AliasSpec
PROPERTY
    RefinesSequence
