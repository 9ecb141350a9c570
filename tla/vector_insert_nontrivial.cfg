\* insert_at with an element type that is not trivially copyable.
CONSTANTS
    d = d
    v = v
    raw = raw
    moved = moved
    Values <- MCValues
    DefaultValue <- d
    Raw <- raw
    Moved <- moved
    ElementSize = 131072
    TriviallyCopyable = FALSE
    MaxSize = 3
    Requests = {0, 2, 5}
SPECIFICATION Spec
PROPERTY
    RefinesSequence
