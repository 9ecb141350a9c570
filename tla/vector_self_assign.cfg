\* Copy assignment of an array to itself, among the other calls.
CONSTANTS
    d = d
    v = v
    raw = raw
    moved = moved
    Values <- MCValues
    DefaultValue <- d
    Raw <- raw
    Moved <- moved
    ElementSize = 131072
    TriviallyCopyable = TRUE
    MaxSize = 3
    Requests = {0, 2, 5}
SPECIFICATION SelfAssignSpec
PROPERTY
    RefinesSequence
