\* clear() followed by a growing resize(), for an int element.
CONSTANTS
    d = d
    v = v
    raw = raw
    moved = moved
    null = null
    b1 = b1
    b2 = b2
    b3 = b3
    Values <- MCValues
    DefaultValue <- d
    Raw <- raw
    Moved <- moved
    Null <- null
    Buffers <- MCBuffers
    TriviallyCopyable = TRUE
    MaxSize = 2
SPECIFICATION Spec
INVARIANT
    NoFreedMemoryUse
