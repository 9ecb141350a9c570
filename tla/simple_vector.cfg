\* A trivially copyable element (an int), sizes up to 2, three addresses.
CONSTANTS
    d = d
    v = v
    raw = raw
    moved = moved
    null = null
    b1 = b1
    b2 = b2
    b3 = b3
    Values <- MCValues
    DefaultValue <- d
    Raw <- raw
    Moved <- moved
    Null <- null
    Buffers <- MCBuffers
    TriviallyCopyable = TRUE
    MaxSize = 2
SPECIFICATION Spec
INVARIANT
    TypeOK
PROPERTY
    RefinesSequence
