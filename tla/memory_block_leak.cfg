\* The copy-assignment operator of SharedMemoryBlock over a handle that
\* already owns a block.
CONSTANTS
    Blocks = {m1, m2, m3}
    UHandles = {u1, u2}
    SHandles = {s1, s2, s3}
    Null = null
    MaxCount = 3
    AdoptsConverted = FALSE
SPECIFICATION Spec
INVARIANT
    NoLeakedBlock
