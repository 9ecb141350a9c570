\* Buffer *buffer = createMemoryBlock(size); BufferHandle handle(buffer);
\* as the tests of src/unnamed/part_002 write it: the converted pointer
\* of a temporary is adopted by a handle.
CONSTANTS
    Blocks = {m1, m2, m3}
    UHandles = {u1, u2}
    SHandles = {s1, s2, s3}
    Null = null
    MaxCount = 3
    AdoptsConverted = TRUE
SPECIFICATION Spec
INVARIANT
    NoUseAfterFree
