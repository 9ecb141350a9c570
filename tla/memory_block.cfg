\* Three allocations, two UniqueMemoryBlocks, three SharedMemoryBlocks and
\* reference counts up to 3; pointers from the conversion to MemoryBlock *
\* are taken but never adopted.
CONSTANTS
    Blocks = {m1, m2, m3}
    UHandles = {u1, u2}
    SHandles = {s1, s2, s3}
    Null = null
    MaxCount = 3
    AdoptsConverted = FALSE
SPECIFICATION Spec
INVARIANT
    TypeOK
    NoUseAfterFree
    CountCoversOwners
