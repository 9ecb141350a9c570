---------------------------- MODULE MC_HashMap ----------------------------
EXTENDS HashMap, TLC

CONSTANTS k1, k2, k3, k4, k5, v1, v2

MCKeys == {k1, k2, k3, k4, k5}
MCValues == {v1, v2}

\* Hash values chosen so that the table meets shared probe runs: k1, k2, k3
\* share bucket 15 of a 16-slot table (its chain wraps to collision slot 0)
\* and still collide at 32 slots, while k4 and k5 share bucket 0, whose
\* chain starts at that same collision slot 0.
MCHash == (k1 :> 15) @@ (k2 :> 31) @@ (k3 :> 47) @@ (k4 :> 0) @@ (k5 :> 16)

\* sizeof(MainEntry) for an int key, an int value and a size_t.
MCEntrySize == 16

\* reserve(0) on an empty map builds a one-slot table, so the small tables
\* 1 .. 8 are reached; 32 grows a 16-slot table; MCSizeLimit is the request
\* reserve() refuses.
MCSizeLimit == 1000
MCRequests == {0, 32, MCSizeLimit}

MCSymmetry == Permutations(MCValues)
=============================================================================
