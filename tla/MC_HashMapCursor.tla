------------------------- MODULE MC_HashMapCursor -------------------------
EXTENDS MC_HashMap, HashMapCursor

\* Four of the five keys for the walks from begin(): k1, k2, k3 share
\* bucket 15, whose chain wraps to collision slot 0, and k4 sits in bucket
\* 0.  The walk adds enough states that the fifth key is left out.
MCCursorKeys == {k1, k2, k3, k4}
MCCursorHash == [k \in MCCursorKeys |-> MCHash[k]]
=============================================================================
