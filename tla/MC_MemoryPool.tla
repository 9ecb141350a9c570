---------------------------- MODULE MC_MemoryPool ----------------------------
(* MemoryPool with model values for threads and objects.                    *)
EXTENDS MemoryPool

CONSTANTS t1, t2, e1, e2, e3, e4, e5, null

MCThreads == {t1, t2}
MCElements == {e1, e2, e3, e4, e5}
MCSymmetry == Permutations(MCElements)


=============================================================================
