--------------------------- MODULE MC_SimpleVector ---------------------------
(* SimpleVector with two values, the first of them ElementType(), and three *)
(* addresses for the allocator.                                              *)
EXTENDS SimpleVector

CONSTANTS d, v, raw, moved, null, b1, b2, b3

MCValues == {d, v}
MCBuffers == {b1, b2, b3}

=============================================================================
