--------------------------- MODULE MC_DynamicArray ---------------------------
(* DynamicArray with two values, the first of them ElementType().          *)
EXTENDS DynamicArray

CONSTANTS d, v, raw, moved

MCValues == {d, v}

=============================================================================
