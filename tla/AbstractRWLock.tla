--------------------------- MODULE AbstractRWLock ---------------------------
(***************************************************************************)
(* What a lock of src/include/sync.h promises its threads: at most one    *)
(* exclusive holder, and never an exclusive holder together with shared   *)
(* holders.  Each acquisition and release is one atomic step; the spin    *)
(* loops of the implementations are stuttering steps here.                *)
(***************************************************************************)
CONSTANT Threads

VARIABLES
    writer,     \* threads holding the lock exclusively
    readers     \* threads holding it shared

rwvars == <<writer, readers>>

Init == writer = {} /\ readers = {}

LockExclusive(t) ==
    /\ writer = {} /\ readers = {}
    /\ writer' = {t}
    /\ UNCHANGED readers

UnlockExclusive(t) ==
    /\ t \in writer
    /\ writer' = {}
    /\ UNCHANGED readers

LockShared(t) ==
    /\ writer = {} /\ t \notin readers
    /\ readers' = readers \cup {t}
    /\ UNCHANGED writer

UnlockShared(t) ==
    /\ t \in readers
    /\ readers' = readers \ {t}
    /\ UNCHANGED writer

Next ==
    \E t \in Threads :
        \/ LockExclusive(t) \/ UnlockExclusive(t)
        \/ LockShared(t) \/ UnlockShared(t)

Spec == Init /\ [][Next]_rwvars

=============================================================================
