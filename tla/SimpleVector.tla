---------------------------- MODULE SimpleVector ----------------------------
(***************************************************************************)
(* turbokit::BasicArray / SimpleVector (src/include/simple_vector.h): an  *)
(* array that owns exactly `count` elements at `elements`, reallocating on *)
(* every growth.  The allocator is part of the state: heap gives each     *)
(* address its state (unused, live, freed), the size it was allocated     *)
(* with, and its cells (a value, Raw or Moved).  allocate() may return    *)
(* any address that is not live, a freed one included.  faults records    *)
(* the undefined behaviour a call performs (freeing a freed address,      *)
(* freeing with a size other than the allocated one, writing a freed      *)
(* buffer, move-assigning into unconstructed storage); the program goes   *)
(* on.  Each public call is one step of the single caller.                *)
(***************************************************************************)
EXTENDS Naturals, Sequences

CONSTANTS
    Values, DefaultValue, Raw, Moved,
    Null,              \* nullptr
    Buffers,           \* the addresses allocate() can return
    TriviallyCopyable, \* std::is_trivially_copyable_v<ElementType>
    MaxSize            \* largest new_size passed to resize()

ASSUME DefaultValue \in Values /\ Null \notin Buffers /\ TriviallyCopyable \in BOOLEAN

VARIABLES
    sv,   \* the object and the heap: [elements, count, heap, faults]
    op    \* the last public call and its arguments

vars == <<sv, op>>

Slots == 0 .. MaxSize - 1

MoveFrom(x) == IF TriviallyCopyable THEN x ELSE Moved

\* Run the destructors of cells lo .. hi - 1 of buffer p.
DestroyCells(h, p, lo, hi) ==
    [h EXCEPT ![p].cells = [x \in Slots |-> IF x \in lo .. hi - 1 THEN Raw ELSE @[x]]]

\* MemoryAllocator().deallocate(p, n) and what it does wrong, if anything.
deallocate(h, p) == IF p = Null THEN h ELSE [h EXCEPT ![p].state = "freed"]

DeallocFaults(h, p, n) ==
    IF p = Null THEN {}
    ELSE IF h[p].state # "live" THEN {"double_free"}
    ELSE IF h[p].size # n THEN {"size_mismatch"}
    ELSE {}

\* Fault variant: clear() leaves count as it was.
clear_kept_count(s) ==
    IF s.count = 0 THEN s
    ELSE LET h == DestroyCells(s.heap, s.elements, 0, s.count)
         IN [s EXCEPT !.heap = deallocate(h, s.elements),
                      !.faults = @ \cup DeallocFaults(h, s.elements, s.count)]

\* clear(): with elements, destroy them back to front, deallocate(elements,
\* count) and set count to 0; elements keeps the freed address.
clear(s) ==
    IF s.count = 0 THEN s
    ELSE LET h == DestroyCells(s.heap, s.elements, 0, s.count)
         IN [s EXCEPT !.heap = deallocate(h, s.elements),
                      !.faults = @ \cup DeallocFaults(h, s.elements, s.count),
                      !.count = 0]

\* The growth branch of resize(new_size) with nb the address allocate()
\* returned: relocate_elements the count old elements into it (memmove, or
\* move assignment onto the raw cells), deallocate(elements, count), then
\* default-construct cells count .. new_size - 1.
Grow(s, n, nb) ==
    LET c  == s.count
        p  == s.elements
        h1 == [s.heap EXCEPT ![nb] =
                  [state |-> "live", size |-> n,
                   cells |-> [x \in Slots |-> IF x < c THEN s.heap[p].cells[x] ELSE Raw]]]
        h2 == IF c = 0 THEN h1
              ELSE [h1 EXCEPT ![p].cells = [x \in Slots |-> IF x < c THEN MoveFrom(@[x]) ELSE @[x]]]
        h3 == deallocate(h2, p)
        h4 == [h3 EXCEPT ![nb].cells = [x \in Slots |-> IF x \in c .. n - 1 THEN DefaultValue ELSE @[x]]]
    IN [s EXCEPT !.heap = h4, !.elements = nb, !.count = n,
                 !.faults = @ \cup DeallocFaults(h2, p, c)
                              \cup (IF ~TriviallyCopyable /\ c > 0 THEN {"assign_to_raw"} ELSE {})
                              \cup (IF h3[nb].state = "freed" THEN {"use_after_free"} ELSE {})]

\* Fault variant: the growth branch never stores new_elements.
resize_unassigned(s, n, nb) ==
    IF s.count > n
    THEN [s EXCEPT !.heap = DestroyCells(@, s.elements, n, s.count), !.count = n]
    ELSE IF n > s.count THEN [Grow(s, n, nb) EXCEPT !.elements = s.elements]
    ELSE s

\* resize(new_size): destroy the surplus (keeping the allocation), or grow.
resize(s, n, nb) ==
    IF s.count > n
    THEN [s EXCEPT !.heap = DestroyCells(@, s.elements, n, s.count), !.count = n]
    ELSE IF n > s.count THEN Grow(s, n, nb)
    ELSE s

-----------------------------------------------------------------------------

Call(name, i, n, v) == [name |-> name, index |-> i, count |-> n, value |-> v]

EmptyObject(h, f) == [elements |-> Null, count |-> 0, heap |-> h, faults |-> f]

Init ==
    /\ sv = EmptyObject([b \in Buffers |->
                           [state |-> "unused", size |-> 0, cells |-> [x \in Slots |-> Raw]]], {})
    /\ op = Call("init", 0, 0, DefaultValue)

\* resize(n); allocate() returns some address that is not live.
Resize(n) ==
    /\ \E nb \in {b \in Buffers : sv.heap[b].state # "live"} : sv' = resize(sv, n, nb)
    /\ op' = Call("resize", 0, n, DefaultValue)

Clear ==
    /\ sv' = clear(sv)
    /\ op' = Call("clear", 0, 0, DefaultValue)

\* vec[i] = v for i < size().
Set(i, v) ==
    /\ i < sv.count
    /\ sv' = [sv EXCEPT !.heap[sv.elements].cells[i] = v,
                        !.faults = @ \cup (IF sv.heap[sv.elements].state = "freed"
                                           THEN {"use_after_free"} ELSE {})]
    /\ op' = Call("set", i + 1, 0, v)

\* The object goes out of scope (~BasicArray() calls clear()) and a new
\* default-constructed one takes its place.
Recreate ==
    /\ sv' = EmptyObject(clear(sv).heap, clear(sv).faults)
    /\ op' = Call("clear", 0, 0, DefaultValue)

Next ==
    \/ \E n \in 0 .. MaxSize : Resize(n)
    \/ Clear
    \/ \E i \in Slots, v \in Values : Set(i, v)
    \/ Recreate

Spec == Init /\ [][Next]_vars

-----------------------------------------------------------------------------

Live == [i \in 1 .. sv.count |-> sv.heap[sv.elements].cells[i - 1]]

TypeOK ==
    /\ sv.count \in 0 .. MaxSize
    /\ sv.elements \in IF sv.count > 0 THEN Buffers ELSE Buffers \cup {Null}
    /\ \A b \in Buffers : sv.heap[b].state \in {"unused", "live", "freed"}
    /\ op.name \in {"init", "resize", "clear", "set"}

Sequence == INSTANCE AbstractSequence WITH contents <- Live, Default <- DefaultValue

\* Read through elements[0 .. count - 1], the array behaves as a sequence:
\* resize keeps the prefix and pads with ElementType(), clear and a fresh
\* object are empty, and a store is seen by later reads, across every
\* reallocation.
RefinesSequence == Sequence!Spec

\* No address is freed twice and no freed buffer is written: clear()
\* leaves elements pointing at the freed buffer, and a later resize must
\* not hand it to deallocate again.
NoFreedMemoryUse == sv.faults \cap {"double_free", "use_after_free"} = {}

\* Every deallocate(p, n) passes the n that p was allocated with, as
\* std::allocator requires.
DeallocSizeMatches == "size_mismatch" \notin sv.faults

\* Every live allocation belongs to the current object: nothing is
\* unreachable once an object is gone.
NoLeakedBuffer == \A b \in Buffers : sv.heap[b].state = "live" => b = sv.elements

\* Elements are only assigned to once constructed: relocate_elements in a
\* growing resize must not move-assign into raw storage.
ConstructBeforeAssign == "assign_to_raw" \notin sv.faults

=============================================================================
