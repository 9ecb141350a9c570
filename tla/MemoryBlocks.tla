---------------------------- MODULE MemoryBlocks ----------------------------
(***************************************************************************)
(* MemoryBlock, UniqueMemoryBlock and SharedMemoryBlock of                 *)
(* src/unnamed/part_004.  A client holds handle objects (UHandles,         *)
(* SHandles) and raw MemoryBlock pointers, and issues the statements the   *)
(* classes offer.  An assignment "h = <expression>" is what C++ does with  *)
(* it: the expression builds a temporary, move-assignment swaps it with h, *)
(* and the temporary's destructor releases h's old block.  Destroying a    *)
(* handle object puts a default (null) one in its place.                   *)
(*                                                                         *)
(* Every access to shared state is one atomic read-modify-write of         *)
(* reference_count (fetch_add, fetch_sub) and block_ptr is private to its  *)
(* handle, so threads that each own some handles interleave exactly as     *)
(* the statements below do.  A block is an allocation: its identity is not *)
(* reused after free, so a stale pointer to it stays visible.              *)
(*                                                                         *)
(* Both handles convert implicitly to MemoryBlock *: "MemoryBlock *raw =   *)
(* h;" gives the client a pointer it does not own (borrowed), also when h  *)
(* is a temporary that is destroyed at the end of the statement.  Whether  *)
(* the client then hands such a pointer to a handle constructor, as the    *)
(* tests of src/unnamed/part_002 do, is the constant AdoptsConverted.      *)
(***************************************************************************)
EXTENDS Naturals, FiniteSets

CONSTANTS
    Blocks,    \* allocations malloc can return
    UHandles,  \* UniqueMemoryBlock objects
    SHandles,  \* SharedMemoryBlock objects
    Null,      \* nullptr
    MaxCount,  \* bound on reference_count, for TLC
    AdoptsConverted  \* pointers from the conversion are passed to constructors

ASSUME Null \notin Blocks

VARIABLES
    heap,      \* per block: "unused", "live" or "freed"
    count,     \* per block: reference_count
    unique,    \* per UniqueMemoryBlock: block_ptr
    shared,    \* per SharedMemoryBlock: block_ptr
    unowned,   \* raw pointers the client holds to blocks nobody counts
    counted,   \* per block: raw pointers from SharedMemoryBlock::relinquish
    borrowed   \* raw pointers from operator MemoryBlock *(): owned elsewhere

vars == <<heap, count, unique, shared, unowned, counted, borrowed>>

Ptr == Blocks \cup {Null}

Init ==
    /\ heap = [b \in Blocks |-> "unused"]
    /\ count = [b \in Blocks |-> 0]
    /\ unique = [h \in UHandles |-> Null]
    /\ shared = [h \in SHandles |-> Null]
    /\ unowned = {}
    /\ counted = [b \in Blocks |-> 0]
    /\ borrowed = {}

\* MemoryBlock::destroy: std::free.
destroy(h, b) == [h EXCEPT ![b] = "freed"]

\* ~UniqueMemoryBlock: if (block_ptr) MemoryBlock::destroy(block_ptr).
UniqueRelease(p) == IF p = Null THEN heap ELSE destroy(heap, p)

\* decrement_reference: fetch_sub(1) - 1.
decrement_reference(c, b) == c[b] - 1

\* ~SharedMemoryBlock: if (block_ptr && decrement_reference() == 0) destroy.
\* The heap and the counts hp, c after releasing p, as a record.
SharedRelease(hp, c, p) ==
    IF p = Null THEN [heap |-> hp, count |-> c]
    ELSE [heap |-> IF decrement_reference(c, p) = 0 THEN destroy(hp, p) ELSE hp,
          count |-> [c EXCEPT ![p] = @ - 1]]

\* increment_reference: fetch_add(1) + 1, when block_ptr is not null.
increment_reference(c, p) == IF p = Null THEN c ELSE [c EXCEPT ![p] = @ + 1]

\* The raw pointers the client passes to a constructor that adopts them.
RawPointers == unowned \cup (IF AdoptsConverted THEN borrowed ELSE {})

-----------------------------------------------------------------------------
(* UniqueMemoryBlock                                                       *)

\* h = makeBuffer(n), or h = createMemoryBlock(n): MemoryBlock::create
\* mallocs a block with reference_count 0; the temporary UniqueMemoryBlock
\* is swapped into h and destroys h's old block.  A failed malloc throws
\* bad_alloc before anything changes.
makeBuffer(h) ==
    \E b \in Blocks :
        /\ heap[b] = "unused"
        /\ heap' = [UniqueRelease(unique[h]) EXCEPT ![b] = "live"]
        /\ count' = [count EXCEPT ![b] = 0]
        /\ unique' = [unique EXCEPT ![h] = b]
        /\ UNCHANGED <<shared, unowned, counted, borrowed>>

\* h = UniqueMemoryBlock(raw): the handle adopts a raw block.
UniqueAdopt(h) ==
    \E b \in RawPointers :
        /\ heap' = UniqueRelease(unique[h])
        /\ unique' = [unique EXCEPT ![h] = b]
        /\ unowned' = unowned \ {b} /\ borrowed' = borrowed \ {b}
        /\ UNCHANGED <<count, shared, counted>>

\* Fault variant: the move copies block_ptr and leaves the source set.
UniqueMoveAssign_copy(h1, h2) ==
    /\ unique' = [unique EXCEPT ![h1] = unique[h2]]
    /\ UNCHANGED <<heap, count, shared, unowned, counted, borrowed>>

\* h1 = std::move(h2): std::swap of the two block_ptrs.
UniqueMoveAssign(h1, h2) ==
    /\ unique' = [unique EXCEPT ![h1] = unique[h2], ![h2] = unique[h1]]
    /\ UNCHANGED <<heap, count, shared, unowned, counted, borrowed>>

\* The handle object is destroyed and a default one takes its place.
UniqueDestroy(h) ==
    /\ unique[h] # Null
    /\ heap' = UniqueRelease(unique[h])
    /\ unique' = [unique EXCEPT ![h] = Null]
    /\ UNCHANGED <<count, shared, unowned, counted, borrowed>>

\* raw = h.relinquish()
UniqueRelinquish(h) ==
    /\ unique[h] # Null
    /\ unowned' = unowned \cup {unique[h]}
    /\ unique' = [unique EXCEPT ![h] = Null]
    /\ UNCHANGED <<heap, count, shared, counted, borrowed>>

\* MemoryBlock *raw = h: operator MemoryBlock *() copies block_ptr.
UniqueToPointer(h) ==
    /\ unique[h] # Null
    /\ borrowed' = borrowed \cup {unique[h]}
    /\ UNCHANGED <<heap, count, unique, shared, unowned, counted>>

\* MemoryBlock *raw = createMemoryBlock(n): MemoryBlock::create mallocs a
\* block, the returned temporary UniqueMemoryBlock converts to its
\* block_ptr, and its destructor frees the block at the end of the
\* statement, leaving raw dangling.
createMemoryBlockToPointer ==
    \E b \in Blocks :
        /\ heap[b] = "unused"
        /\ heap' = destroy([heap EXCEPT ![b] = "live"], b)
        /\ count' = [count EXCEPT ![b] = 0]
        /\ borrowed' = borrowed \cup {b}
        /\ UNCHANGED <<unique, shared, unowned, counted>>

\* MemoryBlock::destroy(raw) of a block no handle owns.
DestroyRaw ==
    \E b \in unowned :
        /\ heap' = destroy(heap, b)
        /\ unowned' = unowned \ {b}
        /\ UNCHANGED <<count, unique, shared, counted, borrowed>>

-----------------------------------------------------------------------------
(* SharedMemoryBlock                                                       *)

\* h = SharedMemoryBlock(raw): the constructor throws runtime_error unless
\* reference_count is 0, and otherwise counts the new owner; the temporary
\* is swapped into h and releases h's old block.  A throw changes nothing.
SharedAdopt(h) ==
    \E b \in RawPointers :
        /\ count[b] = 0
        /\ LET r == SharedRelease(heap, increment_reference(count, b), shared[h])
           IN /\ heap' = r.heap
              /\ count' = r.count
        /\ shared' = [shared EXCEPT ![h] = b]
        /\ unowned' = unowned \ {b} /\ borrowed' = borrowed \ {b}
        /\ UNCHANGED <<unique, counted>>

\* Fault variant: the copy constructor does not call increment_reference.
SharedCopy_uncounted(h1, h2) ==
    LET r == SharedRelease(heap, count, shared[h1])
    IN /\ heap' = r.heap
       /\ count' = r.count
       /\ shared' = [shared EXCEPT ![h1] = shared[h2]]
       /\ UNCHANGED <<unique, unowned, counted, borrowed>>

\* h1 = SharedMemoryBlock(h2): the copy constructor counts one more owner,
\* the copy is swapped into h1 and releases h1's old block.
SharedCopy(h1, h2) ==
    LET p == shared[h2]
        r == SharedRelease(heap, increment_reference(count, p), shared[h1])
    IN /\ p # Null => count[p] < MaxCount
       /\ heap' = r.heap
       /\ count' = r.count
       /\ shared' = [shared EXCEPT ![h1] = p]
       /\ UNCHANGED <<unique, unowned, counted, borrowed>>

\* h1 = h2: the copy-assignment operator overwrites block_ptr and counts one
\* more owner of the new block.
SharedCopyAssign(h1, h2) ==
    LET p == shared[h2]
    IN /\ p # Null => count[p] < MaxCount
       /\ count' = increment_reference(count, p)
       /\ shared' = [shared EXCEPT ![h1] = p]
       /\ UNCHANGED <<heap, unique, unowned, counted, borrowed>>

\* h1 = std::move(h2): std::swap of the two block_ptrs.
SharedMoveAssign(h1, h2) ==
    /\ shared' = [shared EXCEPT ![h1] = shared[h2], ![h2] = shared[h1]]
    /\ UNCHANGED <<heap, count, unique, unowned, counted, borrowed>>

\* The handle object is destroyed and a default one takes its place.
SharedDestroy(h) ==
    LET r == SharedRelease(heap, count, shared[h])
    IN /\ shared[h] # Null
       /\ heap' = r.heap
       /\ count' = r.count
       /\ shared' = [shared EXCEPT ![h] = Null]
       /\ UNCHANGED <<unique, unowned, counted, borrowed>>

\* MemoryBlock *raw = h: operator MemoryBlock *() copies block_ptr and
\* leaves reference_count alone.
SharedToPointer(h) ==
    /\ shared[h] # Null
    /\ borrowed' = borrowed \cup {shared[h]}
    /\ UNCHANGED <<heap, count, unique, shared, unowned, counted>>

\* Fault variant: relinquish also calls decrement_reference.
SharedRelinquish_decrements(h) ==
    /\ shared[h] # Null
    /\ counted' = [counted EXCEPT ![shared[h]] = @ + 1]
    /\ count' = [count EXCEPT ![shared[h]] = @ - 1]
    /\ shared' = [shared EXCEPT ![h] = Null]
    /\ UNCHANGED <<heap, unique, unowned, borrowed>>

\* raw = h.relinquish(): the raw pointer carries h's reference.
SharedRelinquish(h) ==
    /\ shared[h] # Null
    /\ counted' = [counted EXCEPT ![shared[h]] = @ + 1]
    /\ shared' = [shared EXCEPT ![h] = Null]
    /\ UNCHANGED <<heap, count, unique, unowned, borrowed>>

\* h.take_ownership(raw) with a pointer from relinquish: block_ptr is
\* overwritten, so the caller passes an empty handle.
SharedTakeOwnership(h) ==
    \E b \in Blocks :
        /\ counted[b] > 0 /\ shared[h] = Null
        /\ shared' = [shared EXCEPT ![h] = b]
        /\ counted' = [counted EXCEPT ![b] = @ - 1]
        /\ UNCHANGED <<heap, count, unique, unowned, borrowed>>

Next ==
    \/ \E h \in UHandles :
          \/ makeBuffer(h) \/ UniqueAdopt(h) \/ UniqueDestroy(h)
          \/ UniqueRelinquish(h) \/ UniqueToPointer(h)
          \/ \E h2 \in UHandles : UniqueMoveAssign(h, h2)
    \/ DestroyRaw \/ createMemoryBlockToPointer
    \/ \E h \in SHandles :
          \/ SharedAdopt(h) \/ SharedDestroy(h) \/ SharedRelinquish(h)
          \/ SharedTakeOwnership(h) \/ SharedToPointer(h)
          \/ \E h2 \in SHandles :
                SharedCopy(h, h2) \/ SharedCopyAssign(h, h2) \/ SharedMoveAssign(h, h2)

Spec == Init /\ [][Next]_vars

-----------------------------------------------------------------------------

\* Owners of b: handles and raw pointers the client holds.
SharedOwners(b) == {h \in SHandles : shared[h] = b}
Referenced(b) ==
    \/ \E h \in UHandles : unique[h] = b
    \/ SharedOwners(b) # {} \/ b \in unowned \/ counted[b] > 0

TypeOK ==
    /\ heap \in [Blocks -> {"unused", "live", "freed"}]
    /\ count \in [Blocks -> 0 .. MaxCount]
    /\ unique \in [UHandles -> Ptr] /\ shared \in [SHandles -> Ptr]
    /\ unowned \subseteq Blocks /\ counted \in [Blocks -> 0 .. MaxCount]
    /\ borrowed \subseteq Blocks

\* No handle and no owning raw pointer (from create or relinquish) ever
\* points at a freed block: the last ~SharedMemoryBlock,
\* ~UniqueMemoryBlock or MemoryBlock::destroy of a block is also the last
\* use of it, across any sequence of copies, moves, swaps, conversions to
\* MemoryBlock * and relinquish/take_ownership hand-offs.  A pointer from
\* the conversion owns nothing; once a constructor adopts it, the handle
\* is an owner like any other.
NoUseAfterFree == \A b \in Blocks : Referenced(b) => heap[b] = "live"

\* reference_count never falls below the number of SharedMemoryBlocks and
\* relinquished pointers that own the block, and a block owned through
\* UniqueMemoryBlock or a raw pointer is not shared: no fetch_sub can reach
\* 0 while an owner remains.
CountCoversOwners ==
    \A b \in Blocks :
        /\ count[b] >= Cardinality(SharedOwners(b)) + counted[b]
        /\ (b \in unowned \/ \E h \in UHandles : unique[h] = b)
              => SharedOwners(b) = {} /\ counted[b] = 0

\* Every live block has an owner that will free it: the copy-assignment
\* operator's overwrite of block_ptr must not drop the old block's
\* reference.
NoLeakedBlock == \A b \in Blocks : heap[b] = "live" => Referenced(b)

=============================================================================
