----------------------------- MODULE MemoryPool -----------------------------
(***************************************************************************)
(* turbokit::MemoryPool / FreeList (src/include/freelist.h 1-119): a free *)
(* list of caller-owned objects threaded through their `next` field.      *)
(* Each thread has a ThreadLocalPool (first_element, element_count); when *)
(* it reaches max_local_elements, add_element moves all but              *)
(* max_local_elements / 8 of it to the SharedPool as one batch            *)
(* (first, count), and a thread whose list is empty takes the last batch. *)
(*                                                                         *)
(* Each call is one step.  The thread-local pool is read and written only *)
(* by its thread, and the shared vector only inside the SpinMutex, so the *)
(* lock's acquisition and release move to the ends of the call and the    *)
(* interleavings of whole calls are all the interleavings there are (the  *)
(* SpinMutex module checks that the lock excludes).  A dereference of a   *)
(* null pointer ends the process: fault records it and nothing moves      *)
(* after it.                                                               *)
(***************************************************************************)
EXTENDS Naturals, Sequences, FiniteSets, SequencesExt, Functions

CONSTANTS
    Threads,    \* threads calling the pool
    Elements,   \* the objects (their addresses)
    Null,       \* nullptr
    MaxLocal    \* max_local_elements, the same in every call

ASSUME Null \notin Elements /\ MaxLocal \in Nat

VARIABLES
    next,       \* element->next, the field the lists are threaded through
    first,      \* ThreadLocalPool::first_element, per thread
    count,      \* ThreadLocalPool::element_count, per thread
    available,  \* SharedPool::available_elements: <<[first, count], ...>>
    held,       \* per thread: objects it owns outside the pool
    heap,       \* objects not allocated (before new, after delete)
    fault       \* "none", or "null_deref" once a null pointer is read

vars == <<next, first, count, available, held, heap, fault>>

\* The node k links after p, or Null if the list ends before it.
RECURSIVE NodeAt(_, _)
NodeAt(p, k) == IF k = 0 \/ p = Null THEN p ELSE NodeAt(next[p], k - 1)

Init ==
    /\ next = [e \in Elements |-> Null]
    /\ first = [t \in Threads |-> Null]
    /\ count = [t \in Threads |-> 0]
    /\ available = <<>>
    /\ held = [t \in Threads |-> {}]
    /\ heap = Elements
    /\ fault = "none"

Crash ==
    /\ fault' = "null_deref"
    /\ UNCHANGED <<next, first, count, available, held, heap>>

\* The tail of add_element: ++element_count, then push element at the head.
PushLocal(t, e, nxt, c) ==
    /\ count' = [count EXCEPT ![t] = c + 1]
    /\ first' = [first EXCEPT ![t] = e]
    /\ next' = [nxt EXCEPT ![e] = first[t]]
    /\ held' = [held EXCEPT ![t] = @ \ {e}]
    /\ UNCHANGED <<heap, fault>>

\* Fault variant: the batch count is computed as new_count - original_count.
transfer_swapped(t, retain, e) ==
    LET new_count == IF retain > 1 THEN retain ELSE 1
        current   == NodeAt(first[t], new_count - 1)
    IN IF current = Null THEN Crash
       ELSE /\ available' = Append(available,
                   [first |-> next[current], count |-> new_count - count[t]])
            /\ PushLocal(t, e, [next EXCEPT ![current] = Null], new_count)

\* transfer_to_shared_pool(local_pool, elements_to_retain) and the push
\* that add_element does after it: walk new_count - 1 links (new_count
\* starts at 1), cut the list after that node, and append the rest as the
\* batch (next_element, original_count - new_count) under the lock.  The
\* walk and the read of current->next dereference null when the local list
\* is shorter than new_count.
transfer_to_shared_pool(t, retain, e) ==
    LET new_count == IF retain > 1 THEN retain ELSE 1
        current   == NodeAt(first[t], new_count - 1)
    IN IF current = Null THEN Crash
       ELSE /\ available' = Append(available,
                   [first |-> next[current], count |-> count[t] - new_count])
            /\ PushLocal(t, e, [next EXCEPT ![current] = Null], new_count)

\* Fault variant: the whole local list is kept (the / 8u is lost).
add_element_undivided(t, e) ==
    /\ fault = "none" /\ e \in held[t]
    /\ IF count[t] = MaxLocal
       THEN transfer_to_shared_pool(t, MaxLocal, e)
       ELSE PushLocal(t, e, next, count[t]) /\ UNCHANGED available

\* Fault variant: the limit is tested with > instead of ==.
add_element_late(t, e) ==
    /\ fault = "none" /\ e \in held[t]
    /\ IF count[t] > MaxLocal
       THEN transfer_to_shared_pool(t, MaxLocal \div 8, e)
       ELSE PushLocal(t, e, next, count[t]) /\ UNCHANGED available

\* add_element(element, max_local_elements), by a thread that owns element.
add_element(t, e) ==
    /\ fault = "none" /\ e \in held[t]
    /\ IF count[t] = MaxLocal
       THEN transfer_to_shared_pool(t, MaxLocal \div 8, e)
       ELSE PushLocal(t, e, next, count[t]) /\ UNCHANGED available

\* Fault variant: the installed batch keeps remaining_count as its count.
remove_from_shared_pool_uncounted(t) ==
    IF available = <<>> THEN UNCHANGED vars
    ELSE LET result == Last(available).first IN
         IF result = Null THEN Crash
         ELSE /\ available' = Front(available)
              /\ first' = [first EXCEPT ![t] = next[result]]
              /\ count' = [count EXCEPT ![t] = Last(available).count]
              /\ held' = [held EXCEPT ![t] = @ \cup {result}]
              /\ UNCHANGED <<next, heap, fault>>

\* remove_from_shared_pool: under the lock, nullptr if there is no batch,
\* else pop the last batch; after unlocking, install result->next as the
\* local list with remaining_count - 1 elements and return result.
remove_from_shared_pool(t) ==
    IF available = <<>> THEN UNCHANGED vars
    ELSE LET result == Last(available).first IN
         IF result = Null THEN Crash
         ELSE /\ available' = Front(available)
              /\ first' = [first EXCEPT ![t] = next[result]]
              /\ count' = [count EXCEPT ![t] = Last(available).count - 1]
              /\ held' = [held EXCEPT ![t] = @ \cup {result}]
              /\ UNCHANGED <<next, heap, fault>>

\* Fault variant: the local pop hands out the head without unlinking it.
remove_element_unlinked(t) ==
    /\ fault = "none"
    /\ IF first[t] # Null
       THEN /\ count' = [count EXCEPT ![t] = @ - 1]
            /\ held' = [held EXCEPT ![t] = @ \cup {first[t]}]
            /\ UNCHANGED <<next, first, available, heap, fault>>
       ELSE remove_from_shared_pool(t)

\* remove_element(): pop the local head, or fall back to the shared pool.
remove_element(t) ==
    /\ fault = "none"
    /\ IF first[t] # Null
       THEN /\ count' = [count EXCEPT ![t] = @ - 1]
            /\ first' = [first EXCEPT ![t] = next[first[t]]]
            /\ held' = [held EXCEPT ![t] = @ \cup {first[t]}]
            /\ UNCHANGED <<next, available, heap, fault>>
       ELSE remove_from_shared_pool(t)

\* The caller: new TestObject (next(nullptr)) and delete.
Allocate(t, e) ==
    /\ fault = "none" /\ e \in heap
    /\ heap' = heap \ {e}
    /\ held' = [held EXCEPT ![t] = @ \cup {e}]
    /\ next' = [next EXCEPT ![e] = Null]
    /\ UNCHANGED <<first, count, available, fault>>

Free(t, e) ==
    /\ fault = "none" /\ e \in held[t]
    /\ heap' = heap \cup {e}
    /\ held' = [held EXCEPT ![t] = @ \ {e}]
    /\ UNCHANGED <<next, first, count, available, fault>>

Next ==
    \E t \in Threads :
        \/ \E e \in Elements : add_element(t, e) \/ Allocate(t, e) \/ Free(t, e)
        \/ remove_element(t)

Spec == Init /\ [][Next]_vars

-----------------------------------------------------------------------------

\* The list starting at p, followed for at most |Elements| + 1 links (a
\* longer walk means a cycle).
RECURSIVE Walk(_, _)
Walk(p, n) == IF p = Null \/ n = 0 THEN <<>> ELSE <<p>> \o Walk(next[p], n - 1)

List(p) == Walk(p, Cardinality(Elements) + 1)

\* Every place an object can be, one entry per occurrence.
Places ==
    FoldFunction(LAMBDA x, y : x \o y, <<>>,
                 [t \in Threads |-> List(first[t]) \o SetToSeq(held[t])])
    \o FlattenSeq([i \in DOMAIN available |-> List(available[i].first)])
    \o SetToSeq(heap)

TypeOK ==
    /\ next \in [Elements -> Elements \cup {Null}]
    /\ first \in [Threads -> Elements \cup {Null}]
    /\ count \in [Threads -> Nat]
    /\ available \in Seq([first : Elements \cup {Null}, count : Nat])
    /\ held \in [Threads -> SUBSET Elements]
    /\ heap \subseteq Elements
    /\ fault \in {"none", "null_deref"}

\* Every object is in exactly one place: one thread's local list, one
\* shared batch, one thread's hands, or unallocated; lists are acyclic.
\* Batches cut off by one thread and installed by another, and objects
\* handed out by remove_element, are never reachable twice.
ElementsOwnedOnce ==
    /\ IsInjective(Places)
    /\ ToSet(Places) = Elements

\* element_count of each thread and the count of each shared batch equal
\* the length of the list they describe, across transfers (count reset to
\* new_count, batch original_count - new_count) and installs
\* (remaining_count - 1).
CountsMatchLists ==
    /\ \A t \in Threads : count[t] = Len(List(first[t]))
    /\ \A i \in DOMAIN available : available[i].count = Len(List(available[i].first))

\* A thread never keeps more than max_local_elements objects: add_element's
\* equality test catches every list that reaches the limit.
LocalCacheBounded == \A t \in Threads : count[t] <= MaxLocal

\* No call dereferences a null pointer: the walk in transfer_to_shared_pool
\* and the read of result->next of a popped batch always reach an object.
NoNullDereference == fault = "none"

=============================================================================
