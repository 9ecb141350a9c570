----------------------------- MODULE LinkedList -----------------------------
(***************************************************************************)
(* The intrusive LinkedList of src/unnamed/part_006.  Every element embeds *)
(* a ListNode (previous, successor), and so does each list's sentinel: a   *)
(* list is identified with its sentinel, and its contents are the         *)
(* elements met walking successor links from the sentinel back to it.     *)
(* insert and erase are static: they only follow and rewrite links.  The  *)
(* caller passes an iterator into the list, inserts an element that is in *)
(* no list, and erases an element that is in one.  Two call patterns the  *)
(* tests exercise are switched on by constants: erase(begin()) on an empty *)
(* list (EraseAtEnd) and moving a list onto itself (SelfMove).  op records *)
(* each call for the refinement of AbstractLists.                         *)
(***************************************************************************)
EXTENDS Naturals, Sequences, FiniteSets

CONSTANTS
    Lists,      \* LinkedList objects, each standing for its sentinel
    Elements,   \* elements with an embedded ListNode
    Null,       \* nullptr
    EraseAtEnd, \* the caller may erase end(), as in EmptyListOperations
    SelfMove    \* the caller may write list = std::move(list)

ASSUME Null \notin Lists \cup Elements /\ Lists \cap Elements = {}

VARIABLES
    successor,  \* per node: ListNode::successor
    previous,   \* per node: ListNode::previous
    op          \* the last call, for the refinement

vars == <<successor, previous, op>>

Nodes == Lists \cup Elements

\* The elements met from n on, following successor until the sentinel l,
\* at most k of them.
RECURSIVE Walk(_, _, _)
Walk(n, l, k) ==
    IF n = l \/ n = Null \/ k = 0 THEN <<>>
    ELSE <<n>> \o Walk(successor[n], l, k - 1)

\* begin() to end(): the contents of list l.
Contents(l) == Walk(successor[l], l, Cardinality(Elements))

InSomeList(e) == \E l \in Lists : \E i \in 1 .. Len(Contents(l)) : Contents(l)[i] = e

\* The index an iterator to node n of list l stands for; end() is one past
\* the last element.
IndexIn(l, n) ==
    IF n = l THEN Len(Contents(l)) + 1
    ELSE CHOOSE i \in 1 .. Len(Contents(l)) : Contents(l)[i] = n

\* The iterators into list l.
Positions(l) == {l} \cup {Contents(l)[i] : i \in 1 .. Len(Contents(l))}

Call(name, l, i, e, s) == op' = [name |-> name, list |-> l, index |-> i, value |-> e, source |-> s]

\* LinkedList(): the sentinel links to itself; elements start unlinked.
Init ==
    /\ successor = [n \in Nodes |-> IF n \in Lists THEN n ELSE Null]
    /\ previous = [n \in Nodes |-> IF n \in Lists THEN n ELSE Null]
    /\ op = [name |-> "init", list |-> Null, index |-> 0, value |-> Null, source |-> Null]

\* Fault variant: the element is linked in after position.
insert_after(l, position, element) ==
    LET prev_element == position
        next_element == successor[position]
    IN /\ ~InSomeList(element)
       /\ previous' = [previous EXCEPT ![next_element] = element, ![element] = prev_element]
       /\ successor' = [successor EXCEPT ![prev_element] = element, ![element] = next_element]
       /\ Call("insert", l, IndexIn(l, position), element, Null)

\* insert(position, element): link element in before position.
insert(l, position, element) ==
    LET next_element == position
        prev_element == previous[position]
    IN /\ ~InSomeList(element)
       /\ previous' = [previous EXCEPT ![next_element] = element, ![element] = prev_element]
       /\ successor' = [successor EXCEPT ![prev_element] = element, ![element] = next_element]
       /\ Call("insert", l, IndexIn(l, position), element, Null)

\* erase(position), and erase(element) which is erase(iterator(&element)):
\* unlink the node and null its links.
erase(l, position) ==
    LET next_element == successor[position]
        prev_element == previous[position]
    IN /\ previous' = [previous EXCEPT ![next_element] = prev_element, ![position] = Null]
       /\ successor' = [successor EXCEPT ![prev_element] = next_element, ![position] = Null]
       /\ Call("erase", l, IndexIn(l, position), position, Null)

\* The caller's iterators: any position to insert at; an element, or end()
\* where EraseAtEnd allows it, to erase.
Insert(l) == \E p \in Positions(l), e \in Elements : insert(l, p, e)
Erase(l) == \E p \in Positions(l) : (p # l \/ EraseAtEnd) /\ erase(l, p)

push_front(l) == \E e \in Elements : insert(l, successor[l], e)
push_back(l) == \E e \in Elements : insert(l, l, e)
pop_front(l) == (Contents(l) # <<>> \/ EraseAtEnd) /\ erase(l, successor[l])
pop_back(l) == (Contents(l) # <<>> \/ EraseAtEnd) /\ erase(l, previous[l])

\* clear(): reset the sentinel; the elements keep their links.
clear(l) ==
    /\ previous' = [previous EXCEPT ![l] = l]
    /\ successor' = [successor EXCEPT ![l] = l]
    /\ Call("clear", l, 0, Null, Null)

\* Fault variant: the first element's previous link is not redirected.
MoveAssign_noprev(this, other) ==
    LET p1 == [previous EXCEPT ![this] = previous[other]]
        s1 == [successor EXCEPT ![previous[other]] = this, ![this] = successor[other]]
    IN /\ this # other \/ SelfMove
       /\ IF successor[other] = other
          THEN /\ previous' = [previous EXCEPT ![this] = this]
               /\ successor' = [successor EXCEPT ![this] = this]
          ELSE /\ previous' = [p1 EXCEPT ![other] = other]
               /\ successor' = [s1 EXCEPT ![other] = other]
       /\ Call("move", this, 0, Null, other)

\* this = std::move(other), and LinkedList(LinkedList&&) which calls it: an
\* empty source clears this; otherwise other's chain is hung on this
\* sentinel and other is cleared.  this's old elements are not unlinked.
MoveAssign(this, other) ==
    LET sentinel_prev == previous[other]
        sentinel_next == successor[other]
        p1 == [previous EXCEPT ![sentinel_next] = this, ![this] = sentinel_prev]
        s1 == [successor EXCEPT ![sentinel_prev] = this, ![this] = sentinel_next]
    IN /\ this # other \/ SelfMove
       /\ IF successor[other] = other
          THEN /\ previous' = [previous EXCEPT ![this] = this]
               /\ successor' = [successor EXCEPT ![this] = this]
          ELSE /\ previous' = [p1 EXCEPT ![other] = other]
               /\ successor' = [s1 EXCEPT ![other] = other]
       /\ Call("move", this, 0, Null, other)

Next ==
    \E l \in Lists :
        \/ Insert(l) \/ Erase(l) \/ clear(l)
        \/ push_front(l) \/ push_back(l) \/ pop_front(l) \/ pop_back(l)
        \/ \E o \in Lists : MoveAssign(l, o)

Spec == Init /\ [][Next]_vars

-----------------------------------------------------------------------------

\* Every list is a closed ring through its sentinel: walking successor from
\* the sentinel returns to it, previous retraces the same ring backwards,
\* and no element is on two rings.  Stale links left by clear and by a
\* move assignment over a non-empty list must never be followed back into
\* a ring by a later insert, erase or move.
RingsWellFormed ==
    /\ \A l \in Lists :
          LET c == Contents(l)
              k == Len(c)
              last == IF k = 0 THEN l ELSE c[k]
          IN /\ successor[last] = l
             /\ previous[l] = last
             /\ \A i \in 1 .. k : previous[c[i]] = IF i = 1 THEN l ELSE c[i - 1]
    /\ \A l1, l2 \in Lists : l1 # l2 =>
          \A i \in 1 .. Len(Contents(l1)) : \A j \in 1 .. Len(Contents(l2)) :
              Contents(l1)[i] # Contents(l2)[j]

Abstract == INSTANCE AbstractLists WITH lists <- [l \in Lists |-> Contents(l)]

\* Every call changes the lists as the sequence operation it stands for:
\* insert before the iterator's index (push_front at 1, push_back at the
\* end), erase at it, clear, and a move that hands the source's elements
\* over and leaves a list moved onto itself unchanged, as the
\* MoveSelfAssignment test expects.
RefinesLists == Abstract!Spec

=============================================================================
