--------------------------- MODULE HashMapCursor ---------------------------
(***************************************************************************)
(* A caller holding one HashMap iterator (src/unnamed/part_003, struct    *)
(* iterator): it obtains it from find() or begin(), steps it with         *)
(* operator++, and erases through it with remove(iterator), keeping the   *)
(* iterator that remove returns, as an erase-while-iterating loop does.   *)
(* Any other mutating call may move entries (growth rehashes, removal     *)
(* moves a chain's tail), so after one the caller's iterator is stale and *)
(* is not used again (spec.md 4.5).                                       *)
(***************************************************************************)
EXTENDS HashMap

VARIABLES
    cursor,      \* the caller's iterator
    usable,      \* no other mutation happened since cursor was obtained
    hung         \* a remove(iterator) call never returned

cvars == <<map, op, cursor, usable, hung>>

CursorInit ==
    /\ Init
    /\ cursor = end
    /\ usable = FALSE
    /\ hung = FALSE

\* A mutating call other than through the cursor.
OtherCall ==
    /\ ~hung
    /\ Next
    /\ cursor' = cursor
    /\ usable' = FALSE
    /\ UNCHANGED hung

FindCursor(k) ==
    /\ ~hung
    /\ cursor' = find(map, k)
    /\ usable' = TRUE
    /\ UNCHANGED <<map, op, hung>>

BeginCursor ==
    /\ ~hung
    /\ cursor' = begin(map)
    /\ usable' = TRUE
    /\ UNCHANGED <<map, op, hung>>

\* ++it on an iterator that is not end().
AdvanceCursor ==
    /\ ~hung
    /\ usable /\ cursor.value_ptr # NullPtr
    /\ cursor' = advance(map, cursor)
    /\ UNCHANGED <<map, op, usable, hung>>

\* it = map.remove(it) on an iterator that is not end().  A call that
\* hangs leaves the caller stuck for good.
EraseAtCursor ==
    /\ ~hung
    /\ usable /\ cursor.value_ptr # NullPtr
    /\ LET r == remove(map, cursor)
       IN /\ map' = r.map
          /\ cursor' = r.iter
          /\ hung' = r.hangs
    /\ op' = Call("remove", SlotAt(map, cursor.value_ptr).key, NoValue, TRUE)
    /\ UNCHANGED usable

\* Callers whose iterators come from find() as well as from begin().
CursorNext ==
    \/ OtherCall
    \/ \E k \in Keys : FindCursor(k)
    \/ BeginCursor
    \/ AdvanceCursor
    \/ EraseAtCursor

CursorSpec == CursorInit /\ [][CursorNext]_cvars

\* Callers that only walk from begin(), as clear() and erase-if loops do.
WalkNext ==
    \/ OtherCall
    \/ BeginCursor
    \/ AdvanceCursor
    \/ EraseAtCursor

WalkSpec == CursorInit /\ [][WalkNext]_cvars

-----------------------------------------------------------------------------

\* remove(iterator) on a usable iterator returns, having removed exactly
\* the entry the iterator designates and left every other key's value in
\* place.
EraseRemovesDesignatedEntry ==
    [][EraseAtCursor =>
         LET k == SlotAt(map, cursor.value_ptr).key
         IN /\ ~hung'
            /\ Contents(map') = [Contents(map) EXCEPT ![k] = NoValue]
      ]_cvars

\* The keys an iteration from iterator it still visits.
KeysAhead(m, it) ==
    {SlotAt(m, p).key : p \in ToSet(Walk(m, it, 2 * m.bucket_count + 1))}

\* Erasing while iterating (it = remove(it) instead of ++it) neither skips
\* nor repeats an entry: the walk from the iterator remove() returns visits
\* exactly the keys the walk after the erased entry would have visited
\* (spec.md 4.5: remove returns the next live element in iteration order).
EraseContinuesIteration ==
    [][EraseAtCursor =>
         KeysAhead(map', cursor') = KeysAhead(map, advance(map, cursor))
      ]_cvars

=============================================================================
