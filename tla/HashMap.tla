------------------------------ MODULE HashMap ------------------------------
(***************************************************************************)
(* turbokit::HashMap (src/unnamed/part_003): a main table of home slots    *)
(* plus a collision table of the same length walked by linear probing.     *)
(* A main slot keeps chain_length, the number of probe steps from its own  *)
(* index that reach all of its collision entries; a collision slot keeps   *)
(* main_index, the home slot owning it.  Both fields use the marker        *)
(* (size_t)-1 for "empty", written Invalid here.                           *)
(*                                                                         *)
(* The table is one record so that the code's nested calls (try_insert    *)
(* growing through reserve and resize_table, which re-run try_insert for   *)
(* every live entry) are operators over tables; each public operation is  *)
(* then one atomic action, as the code is single-threaded.                 *)
(* Index arithmetic x & (bucket_count - 1) is x % bucket_count: every      *)
(* bucket_count the code produces is a power of two.                       *)
(***************************************************************************)
EXTENDS Integers, Sequences, FiniteSets, FiniteSetsExt, SequencesExt

CONSTANTS
    Keys,        \* keys the program inserts
    Values,      \* values stored with them
    Hash,        \* HashFunction()(key): a function Keys -> Nat
    NoKey,       \* contents of a destroyed key slot
    NoValue,     \* contents of a destroyed value slot
    EntrySize,   \* sizeof(MainEntry), which scales the growth thresholds
    SizeLimit,   \* numeric_limits<size_t>::max() / 2, the reserve() limit
    Requests     \* arguments passed to reserve()

ASSUME Hash \in [Keys -> Nat]
ASSUME SizeLimit \in Nat
ASSUME NoKey \notin Keys /\ NoValue \notin Values

VARIABLES
    map,         \* the HashMap object: bucket_count, element_count and both tables
    op           \* the last public call, its arguments and its result

Invalid == -1                 \* (size_t)invalid_marker

\* The growth thresholds of try_insert (lines 488 and 502).
SmallTableLimit == (1024 * 1024) \div EntrySize
LargeTableLimit == (1024 * 1024 * 4) \div EntrySize

EmptyMain == [key |-> NoKey, value |-> NoValue, chain_length |-> Invalid]
EmptyCollision == [key |-> NoKey, value |-> NoValue, main_index |-> Invalid]

\* An iterator: value_ptr designates a slot of one of the tables, or is
\* nullptr; iterators compare equal iff their value_ptr are equal.
NullPtr == [table |-> "none", index |-> 0]
MainPtr(i) == [table |-> "main", index |-> i]
CollisionPtr(i) == [table |-> "collision", index |-> i]
Iter(b, c, p) == [bucket_index |-> b, collision_index |-> c, value_ptr |-> p]
end == Iter(0, 0, NullPtr)

Slots(m) == 0 .. m.bucket_count - 1
Wrap(m, x) == x % m.bucket_count
MainLive(m, i) == m.main_table[i].chain_length # Invalid
CollisionLive(m, j) == m.collision_table[j].main_index # Invalid

\* HashFunction()(key) & mask
Bucket(m, k) == Hash[k] % m.bucket_count

-----------------------------------------------------------------------------
(* Lookup *)

\* Fault variant: the unrolled scan stops one slot short of the chain end.
find_in_collision_chain_short(m, b, k) ==
    LET span == m.main_table[b].chain_length
        hits == {o \in 0 .. span - 2 :
                    LET e == m.collision_table[Wrap(m, b + o)]
                    IN e.main_index = b /\ e.key = k}
    IN IF hits = {}
       THEN Iter(b, Wrap(m, b + span), NullPtr)
       ELSE LET j == Wrap(m, b + Min(hits)) IN Iter(b, j, CollisionPtr(j))

find_in_collision_chain(m, b, k) ==
    LET span == m.main_table[b].chain_length
        hits == {o \in 0 .. span - 1 :
                    LET e == m.collision_table[Wrap(m, b + o)]
                    IN e.main_index = b /\ e.key = k}
    IN IF hits = {}
       THEN Iter(b, Wrap(m, b + span), NullPtr)
       ELSE LET j == Wrap(m, b + Min(hits)) IN Iter(b, j, CollisionPtr(j))

find(m, k) ==
    IF m.bucket_count = 0 THEN end
    ELSE LET b == Bucket(m, k)
             e == m.main_table[b]
         IN IF e.chain_length = Invalid THEN Iter(b, Invalid, NullPtr)
            ELSE IF e.key = k THEN Iter(b, Invalid, MainPtr(b))
            ELSE IF e.chain_length = 0 THEN Iter(b, b, NullPtr)
            ELSE find_in_collision_chain(m, b, k)

-----------------------------------------------------------------------------
(* Iteration: main table in index order, then the collision table. *)

\* The first live collision slot at index >= from, continuing iterator it.
NextCollision(m, it, from) ==
    LET live == {j \in from .. m.bucket_count - 1 : CollisionLive(m, j)}
    IN IF live = {}
       THEN [it EXCEPT !.collision_index = m.bucket_count - 1,
                       !.value_ptr = NullPtr]
       ELSE LET j == Min(live)
            IN [it EXCEPT !.collision_index = j, !.value_ptr = CollisionPtr(j)]

\* Fault variant: operator++ switches to the collision table one home
\* slot early, never visiting the last one.
advance_skip_last(m, it) ==
    IF it.collision_index = Invalid
    THEN LET live == {i \in it.bucket_index + 1 .. m.bucket_count - 2 :
                          MainLive(m, i)}
         IN IF live # {}
            THEN Iter(Min(live), Invalid, MainPtr(Min(live)))
            ELSE NextCollision(m, Iter(Invalid, 0, CollisionPtr(0)), 0)
    ELSE NextCollision(m, it, it.collision_index + 1)

\* iterator::operator++
advance(m, it) ==
    IF it.collision_index = Invalid
    THEN LET live == {i \in it.bucket_index + 1 .. m.bucket_count - 1 :
                          MainLive(m, i)}
         IN IF live # {}
            THEN Iter(Min(live), Invalid, MainPtr(Min(live)))
            ELSE NextCollision(m, Iter(Invalid, 0, CollisionPtr(0)), 0)
    ELSE NextCollision(m, it, it.collision_index + 1)

begin(m) ==
    LET mains == {i \in Slots(m) : MainLive(m, i)}
        colls == {j \in Slots(m) : CollisionLive(m, j)}
    IN IF m.bucket_count = 0 THEN end
       ELSE IF mains # {} THEN Iter(Min(mains), Invalid, MainPtr(Min(mains)))
       ELSE IF colls # {} THEN Iter(Min(colls), Min(colls), CollisionPtr(Min(colls)))
       ELSE end

-----------------------------------------------------------------------------
(* Removal *)

\* Fault variant: removal only decrements chain_length, without walking
\* back over slots that other buckets own.
TrimChain_kept(m, coll, b, len) == len

\* while (chain_len && collision_table[(b + chain_len - 1) & mask]
\*                        .main_index != b) --chain_len;
RECURSIVE TrimChain(_, _, _, _)
TrimChain(m, coll, b, len) ==
    IF len > 0 /\ coll[Wrap(m, b + len - 1)].main_index # b
    THEN TrimChain(m, coll, b, len - 1)
    ELSE len

\* remove(iterator), from a live main slot: the bucket's tail entry moves
\* into the home slot, or the slot is emptied when it has no chain.
remove_main(m, b, it) ==
    LET len == m.main_table[b].chain_length
    IN IF len # 0
       THEN LET tail == Wrap(m, b + len - 1)
                moved == m.collision_table[tail]
                coll == [m.collision_table EXCEPT ![tail] = EmptyCollision]
            IN [map |-> [m EXCEPT
                   !.collision_table = coll,
                   !.main_table[b] = [key |-> moved.key, value |-> moved.value,
                                      chain_length |-> TrimChain(m, coll, b, len - 1)]],
                iter |-> it, hangs |-> FALSE]
       ELSE [map |-> [m EXCEPT !.main_table[b] = EmptyMain],
             iter |-> advance(m, it), hangs |-> FALSE]

\* Fault variant: the tail slot is emptied without first moving its entry
\* into the erased slot c.
remove_collision_unfilled(m, b0, c, it) ==
    LET b == IF b0 = Invalid THEN m.collision_table[c].main_index ELSE b0
        len == m.main_table[b].chain_length - 1
        last == Wrap(m, b + len)
        coll == [m.collision_table EXCEPT ![last] = EmptyCollision, ![c] = EmptyCollision]
    IN IF len < 0 THEN [map |-> m, iter |-> it, hangs |-> TRUE]
       ELSE [map |-> [m EXCEPT !.collision_table = coll,
                               !.main_table[b].chain_length = TrimChain(m, coll, b, len)],
             iter |-> IF last = c THEN advance(m, it) ELSE it,
             hangs |-> FALSE]

\* remove(iterator), from a collision slot c: the bucket's tail entry is
\* moved into c and the tail slot emptied.  The owner is taken from the
\* iterator's bucket_index unless that is Invalid.  When that home slot has
\* no chain (chain_length 0 or Invalid) the unsigned chain_len - 1 wraps to
\* about 2^64 and the trimming loop does not come back: the call hangs.
remove_collision(m, b0, c, it) ==
    LET b == IF b0 = Invalid THEN m.collision_table[c].main_index ELSE b0
        len == m.main_table[b].chain_length - 1
        last == Wrap(m, b + len)
        lastEntry == m.collision_table[last]
        filled == IF last = c THEN m.collision_table
                  ELSE [m.collision_table EXCEPT
                          ![c].key = lastEntry.key, ![c].value = lastEntry.value]
        coll == [filled EXCEPT ![last] = EmptyCollision]
    IN IF len < 0 THEN [map |-> m, iter |-> it, hangs |-> TRUE]
       ELSE [map |-> [m EXCEPT !.collision_table = coll,
                               !.main_table[b].chain_length = TrimChain(m, coll, b, len)],
             iter |-> IF last = c THEN advance(m, it) ELSE it,
             hangs |-> FALSE]

\* Fault variant: remove() forgets --element_count.
remove_uncounted(m, it) ==
    IF it.collision_index = Invalid
    THEN remove_main(m, it.bucket_index, it)
    ELSE remove_collision(m, it.bucket_index, it.collision_index, it)

remove(m, it) ==
    LET m0 == [m EXCEPT !.element_count = @ - 1]
    IN IF it.collision_index = Invalid
       THEN remove_main(m0, it.bucket_index, it)
       ELSE remove_collision(m0, it.bucket_index, it.collision_index, it)

\* clear(): iter = begin(); while (iter != end) iter = remove(iter);
RECURSIVE ClearFrom(_, _)
ClearFrom(m, it) ==
    IF it.value_ptr = NullPtr THEN m
    ELSE LET r == remove(m, it) IN ClearFrom(r.map, r.iter)

clear(m) == ClearFrom(m, begin(m))

-----------------------------------------------------------------------------
(* Insertion and growth *)

\* The live entries as resize_table replays them: main table in index
\* order, then the collision table in index order.
LiveEntries(m) ==
    LET mains == SelectSeq([i \in 1 .. m.bucket_count |-> m.main_table[i - 1]],
                           LAMBDA e : e.chain_length # Invalid)
        colls == SelectSeq([i \in 1 .. m.bucket_count |-> m.collision_table[i - 1]],
                           LAMBDA e : e.main_index # Invalid)
    IN [i \in 1 .. Len(mains) + Len(colls) |->
          IF i <= Len(mains) THEN <<mains[i].key, mains[i].value>>
          ELSE <<colls[i - Len(mains)].key, colls[i - Len(mains)].value>>]

\* The smallest power of two >= n, doubling from limit.
RECURSIVE GrowLimit(_, _)
GrowLimit(limit, n) == IF limit < n THEN GrowLimit(2 * limit, n) ELSE limit

\* Probe steps from collision index start to the first empty collision slot.
ProbeDistance(m, start) ==
    Min({d \in 0 .. m.bucket_count - 1 : ~CollisionLive(m, Wrap(m, start + d))})

RECURSIVE try_insert(_, _, _), place(_, _, _), reserve(_, _), resize_table(_, _)

\* Fault variant: resize_table keeps the old element_count instead of
\* restarting it at 0 before the replay.
resize_table_counted(m, n) ==
    LET fresh == [bucket_count |-> n, element_count |-> m.element_count,
                  main_table |-> [i \in 0 .. n - 1 |-> EmptyMain],
                  collision_table |-> [i \in 0 .. n - 1 |-> EmptyCollision]]
    IN FoldLeft(LAMBDA t, e : try_insert(t, e[1], e[2]).map, fresh, LiveEntries(m))

resize_table(m, n) ==
    LET fresh == [bucket_count |-> n, element_count |-> 0,
                  main_table |-> [i \in 0 .. n - 1 |-> EmptyMain],
                  collision_table |-> [i \in 0 .. n - 1 |-> EmptyCollision]]
    IN FoldLeft(LAMBDA t, e : try_insert(t, e[1], e[2]).map, fresh, LiveEntries(m))

\* reserve(n) for n below the range limit; it always rebuilds the table,
\* also when the capacity does not change.
reserve(m, n) ==
    resize_table(m, GrowLimit(IF m.bucket_count = 0 THEN 1 ELSE m.bucket_count, n))

\* Fault variant: the new chain_length counts the home bucket's own steps
\* but not the slots of other buckets skipped while probing.
place_unskipped(m, k, v) ==
    LET it == find(m, k)
        b == it.bucket_index
        bc == m.bucket_count
        e == m.main_table[b]
    IN IF it.collision_index = Invalid
       THEN [map |-> [m EXCEPT !.element_count = @ + 1,
                        !.main_table[b] = [key |-> k, value |-> v, chain_length |-> 0]],
             iter |-> Iter(b, Invalid, MainPtr(b)), inserted |-> TRUE]
       ELSE IF bc < SmallTableLimit /\ bc < m.element_count * 4
       THEN place(reserve(m, bc + 1), k, v)
       ELSE LET d == ProbeDistance(m, it.collision_index)
                j == Wrap(m, it.collision_index + d)
                len == e.chain_length + 1
            IN IF (len >= 4 /\ bc < LargeTableLimit) \/ len >= bc \div 2
               THEN place(reserve(m, bc + 1), k, v)
               ELSE [map |-> [m EXCEPT !.element_count = @ + 1,
                                !.main_table[b].chain_length = len,
                                !.collision_table[j] = [key |-> k, value |-> v,
                                                        main_index |-> b]],
                     iter |-> Iter(b, j, CollisionPtr(j)), inserted |-> TRUE]

\* The part of try_insert after label resize: find the slot again and write
\* the entry, or grow (label expand) and start over.
place(m, k, v) ==
    LET it == find(m, k)
        b == it.bucket_index
        bc == m.bucket_count
        e == m.main_table[b]
    IN IF it.collision_index = Invalid
       THEN [map |-> [m EXCEPT !.element_count = @ + 1,
                        !.main_table[b] = [key |-> k, value |-> v, chain_length |-> 0]],
             iter |-> Iter(b, Invalid, MainPtr(b)), inserted |-> TRUE]
       ELSE IF bc < SmallTableLimit /\ bc < m.element_count * 4
       THEN place(reserve(m, bc + 1), k, v)
       ELSE LET d == ProbeDistance(m, it.collision_index)
                j == Wrap(m, it.collision_index + d)
                len == e.chain_length + 1 + d
            IN IF (len >= 4 /\ bc < LargeTableLimit) \/ len >= bc \div 2
               THEN place(reserve(m, bc + 1), k, v)
               ELSE [map |-> [m EXCEPT !.element_count = @ + 1,
                                !.main_table[b].chain_length = len,
                                !.collision_table[j] = [key |-> k, value |-> v,
                                                        main_index |-> b]],
                     iter |-> Iter(b, j, CollisionPtr(j)), inserted |-> TRUE]

try_insert(m, k, v) ==
    LET m1 == IF m.bucket_count = 0 THEN reserve(m, 16) ELSE m
        it == find(m1, k)
    IN IF it.value_ptr # NullPtr
       THEN [map |-> m1, iter |-> it, inserted |-> FALSE]
       ELSE IF m1.bucket_count < m1.element_count + 1
       THEN place(reserve(m1, m1.element_count + 1), k, v)
       ELSE place(m1, k, v)

-----------------------------------------------------------------------------
(* The public operations, each one atomic step of the single caller. *)

vars == <<map, op>>

Call(name, k, v, result) == [name |-> name, key |-> k, value |-> v, result |-> result]

\* HashMap() = default: no tables, nothing allocated.
Init ==
    /\ map = [bucket_count |-> 0, element_count |-> 0,
              main_table |-> [i \in {} |-> EmptyMain],
              collision_table |-> [i \in {} |-> EmptyCollision]]
    /\ op = Call("init", NoKey, NoValue, FALSE)

\* try_insert / insert / emplace / operator[]: never overwrites a present key.
Insert(k, v) ==
    LET r == try_insert(map, k, v)
    IN /\ map' = r.map
       /\ op' = Call("insert", k, v, r.inserted)

\* remove(key): find, then remove(iterator) when found.
RemoveKey(k) ==
    LET it == find(map, k)
    IN /\ map' = IF it.value_ptr # NullPtr THEN remove(map, it).map ELSE map
       /\ op' = Call("remove", k, NoValue, it.value_ptr # NullPtr)

\* reserve(n): throws range_error, leaving the table alone, at the limit.
Reserve(n) ==
    /\ map' = IF n >= SizeLimit THEN map ELSE reserve(map, n)
    /\ op' = Call("reserve", NoKey, NoValue, n < SizeLimit)

Clear ==
    /\ map' = clear(map)
    /\ op' = Call("clear", NoKey, NoValue, TRUE)

Next ==
    \/ \E k \in Keys, v \in Values : Insert(k, v)
    \/ \E k \in Keys : RemoveKey(k)
    \/ \E n \in Requests : Reserve(n)
    \/ Clear

Spec == Init /\ [][Next]_vars

-----------------------------------------------------------------------------
(* Properties *)

LivePtrs(m) ==
    {MainPtr(i) : i \in {i \in Slots(m) : MainLive(m, i)}}
        \cup {CollisionPtr(j) : j \in {j \in Slots(m) : CollisionLive(m, j)}}

SlotAt(m, p) ==
    IF p.table = "main" THEN m.main_table[p.index] ELSE m.collision_table[p.index]

\* The live slots that hold key k.
Holding(m, k) == {p \in LivePtrs(m) : SlotAt(m, p).key = k}

TypeOK ==
    /\ map.bucket_count \in {0} \cup {2^i : i \in 0 .. 16}
    /\ map.element_count \in 0 .. map.bucket_count
    /\ map.main_table \in
          [Slots(map) -> [key : Keys \cup {NoKey}, value : Values \cup {NoValue},
                          chain_length : {Invalid} \cup 0 .. map.bucket_count]]
    /\ map.collision_table \in
          [Slots(map) -> [key : Keys \cup {NoKey}, value : Values \cup {NoValue},
                          main_index : {Invalid} \cup Slots(map)]]
    /\ op \in [name : {"init", "insert", "remove", "reserve", "clear"},
               key : Keys \cup {NoKey}, value : Values \cup {NoValue},
               result : BOOLEAN]

\* Invariant 3 of the spec, which find_in_collision_chain relies on: every
\* live collision entry belongs to a live home slot and lies within that
\* slot's chain_length probe steps, whatever inserts, removals (moving a
\* tail entry, shrinking the chain) and rehashes came before.
ChainsCoverEntries ==
    \A j \in Slots(map) :
        CollisionLive(map, j) =>
            LET b == map.collision_table[j].main_index
            IN /\ MainLive(map, b)
               /\ (j - b) % map.bucket_count < map.main_table[b].chain_length

\* remove() takes the slot at b + chain_length - 1 as bucket b's tail entry
\* and moves it, with its assert compiled out (line 18): the slot at the end
\* of every chain must be owned by the chain's bucket.
ChainTailsOwned ==
    \A b \in Slots(map) :
        MainLive(map, b) /\ map.main_table[b].chain_length > 0 =>
            map.collision_table[Wrap(map, b + map.main_table[b].chain_length - 1)]
                .main_index = b

\* find(key) returns an iterator to the one live slot holding key, and end()
\* when no live slot holds it: no key is stored twice and no stored key is
\* out of reach of its lookup.
LookupFindsEntries ==
    \A k \in Keys :
        LET h == Holding(map, k)
        IN /\ Cardinality(h) <= 1
           /\ find(map, k).value_ptr = IF h = {} THEN NullPtr ELSE CHOOSE p \in h : TRUE

\* The slots visited from begin() by operator++ until end(); fuel bounds the
\* walk by the number of slots.
RECURSIVE Walk(_, _, _)
Walk(m, it, fuel) ==
    IF it.value_ptr = NullPtr \/ fuel = 0 THEN <<>>
    ELSE <<it.value_ptr>> \o Walk(m, advance(m, it), fuel - 1)

\* Iterating from begin() to end() (what the copy assignment and the
\* serializer do) visits every live entry exactly once.
IterationVisitsEachOnce ==
    LET w == Walk(map, begin(map), 2 * map.bucket_count + 1)
    IN /\ IsInjective(w)
       /\ ToSet(w) = LivePtrs(map)

\* The map the table represents: the value stored with each key.
Contents(m) ==
    [k \in Keys |-> IF Holding(m, k) = {} THEN NoValue
                    ELSE SlotAt(m, CHOOSE p \in Holding(m, k) : TRUE).value]

AM == INSTANCE AbstractMap WITH
        contents <- Contents(map), size <- map.element_count, Absent <- NoValue

\* Every call behaves as the abstract map says: insert stores a new key and
\* reports true, leaves a present key's value and reports false; remove
\* drops exactly that key; reserve (and the growth inside insert) loses and
\* changes nothing; clear empties the map; size() counts the entries.
RefinesAbstractMap == AM!Spec

=============================================================================
