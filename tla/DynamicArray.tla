---------------------------- MODULE DynamicArray ----------------------------
(***************************************************************************)
(* turbokit::DynamicArray / Vector (src/include/freelist.h 120-464, the   *)
(* text of vector.h).  One buffer memory_start .. memory_limit holds the  *)
(* live elements current_start .. current_end; removing at the front only *)
(* advances current_start, and a large enough gap is compacted back.      *)
(* memory_start is offset 0: arr.mem is the buffer, a function over       *)
(* 0 .. limit - 1, and start, end are current_start, current_end as       *)
(* offsets.  A cell holds a value, Raw (no object) or Moved (an object    *)
(* left in its moved-from state).  Element types split the code in two   *)
(* (is_trivially_copyable_v): for a trivially copyable type a move is a   *)
(* byte copy that leaves the source as it was.  Each public call is one   *)
(* atomic step of the single caller.                                      *)
(***************************************************************************)
EXTENDS Integers, Sequences, FiniteSets, FiniteSetsExt

CONSTANTS
    Values,            \* element values the caller stores
    DefaultValue,      \* ElementType(), what resize() constructs
    Raw,               \* a cell with no object in it
    Moved,             \* a moved-from object
    ElementSize,       \* sizeof(ElementType)
    TriviallyCopyable, \* std::is_trivially_copyable_v<ElementType>
    MaxSize,           \* bound on the number of elements the caller holds
    Requests           \* arguments passed to reserve() and resize()

ASSUME DefaultValue \in Values /\ Raw \notin Values /\ Moved \notin Values
ASSUME TriviallyCopyable \in BOOLEAN

VARIABLES
    arr,   \* the object: mem, limit, start, end, count (element_count)
    op     \* the last public call and its arguments

vars == <<arr, op>>

\* remove_range compacts once the gap reaches 512 KiB worth of elements.
Threshold == (1024 * 512) \div ElementSize

\* What a move leaves behind in its source.
MoveFrom(x) == IF TriviallyCopyable THEN x ELSE Moved

\* Run the destructor of every object in lo .. hi - 1.
Destroy(mem, lo, hi) == [x \in DOMAIN mem |-> IF x \in lo .. hi - 1 THEN Raw ELSE mem[x]]

\* relocate_elements(destination, source_begin, source_end): memmove, or
\* move assignment front to back or back to front as the ranges overlap;
\* either way each destination cell gets its source's old value and a
\* source cell not overwritten is left moved-from.
relocate_elements(mem, dst, sb, se) ==
    [x \in DOMAIN mem |->
        IF x \in dst .. dst + (se - sb) - 1 THEN mem[x - dst + sb]
        ELSE IF x \in sb .. se - 1 THEN MoveFrom(mem[x])
        ELSE mem[x]]

get_capacity(a) == a.limit - a.start

\* clear(): destroy the live objects, rewind to memory_start.
clear(a) == [a EXCEPT !.mem = Destroy(@, a.start, a.end),
                      !.start = 0, !.end = 0, !.count = 0]

\* allocate_memory: a fresh buffer of required_size cells, the old
\* element_count elements moved to its front, the old buffer freed.
allocate_memory(a, required) ==
    [mem   |-> [x \in 0 .. required - 1 |->
                   IF x < a.count THEN a.mem[a.start + x] ELSE Raw],
     limit |-> required, start |-> 0, end |-> a.count, count |-> a.count]

reserve(a, n) == IF n <= get_capacity(a) THEN a ELSE allocate_memory(a, n)

grow_capacity(a) == allocate_memory(a, Max({2 * get_capacity(a), 16}))

\* emplace_back: grow when current_end == memory_limit, then construct.
emplace_back(a, v) ==
    LET b == IF a.end = a.limit THEN grow_capacity(a) ELSE a
    IN [b EXCEPT !.mem[b.end] = v, !.end = @ + 1, !.count = @ + 1]

\* Fault variant: the middle-range path drops the tail instead of shifting it.
remove_range_tail_only(a, b, e) ==
    LET n == e - b
        r == IF b = a.start
             THEN [a EXCEPT !.mem = Destroy(@, b, e), !.start = e, !.count = @ - n]
             ELSE [a EXCEPT !.mem = Destroy(@, a.end - n, a.end),
                            !.end = @ - n, !.count = @ - n]
    IN IF r.start = r.end THEN [r EXCEPT !.start = 0, !.end = 0] ELSE r

\* remove_range(range_begin, range_end).  At the front the objects are
\* destroyed and current_start advances; a gap larger than what is left
\* and at least Threshold is compacted by moving the rest to memory_start
\* (move construction, or memmove).  Elsewhere the tail is relocated over
\* the range and its last removed_count cells destroyed.  An emptied array
\* rewinds to memory_start.
remove_range(a, b, e) ==
    LET n == e - b
        c == a.count - n
        r == IF b = a.start
             THEN LET m == Destroy(a.mem, b, e)
                  IN IF e # a.end /\ e > c /\ e >= Threshold
                     THEN [a EXCEPT !.mem = relocate_elements(m, 0, e, a.end),
                                    !.start = 0, !.end = c, !.count = c]
                     ELSE [a EXCEPT !.mem = m, !.start = e, !.count = c]
             ELSE [a EXCEPT !.mem = Destroy(relocate_elements(@, b, e, a.end),
                                            a.end - n, a.end),
                            !.end = @ - n, !.count = c]
    IN IF r.start = r.end THEN [r EXCEPT !.start = 0, !.end = 0] ELSE r

\* resize's body before its two trailing assignments: destroy the surplus,
\* or reserve and default-construct the new tail.
ResizeTail(a, n) ==
    IF a.count > n THEN [a EXCEPT !.mem = Destroy(@, a.start + n, a.end)]
    ELSE IF n > a.count
    THEN LET b == reserve(a, n)
         IN [b EXCEPT !.mem = [x \in DOMAIN @ |->
                                  IF x \in b.end .. b.start + n - 1
                                  THEN DefaultValue ELSE @[x]]]
    ELSE a

\* Fault variant: resize moves current_end but not element_count.
resize_end_only(a, n) ==
    LET b == ResizeTail(a, n) IN [b EXCEPT !.end = b.start + n]

\* resize(new_size), ending in current_end = current_start + new_size and
\* element_count = new_size.
resize(a, n) ==
    LET b == ResizeTail(a, n) IN [b EXCEPT !.end = b.start + n, !.count = n]

\* insert_at(position, value) before an element: grow if full, move-
\* construct the last element one cell further, relocate position ..
\* current_end one cell up.  The caller then assigns the value to the cell
\* at index i, and ++current_end, ++element_count are done here.
InsertShift(a, i) ==
    LET b  == IF a.end = a.limit THEN grow_capacity(a) ELSE a
        q  == b.start + i
        m1 == [b.mem EXCEPT ![b.end] = b.mem[b.end - 1],
                            ![b.end - 1] = MoveFrom(b.mem[b.end - 1])]
    IN [b EXCEPT !.mem = relocate_elements(m1, q + 1, q, b.end),
                 !.end = @ + 1, !.count = @ + 1]

insert_at(a, i, v) ==
    IF a.start + i = a.end THEN emplace_back(a, v)
    ELSE LET s == InsertShift(a, i) IN [s EXCEPT !.mem[s.start + i] = v]

\* operator=(const DynamicArray &other) with other == *this: clear(),
\* reserve(other.size()), then copy other.size() elements, read after the
\* clear.
assign_self(a) ==
    LET b == clear(a)
        c == reserve(b, b.count)
    IN c

-----------------------------------------------------------------------------
(* Public calls *)

Live(a) == [i \in 1 .. a.end - a.start |-> a.mem[a.start + i - 1]]

Call(name, i, n, v) == [name |-> name, index |-> i, count |-> n, value |-> v]

Init ==
    /\ arr = [mem |-> [x \in {} |-> Raw], limit |-> 0, start |-> 0, end |-> 0, count |-> 0]
    /\ op = Call("init", 0, 0, DefaultValue)

\* append(element) / emplace_back(args...).
Push(v) ==
    /\ arr.count < MaxSize
    /\ arr' = emplace_back(arr, v)
    /\ op' = Call("append", 0, 0, v)

\* insert_at(get_begin() + i, value).
Insert(i, v) ==
    /\ arr.count < MaxSize
    /\ arr' = insert_at(arr, i, v)
    /\ op' = Call("insert", i + 1, 0, v)

\* remove_at(get_begin() + i): throws out_of_range when i >= element_count.
RemoveAt(i) ==
    IF i >= arr.count
    THEN UNCHANGED arr /\ op' = Call("throw", 0, 0, DefaultValue)
    ELSE /\ arr' = remove_range(arr, arr.start + i, arr.start + i + 1)
         /\ op' = Call("erase", i + 1, 1, DefaultValue)

\* remove_range(get_begin() + i, get_begin() + j).
RemoveRange(i, j) ==
    /\ arr' = remove_range(arr, arr.start + i, arr.start + j)
    /\ op' = Call("erase", i + 1, j - i, DefaultValue)

\* remove_last() and remove_first(): throw out_of_range when empty.
RemoveLast ==
    IF arr.count = 0
    THEN UNCHANGED arr /\ op' = Call("throw", 0, 0, DefaultValue)
    ELSE /\ arr' = [arr EXCEPT !.mem[arr.end - 1] = Raw, !.end = @ - 1, !.count = @ - 1]
         /\ op' = Call("erase", arr.count, 1, DefaultValue)

\* Fault variant: remove_first() without its empty check.
remove_first_unchecked ==
    /\ arr' = remove_range(arr, arr.start, arr.start + 1)
    /\ op' = Call("erase", 1, 1, DefaultValue)

RemoveFirst ==
    IF arr.count = 0
    THEN UNCHANGED arr /\ op' = Call("throw", 0, 0, DefaultValue)
    ELSE /\ arr' = remove_range(arr, arr.start, arr.start + 1)
         /\ op' = Call("erase", 1, 1, DefaultValue)

Resize(n) ==
    /\ n <= MaxSize
    /\ arr' = resize(arr, n)
    /\ op' = Call("resize", 0, n, DefaultValue)

Reserve(n) ==
    /\ arr' = reserve(arr, n)
    /\ op' = Call("reserve", 0, n, DefaultValue)

Clear ==
    /\ arr' = clear(arr)
    /\ op' = Call("clear", 0, 0, DefaultValue)

\* Calls whose arguments are values from outside the array.
Next ==
    \/ \E v \in Values : Push(v)
    \/ \E i \in 0 .. arr.count, v \in Values : Insert(i, v)
    \/ \E i \in 0 .. arr.count : RemoveAt(i)
    \/ \E i, j \in 0 .. arr.count : i <= j /\ RemoveRange(i, j)
    \/ RemoveLast
    \/ RemoveFirst
    \/ \E n \in Requests : Resize(n) \/ Reserve(n)
    \/ Clear

Spec == Init /\ [][Next]_vars

\* vec = vec.
AssignSelf ==
    /\ arr' = assign_self(arr)
    /\ op' = Call("assign_self", 0, 0, DefaultValue)

SelfAssignSpec == Init /\ [][Next \/ AssignSelf]_vars

\* insert_at(get_begin() + i, (*this)[j]): the value is passed by reference
\* into the array itself and read after the shift.  Only calls that need
\* no growth are taken: with growth the reference dangles.
InsertOwn(i, j) ==
    /\ arr.count < MaxSize /\ arr.end < arr.limit /\ arr.start + i # arr.end
    /\ arr' = LET s == InsertShift(arr, i)
              IN [s EXCEPT !.mem[s.start + i] = s.mem[arr.start + j]]
    /\ op' = Call("insert", i + 1, 0, arr.mem[arr.start + j])

AliasSpec == Init /\ [][Next \/ \E i, j \in 0 .. arr.count - 1 : InsertOwn(i, j)]_vars

-----------------------------------------------------------------------------

Cells == Values \cup {Raw, Moved}

TypeOK ==
    /\ arr.limit \in Nat
    /\ arr.mem \in [0 .. arr.limit - 1 -> Cells]
    /\ {arr.start, arr.end} \subseteq Nat
    /\ arr.count \in Nat
    /\ op.name \in {"init", "append", "insert", "erase", "resize", "reserve",
                    "clear", "assign_self", "throw"}

\* element_count equals current_end - current_start and the live range lies
\* inside the buffer, after any sequence of calls: the premise of the
\* __builtin_unreachable() in emplace_back() and insert_at(), and of the
\* element_count arithmetic in remove_range() and resize().
ElementCountMatches ==
    /\ arr.count = arr.end - arr.start
    /\ 0 <= arr.start /\ arr.start <= arr.end /\ arr.end <= arr.limit

Sequence == INSTANCE AbstractSequence WITH contents <- Live(arr), Default <- DefaultValue

\* The live range current_start .. current_end, read in order, behaves as
\* the sequence of values the calls describe: every remove_range (front
\* removal, compaction, middle relocation), insert_at shift, growth and
\* resize keeps the elements and their order.
RefinesSequence == Sequence!Spec

\* For an element type that is not trivially copyable, no cell outside the
\* live range holds an object: each object moved out of (by compaction in
\* remove_range, growth in allocate_memory, the shift of insert_at) is
\* destroyed or overwritten.
NoLeakedObjects ==
    ~TriviallyCopyable =>
        \A x \in DOMAIN arr.mem \ (arr.start .. arr.end - 1) : arr.mem[x] = Raw

=============================================================================
