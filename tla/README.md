# TLA+ models of turbokit

This directory holds TLA+ models of the turbokit C++ library
(`src/`) and the TLC configurations that check them. Each module is
written from the source lines named in `PROJECT.json` ("map").

## The system

turbokit is a header-only library of low-level building blocks. Its
parts and how they interact:

| Part | Source | State | Operations | Interacts with |
|---|---|---|---|---|
| HashMap | `src/unnamed/part_003` | `bucket_count`, `element_count`, `main_table` of home slots `[key, value, chain_length]`, and `collision_table` `[key, value, main_index]` | `try_insert`/`insert`/`emplace`/`operator[]`, `find`, `remove(key)`, `remove(iterator)`, `clear`, `reserve`, `resize_table`, copy/assign, iterators (`begin`, `end`, `++`) | Serialization (`serialize_map`) |
| SpinMutex | `src/include/sync.h` | atomic `is_locked` | `lock`, `unlock`, `try_lock` | MemoryPool's shared pool |
| SharedSpinMutex | `src/include/sync.h` | atomic `is_locked` and `shared_count` | `lock`, `unlock`, `try_lock`, `lock_shared`, `unlock_shared`, `try_lock_shared` | users' readers/writers |
| futex helpers, ThreadSynchronizer (Semaphore) | `src/include/sync.h` | a futex word, a `sem_t` | `wakeAllThreads`, `waitUntilValueReached`, `signal`, `wait`, `wait_for`, `wait_until` | the system clock (`wait_for`'s deadline) |
| MemoryPool (FreeList) | `src/include/freelist.h` 1-119 | a thread-local list with its count per thread; a shared vector of `(first, count)` batches under a SpinMutex | `add_element`, `remove_element`, `transfer_to_shared_pool`, `remove_from_shared_pool` | SpinMutex |
| DynamicArray / Vector | `src/include/freelist.h` 120-464 | `memory_start`, `memory_end`, `current_start`, `current_end`, `element_count` | `append`/`emplace_back`, `insert_at`, `remove_at`, `remove_range`, `remove_first`, `remove_last`, `resize`, `reserve`, `clear`, copy/move/assign | MemoryBlock |
| BasicArray / SimpleVector | `src/include/simple_vector.h` | `elements`, `count` | `resize`, `clear`, `operator[]`, destructor | the allocator |
| MemoryBlock handles | `src/unnamed/part_004` | an atomic `reference_count` per block; `block_ptr` per handle | create/destroy; Unique and Shared handle construction, copy, move, assign, destroy, `relinquish`, `take_ownership` | DynamicArray (buffers) |
| Clock (`time_manager`) | `src/unnamed/part_005` | 128-bit `previous_measurements`, calibration fields, atomic `synchronization_lock` | `get_current_time`, `perform_calibration` | none |
| LinkedList (intrusive) | `src/unnamed/part_006` | a sentinel node per list; `previous`/`successor` links embedded in every element | `insert`, `erase`, `push_*`/`pop_*`, `clear`, move construction and assignment, iteration | none |
| Serialization | `src/include/serialization.h` | a byte buffer | `serialize`/`deserialize` per type | HashMap, Vector |
| Logging | `src/include/logging.h` | `activeMessageLevel`, `messageMutex`; stdout's libc buffer and the terminal | `error`, `info`, `verbose`, `debug` (through `writeMessage`), `criticalError`/`fatal`, setting `currentLogLevel` | the program's own `std::cout` writes, which share stdout's buffer |

The example program (`src/example/turbokit_example.cpp`) drives each
part from one thread. The other files are tests (`src/tests`,
`src/unnamed/part_000`-`002`) and documentation.

What is hard in each part is listed under "hazards" in `PROJECT.json`. For
the HashMap these are:

- chains that interleave with other buckets' chains and wrap past the end
  of the table;
- removal, which moves a chain's tail and then trims the chain length;
- growth that happens in the middle of a replay;
- iterators that are kept across removals.

For the concurrent parts they are:

- Dekker-style flag/counter handshakes in SharedSpinMutex;
- batch hand-over in MemoryPool;
- reference counts shared by several handles;
- the Clock's calibration lock, which readers race with, and its
  unlocked two-half read of `previous_measurements`;
- the semaphore's EINTR retries and its deadline on the system clock;
- the logger's two streams, one buffered and one not, shared with the
  program's unsynchronised `std::cout` writes, and `quick_exit`, which
  drops the buffer.

## Modules

| Module | Models | Notes |
|---|---|---|
| `AbstractMap` | what a HashMap promises (spec.md 4.3-4.4): a map from keys to values, where insert never overwrites, remove drops the key, reserve changes nothing and clear empties the map | the abstract specification |
| `HashMap` | `turbokit::HashMap`: each public call is one atomic action built from operators that mirror the code's functions (`find`, `find_in_collision_chain`, `advance` = `operator++`, `begin`, `remove`, `clear`, `try_insert`/`place`, `reserve`, `resize_table`) | refines `AbstractMap` via `Contents(map)` |
| `HashMapCursor` | a caller holding one iterator: obtained from `find` or `begin`, advanced with `++`, erased through with `it = remove(it)` | composes `HashMap` with the iterator |
| `AbstractRWLock` | what the locks of `sync.h` promise: at most one exclusive holder, and never one alongside shared holders | abstract specification |
| `SpinMutex` | `SpinMutex` (sync.h 152-189): one process per thread; `pc` names the next atomic access of `lock` (relaxed spin, exchange), `unlock`, `try_lock` (load, exchange) | refines `AbstractRWLock` with no readers |
| `SharedSpinMutex` | `SharedSpinMutex` (sync.h 192-273): `is_locked`, `shared_count`, and per-thread `pc` through `lock` (spin, exchange, drain), `try_lock` (load, count, exchange, re-check/undo), `lock_shared` (spin, fetch_add, re-check, fetch_sub back-off), `unlock_shared`, `try_lock_shared` | refines `AbstractRWLock` |
| `AbstractSequence` | what the growable arrays promise: an ordered sequence under append, insert, set, erase, resize (truncate or pad with default values), clear; reserve, self-assignment and a throwing call leave it alone | abstract specification |
| `DynamicArray` | `DynamicArray`/`Vector` (freelist.h 120-464): the allocation `mem` with its cells (a value, `Raw` or `Moved`), `start`/`end` offsets, `count`; each public call is one action built from `allocate_memory`, `reserve`, `grow_capacity`, `emplace_back`, `insert_at`, `remove_range` (with front-gap compaction), `resize`, `clear` | refines `AbstractSequence` through the live cells |
| `MemoryPool` | `MemoryPool`/`FreeList` (freelist.h 1-119): intrusive `next` links, per-thread `first`/`count`, the shared `available` batches; `add_element` (with `transfer_to_shared_pool`), `remove_element` (with `remove_from_shared_pool`), and callers that `new`/`delete` objects | one step per call (see below) |
| `SimpleVector` | `BasicArray`/`SimpleVector` (simple_vector.h): `elements`, `count`, and the allocator's heap of addresses (unused, live, freed; allocated size; cells); `resize`, `clear`, element stores, destruction | refines `AbstractSequence`; `faults` records undefined behaviour |
| `Futex` | `waitUntilValueReached`, `waitForCondition`, `wakeAllThreads` (sync.h 38-63): the futex word, each waiter's `current_value` and `pc`, the kernel's wait queue, and writers that raise the word then wake all | liveness without the timeout |
| `ThreadSynchronizer` | `ThreadSynchronizer` (sync.h 276-322): the semaphore's value, steady time `now` and the system clock's `offset` from it, and per thread the call in progress (`pc`) with its start, duration and kernel deadline; `signal`, `wait`, `wait_for` and the kernel's steps (take a unit or block, wake on a post, EINTR, the CLOCK_REALTIME timer), plus steps of the system clock | `posted`, `waited`, `taken` count calls for the properties |
| `Logging` | logging.h: `activeMessageLevel`, the owner of `messageMutex`, per thread its operation and its stage inside `writeMessage`, stdout's buffer, the terminal, and every write made | a write is its identity; timestamps and text are left out |
| `Serialization` | serialization.h: `Encode` is the walk of `SerializeContext`, and the size pass `SizeOf` is its length, since both passes are that walk with `DataWriter::write` advancing by the same lengths, `Decode` is `DeserializeContext` over `DataReader`, as `RECURSIVE` operators over a schema (integers, strings, containers, optional, pair, tuples and member `serialize` as field lists, variant, maps); the actions are `serialize_to`, `serialize_to_buffer`, `serialize_to_string_view`, a buffer received from elsewhere, `deserialize_buffer` and `deserialize_buffer_part` | pure operators checked over bounded inputs |
| `MemoryBlocks` | `MemoryBlock`, `UniqueMemoryBlock`, `SharedMemoryBlock` (part_004): per block the heap state (unused, live, freed) and `reference_count`; per handle `block_ptr`; the raw pointers a client holds, split into uncounted (from `UniqueMemoryBlock::relinquish` or never adopted), counted (from `SharedMemoryBlock::relinquish`) and borrowed (from the implicit conversion to `MemoryBlock *`, which owns nothing) | every statement a client can write with the handles is one action; whether a borrowed pointer is handed to a constructor is the constant `AdoptsConverted` |
| `AbstractLists` | what a LinkedList promises: a sequence per list, with insert at an index, erase, clear, and a move that hands the elements over (a self-move keeps them) | abstract specification |
| `LinkedList` | the intrusive `LinkedList` (part_006): `successor` and `previous` for every sentinel and element; `insert`, `erase`, `push_*`, `pop_*`, `clear`, move assignment; the contents of a list are a `RECURSIVE` walk from its sentinel | refines `AbstractLists` through the walk |
| `Clock` | `Clock::get_current_time` and `perform_calibration` (part_005): the shared fields, the lock, real time, and per thread the `pc` and locals of the call in progress | one step per atomic access |
| `MC_*` | constants and model values for TLC; `MC_Sync` checks the four primitives of sync.h in one run, `MC_Logging` runs `demonstrateLogging` | |

How the HashMap module corresponds to the code:

- **State.** `map` is the object's four fields, with tables as functions
  over `0..bucket_count-1`. A slot is empty when its `chain_length` or
  `main_index` is `Invalid` (-1), which stands for `(size_t)-1`. The index
  mask `& (bucket_count-1)` is written `% bucket_count`; every
  `bucket_count` the code produces is a power of two.
- **Operators.** Nested calls are operators over the table record:
  - `try_insert` calls `reserve`, which calls `resize_table`;
    `resize_table` then calls `try_insert` again for every live entry.
    These are `RECURSIVE` operators, with the replay as a `FoldLeft` over
    `LiveEntries`.
  - `place` is the code after the `resize:` label. It includes both
    `goto expand` paths.
- **Iterators.** An iterator is the record
  `[bucket_index, collision_index, value_ptr]`, where `value_ptr` names
  the slot or is `NullPtr`.
- **Actions.** `Init` is the default constructor, which allocates no
  tables. The actions are:
  - `Insert(k, v)`: `insert`/`emplace`/`operator[]`, which never
    overwrite.
  - `RemoveKey(k)`: `remove(key)`.
  - `Reserve(n)`: throws `range_error` and leaves the map alone when
    `n >= SizeLimit`.
  - `Clear`.
- **Call record.** `op` records the call and its result, so that the
  refinement mapping can tell an insert that stored from one that found
  the key.
- **Hangs.** `remove(iterator)` hangs when it computes an unsigned
  `chain_length - 1` that wraps around. It returns `hangs = TRUE` in that
  case; the code would loop about 2^64 times.

How the other modules correspond to the code:

- **DynamicArray.** `arr` is `[mem, limit, start, end, count]`, with
  `memory_start` at offset 0 of `mem`. `MoveFrom(x)` is what a moved-from
  cell holds: `x` for a trivially copyable type, `Moved` otherwise.
  `relocate_elements` reads every source cell from the state before the
  move, like the code's memmove, and its element-wise loop for other types.
  Compaction in `remove_range` happens when the front gap reaches
  `Threshold = (1024 * 512) / sizeof(ElementType)`. A call that throws
  `out_of_range` is the step `Call("throw", ...)` and changes nothing.
  `SelfAssignSpec` adds `operator=` of an array to itself, and `AliasSpec`
  adds `insert_at` with a reference into the same array. Each is a
  separate specification so the plain `Spec` stays free of them.
- **MemoryPool.** Each call is one atomic step. The thread-local pool is
  read and written only by its own thread, and the shared vector only
  inside the SpinMutex. So the lock's acquire and release move to the ends
  of the call, and the interleavings of whole calls are all the
  interleavings there are. A dereference of a null pointer sets
  `fault = "null_deref"`, and nothing moves after it.
- **SimpleVector.** The allocator is explicit. `allocate()` may return any
  address that is not live, a freed one included. Undefined behaviour is
  recorded in `faults` and the program goes on:
  - a double free;
  - a size mismatch on deallocate;
  - a write to freed memory;
  - move assignment into raw storage.
- **Futex.** A waiter's `pc` runs `load` → `check` → `wait` (FUTEX_WAIT)
  → `asleep` → `load`. FUTEX_WAIT is one kernel step: it compares the
  word with `current_value` and either returns (EAGAIN) or enqueues the
  caller. `timeout` stands for both the 1 s timeout and EINTR. Writers
  are the callers' side of the protocol; the library has no caller of its
  own. A writer stores `value + 1` and then calls `wakeAllThreads`.
- **Serialization.** A schema record stands for the static C++ type.
  - Bytes are `0..Base-1`, and `size_t` is `SizeBytes` bytes,
    little-endian as `memcpy` lays them out on the host.
  - Products in `size_t` wrap modulo `Base^SizeBytes`.
  - A decode yields `[status, value, rest]`. The status is "ok", "error"
    (`DataFormatError`), "overread" (a read past the buffer), or
    "invalid_bool".
  - A map value is a set of key/value pairs, written in an arbitrary fixed
    iteration order.
  - `DecodeMap` keeps the first entry of a repeated key, as `emplace`
    does.
  - A tuple, or a struct whose `serialize` member calls `x(a, b, ...)`,
    is a list of fields encoded one after the other; `TestData` of the
    example is `(int, string, double)` scaled to `(u8, string, u8)`.
  - A variant is `<<index, value>>`; an index that names no alternative
    leaves the default value and reads nothing more, as
    `deserialize_variant_helper` does.
  - `serialize_to_buffer` writes into a fresh, uninitialised buffer;
    `serialize_to_string_view` throws when the view is too small and
    leaves the bytes after the encoding as they were.
- **ThreadSynchronizer.** Time is in ticks, `Sec` to a second. `wait_for`
  computes `system time + d`, splits it into `tv_sec` and `tv_nsec`
  (`ToTimespec`), and the kernel compares the system time with
  `tv_sec * Sec + tv_nsec`. A blocked call ends by taking a posted unit
  (`woken`), by the timer (`expire`), or by EINTR (`interrupted`), after
  which the loop calls again with the same `time_spec`. `sem_timedwait`
  takes an available unit without looking at the deadline, as POSIX
  says. `wait_until` is `wait_for` of its computed duration. The
  `printf`/`abort` paths for other errors are not reachable: the model's
  kernel returns no other error.
- **Logging.** Each thread runs a program of operations (`Program`).
  `writeMessage` is four steps under the mutex: lock, flush the secondary
  stream, print on the primary, flush it and unlock; for `MSG_ERROR` the
  primary is stderr, which is unbuffered, so printing puts the message
  on the terminal and flushing stdout is the secondary flush. A
  `std::cout` write goes into stdout's buffer, which libc may flush in
  part at any time (a full buffer, or a line of a line-buffered
  terminal). `criticalError` is `error()` and then `quick_exit`, which
  ends the process without flushing; main's return is `exit()`, which
  flushes. The level is a plain variable read without the lock; its
  store races with the loads, so a log call sees the old or the new
  level, which is the interleaving of the two steps.

- **MemoryBlocks.** An assignment `h = expr` is what C++ makes of it:
  the expression builds a temporary, move assignment swaps it into `h`,
  and the temporary's destructor releases `h`'s old block. So `makeBuffer`,
  adopting a raw block and `SharedMemoryBlock`'s copy constructor each
  release the old block in the same action, while the copy-assignment
  operator, which the code writes by hand, overwrites `block_ptr` and
  releases nothing. Each handle's `block_ptr` is private to the thread
  using it and every access to `reference_count` is one
  `fetch_add`/`fetch_sub`, so one action per statement covers concurrent
  owners. A freed block is never reused by the model, which keeps a
  stale pointer to it visible to the properties. `MemoryBlock *raw = h`
  adds `h`'s block to the borrowed pointers; `MemoryBlock *raw =
  createMemoryBlock(n)` mallocs a block and frees it again in the same
  step, since the temporary's destructor runs at the end of the
  statement. With `AdoptsConverted` the adopting constructors take
  borrowed pointers as well as owning ones, as the tests of part_002 do.
- **LinkedList.** A list is its sentinel. `insert` and `erase` are
  static in the code and only rewrite links; the caller's iterator is any
  node of the list (`Positions`), and the element inserted is in no list.
  `clear` and move assignment reset only the sentinel and leave the
  dropped elements' links as they were. `op` records each call for the
  refinement. Two caller patterns the tests use are switched on by
  constants: `EraseAtEnd` (erasing `end()`, as `EmptyListOperations` does)
  and `SelfMove` (`list = std::move(list)`).
- **Clock.** Real time `now` advances by `Tick`; the TSC reads `Rate`
  cycles per ns. The constants scale the code's: the factor's `<< 16` is
  `<< Shift`, the calibration and reset intervals are in model ns,
  `uint64_t` is `Width` bits and `INT64_MAX` is `Int64Max`. The reader's
  retry loop loads the low and high halves of `previous_measurements` as
  two steps in either order (`LoadOrders`): the plain 128-bit read races
  with the calibrating thread's `cmpxchg16b`, and the build decides the
  order. Calibration takes the lock (`exchange`), swaps in the new
  measurement, updates the interval fields, then stores the factor and
  the threshold as two steps, and releases the lock. `fault` records a
  division by a factor of 0. Program start is `StartTime`, so the first
  measurement is not at TSC 0, as on real hardware.

## Runs

| Run | cfg | Expect | Checks |
|---|---|---|---|
| `hashmap_core` | `MC_HashMap.cfg` | pass | `TypeOK`; `ChainsCoverEntries` (every collision entry lies within its owner's chain); `ChainTailsOwned` (a chain's last slot is owned by its bucket); `LookupFindsEntries` (each key is held at most once and `find` returns it); `IterationVisitsEachOnce` (from `begin`, `++` visits every live slot exactly once); `RefinesAbstractMap` (the table implements `AbstractMap`) |
| `cursor_walk` | `cursor_walk.cfg` | pass | `EraseRemovesDesignatedEntry` for iterators taken from `begin()`: erasing never hangs and removes exactly the designated entry |
| `dynamic_array` | `dynamic_array.cfg` | pass | `TypeOK`; `ElementCountMatches` (`count` equals the live cells between `start` and `end`, which are all constructed); `RefinesSequence` (every call, through growth, front-gap compaction and the throwing paths, implements `AbstractSequence`) |
| `memory_pool` | `MC_MemoryPool.cfg` | pass | `TypeOK`; `ElementsOwnedOnce` (every object is in exactly one list, batch, thread's hands or the heap, and lists are acyclic); `CountsMatchLists`; `LocalCacheBounded`; `NoNullDereference` |
| `simple_vector` | `simple_vector.cfg` | pass | `TypeOK`; `RefinesSequence` across reallocation, clear and re-creation |
| `sync` | `sync.cfg` | pass | Each primitive of sync.h from its own initial state (`prim`). Futex: `NoLostWakeup` (a sleeper whose loaded value is stale always has a `wakeAllThreads` coming); `WaitCompletes` (every waiter returns from `waitUntilValueReached`, with no fairness on the timeout). SpinMutex: `LockFlagOwned` (the flag is raised exactly while someone holds the mutex); `RefinesMutex`; `SomeLockerProceeds` (while a thread is in `lock()`, eventually someone holds the mutex). SharedSpinMutex: `TypeOK`; `SharedLockFlagOwned` (is_locked is raised exactly while a writer or a try_lock between exchange and re-check owns it); `RefinesRWLock`; `WriterDrainCompletes` (a writer that won the exchange eventually enters). Semaphore: `SignalsConserved` (every return from `wait()` or `wait_for` used up one `signal()`, across EINTR retries); `TimedWaitLastsItsDuration` (a `wait_for(d)` that returns ETIMEDOUT has waited `d` of steady time) |
| `sync_clock_step` | `sync_clock_step.cfg` | violation | `TimedWaitLastsItsDuration` with one step of the system clock (finding 20) |
| `serialization` | `serialization.cfg` | pass | `TypeOK`; `RoundTrip` (through `serialize_to`, `serialize_to_buffer`, `serialize_to_string_view`, and `deserialize_buffer` or `deserialize_buffer_part`); `NoUndefinedRead` (every buffer of up to 4 bytes is decoded or rejected); `AcceptsOnlyEncodings` (what `deserialize_buffer` accepts from outside is exactly the encoding of the value it returns, plus the rest that `deserialize_buffer_part` hands back) for integers, strings, `vector<uint8_t>`, pairs, vectors of strings, maps, a 3-tuple and the example's `TestData` |
| `memory_block` | `memory_block.cfg` | pass | `TypeOK`; `NoUseAfterFree` (no handle or owning raw pointer ever points at a freed block, across copies, moves, swaps, conversions to `MemoryBlock *` and relinquish/take_ownership hand-offs, for a client that adopts only pointers from create or relinquish); `CountCoversOwners` (`reference_count` covers every shared owner, so no `fetch_sub` reaches 0 while one remains) |
| `linked_list` | `linked_list.cfg` | pass | `RingsWellFormed` (every list is a closed ring through its sentinel, `previous` retraces it, and rings are disjoint, despite the stale links `clear` and move leave); `RefinesLists` (every call implements `AbstractLists`) |
| `clock` | `clock.cfg` | pass | `NoDivisionByZero`: two threads reading while one calibrates, with either load order of the torn read, never extrapolate with a factor of 0 |
| `logging` | `logging.cfg` | pass | `OutputFollowsHappensBefore`: main runs `demonstrateLogging` while a worker logs, raises the level, writes to `std::cout` and calls `criticalError`; everything on the terminal, from stdout or stderr, comes after every write that happened before it (earlier in the same thread, or printed under `messageMutex` earlier), even after `quick_exit`; `LoggedMessagesSurviveExit`: every log message whose `writeMessage` returned is on the terminal when the process ends, including an info message another thread prints after the fatal error and before `quick_exit`, which only its own `fflush` at line 51 saves |

### Further violations

The runs above are the project's standing checks. The findings below are
reproduced by the cfgs that follow. Each checks one property and is
expected to be violated:

| cfg | Module | Property | Finding |
|---|---|---|---|
| `cursor_find_erase.cfg` | `MC_HashMapCursor` | `EraseRemovesDesignatedEntry` with iterators from `find()` | 1 |
| `cursor_walk_order.cfg` | `MC_HashMapCursor` | `EraseContinuesIteration` | 2 |
| `vector_insert_nontrivial.cfg` | `MC_DynamicArray` | `RefinesSequence` | 3 |
| `vector_compaction_leak.cfg` | `MC_DynamicArray` | `NoLeakedObjects` | 4 |
| `vector_self_assign.cfg` | `MC_DynamicArray` | `RefinesSequence` under `SelfAssignSpec` | 5 |
| `vector_insert_alias.cfg` | `MC_DynamicArray` | `RefinesSequence` under `AliasSpec` | 6 |
| `pool_max_one.cfg`, `pool_zero_max.cfg` | `MC_MemoryPool` | `NoNullDereference` | 7, 8 |
| `simple_vector_clear_grow.cfg` | `MC_SimpleVector` | `NoFreedMemoryUse` | 9 |
| `simple_vector_shrink_free.cfg` | `MC_SimpleVector` | `DeallocSizeMatches` | 10 |
| `simple_vector_leak.cfg` | `MC_SimpleVector` | `NoLeakedBuffer` | 11 |
| `simple_vector_grow_string.cfg` | `MC_SimpleVector` | `ConstructBeforeAssign` | 12 |
| `serialization_wide.cfg` | `MC_Serialization` | `NoUndefinedRead` | 13 |
| `serialization_optional.cfg` | `MC_Serialization` | `NoUndefinedRead` | 14 |
| `memory_block_leak.cfg` | `MemoryBlocks` | `NoLeakedBlock` | 15 |
| `linked_list_self_move.cfg` | `LinkedList` | `RefinesLists` with `SelfMove` | 16 |
| `linked_list_erase_end.cfg` | `LinkedList` | `RingsWellFormed` with `EraseAtEnd` | 17 |
| `clock_monotonic.cfg` | `Clock` | `MonotonicPerThread` | 18 |
| `serialization_variant.cfg` | `MC_Serialization` | `AcceptsOnlyEncodings` for a variant | 19 |
| `memory_block_temporary.cfg` | `MemoryBlocks` | `NoUseAfterFree` with `AdoptsConverted` | 21 |

Run one with `tlc -workers 2 -config <cfg> <Module>`.

### Bounds, and why they are enough

- **Keys and hashes.** There are five keys, with hashes 15, 31, 47, 0
  and 16. In a table of 16 buckets, three keys share bucket 15 and two
  share bucket 0. Chains therefore wrap past the end of the table and
  interleave with another bucket's chain. In tables of 4 or 8 buckets the
  buckets differ again.
- **Values.** There are two values, a symmetry set. Insert-does-not-overwrite
  needs a second value to be observable.
- **Entry size.** `EntrySize = 16` makes both growth thresholds
  (`1M/sizeof`, `4M/sizeof`) far above the tables reached. The
  `bc < count*4` expansion and the `chain_len >= bc/2` test both decide.
- **Reserve requests.** `Requests = {0, 32, SizeLimit}` covers a
  same-size rebuild, a growth to 32 buckets, and the `range_error` path.
- **What the runs reach.** A reachability check found:
  - chains of length 3;
  - chains that skip a foreign slot;
  - wrapped chains;
  - collisions in tables of 4 and 8 buckets;
  - `bucket_count` of 32.
- **Cursor key sets.** `cursor_walk` and `cursor_walk_order` use the four
  keys {15, 31, 47, 0}, which keeps the run under a minute. That still
  gives a wrapping three-entry chain and a foreign bucket 0.

- **Threads.** The lock runs use three threads, a model-value set. That is
  enough for a writer, a reader and a third thread (another writer or a
  try_lock) to race, which is every pairing of the handshake. Each thread
  calls any operation any number of times; the state space is finite
  because `shared_count` is bounded by the thread count.

- **DynamicArray.** `MaxSize = 3` elements, two values `d` (the
  default) and `v`, and reserve requests {0, 2, 5}. The element size is
  131072 bytes, so `Threshold = 4`. A front gap of 4 cells then triggers
  compaction inside the bound, which the code's real threshold (524288
  bytes) reaches only with far larger arrays. A reachability check
  confirmed compaction, growth by `grow_capacity` and every throwing path.
- **MemoryPool.** Two threads, five objects, `max_local_elements = 3`,
  and the objects as a symmetry set. A thread's fourth `add_element`
  keeps `max(3/8, 1) = 1` object and moves the other 2, which the other thread can take. Transfers, installs of a
  batch by another thread, and objects freed and allocated again all
  happen. The code's usual limit of 16 would need 17 objects, and TLC
  cannot enumerate the permutations of a symmetry set that large.
- **SimpleVector.** Sizes up to 2 and three addresses. Three addresses
  let the allocator return a freed address while another is still live,
  which is what the use-after-free and double-free traces need.
- **Futex.** Two waiters for the value 2 and two writers that raise the
  word to 2. That gives a raise between a waiter's load and its
  FUTEX_WAIT, a waiter woken by one writer that sleeps again before the
  other writes, and both waiters asleep at a wake.
- **Semaphore.** Two threads, `Sec = 2` ticks to a second, durations of
  1 to 3 ticks, two posts, one EINTR and steady time up to 3 ticks. Odd
  deadlines give `tv_nsec` a non-zero value; a thread can block in
  `wait()` and be woken by the other's post, be interrupted and call
  again, or time out, with the other thread in any of its calls. The
  passing run has no clock steps (`MaxSteps = 0`); `sync_clock_step.cfg`
  allows one.
- **Logging.** Two threads: main with the six operations of
  `demonstrateLogging` (its `verbose` call is skipped at the default
  level) and a worker with five (an info, a level change to verbose that
  lets its verbose call through, a `std::cout` write and
  `criticalError`). That covers an error message after buffered stdout
  text of the same thread, messages of both threads on both streams,
  libc flushing at any point, and both ways the process ends.
- **The `sync` run.** The four primitives are alternatives of the initial
  state, so the state counts add up (about 31,000 states). Running them
  as one interleaved system would multiply them to far more than TLC can
  explore, and would show nothing more, since they share no state.
- **Serialization.** Bytes of 2 bits and a 2-byte `size_t`, so sizes wrap
  at 16, and values of up to 2 entries. Every buffer of up to 4 bytes is
  received. The `size_t` wrap is the 64-bit one scaled down: 2 bytes times
  a length of 8 wraps to 0, as 2 times 2^63 does.

- **MemoryBlocks.** Three blocks, two UniqueMemoryBlocks and three
  SharedMemoryBlocks, `reference_count` up to 3. Three shared handles let
  a block have three owners while another handle is copied over one of
  them, and let a relinquished pointer be taken by a handle other than
  its source; three blocks let a unique, a shared and a raw block coexist.
- **LinkedList.** Two lists and three elements: a move between two
  non-empty lists, an element still linked into a cleared ring and then
  inserted into the other list, and rings of every length up to 3.
- **Clock.** Two threads, `Rate = 2`, `Shift = 1`, intervals of 3 and 2
  ns, real time from 3 to 6 ns. The first calibration happens at the
  shortened interval (`interval / 10`, which is 0 here), the second
  computes a factor, and readers then extrapolate while a third
  calibration runs: a thread can load the halves around the calibrating
  CAS, read a threshold published by the other thread, and lose the lock.
  At `Width = 16` the `<< 16 >> 16` overflow check never fails; it would
  need more cycles between calibrations than the bound gives.

## Fairness

For the locks, each thread's steps after it has called are weakly fair
(`WF_vars(Step(t))`). The OS keeps running a runnable thread. A thread
holding a lock eventually releases it, which is the caller's side of the
lock contract. Calling again is not fair: a thread may stay idle forever.
No strong fairness is assumed. A spin loop samples the flag at arbitrary
moments and can miss every short window in which it is free. For that
reason only progress of *some* thread (`SomeLockerProceeds`) and
completion of a writer's drain (`WriterDrainCompletes`) are claimed, never
freedom from starvation for each thread.

None is assumed, and no liveness property is checked, for the HashMap. It is
a sequential data structure: each call is one step of one caller, and the
caller may stop at any time. The only liveness question is "does a call
return?", and the model turns that into a safety property through the
`hung` flag.

For `Futex`, the waiters' and writers' runnable steps are weakly fair,
for the same reason as the locks. A sleeping waiter is woken only by a
writer's `wakeAllThreads`: the `timeout` step (the 1 s timeout, or EINTR)
has no fairness. `WaitCompletes` therefore shows that the wake protocol
alone brings every waiter back, and that the timeout is only a backstop.

`Clock`'s specification makes each thread's steps weakly fair (a
runnable thread keeps running), but no liveness property is checked for
it: the only one, that every call returns, holds by the shape of the
call (no step waits), and TLC needs minutes to confirm it over the full
state space.

In the `sync` run each primitive's fairness applies only when the
initial state picked it (`prim = "futex" => F!Fairness`, and so on): a
primitive that never moves has nothing to be fair to. The semaphore
assumes no fairness and makes only safety claims. Whether a `wait()`
returns depends on its caller posting, which the library does not do.

The logger assumes no fairness either. Its property is about the order
of what reaches the terminal, a safety claim.

DynamicArray, MemoryPool, SimpleVector, Serialization, MemoryBlocks and
LinkedList assume no fairness. Their callers may stop at any time, and they make only safety
claims. The pool's calls are one step each and cannot block.

## Findings

1. **`remove(iterator)` hangs on an iterator from `find()` that has been
   advanced.**
   - `operator++` in the collision table keeps a stale `bucket_index`.
   - `remove` trusts that index, computes `chain_length - 1` on a slot
     with no chain, and loops for about 2^64 steps.
   - Trace: insert keys with hashes 15, 31, 0 and 16 into 16 buckets,
     `find` the key with hash 16, then erase twice through the iterator
     `remove` returns.
2. **Erase-while-iterating visits a wrapped chain's tail twice.** This
   contradicts spec.md 4.5, which says `remove` returns the next live
   element.
3. **`insert_at` loses a value for types that are not trivially copyable**
   (freelist.h:453). The backward relocation assigns into the cell that
   was just move-constructed.
4. **Front-gap compaction leaks** (freelist.h:286). For a non-trivially-
   copyable type it moves the live elements down, then destroys the wrong
   range: the moved-from originals are never destroyed.
5. **Self-assignment empties the array** (freelist.h:163). `operator=`
   calls `clear()` before reading `other.size()`. The test
   `SelfAssignment` (test_vector.cpp:292) expects the contents kept.
6. **`insert_at` with a reference into the same array** (freelist.h:454)
   reads the value after the shift, so it inserts the neighbour.
7. **`max_local_elements = 1`** (freelist.h:52). A transfer keeps the one
   object and pushes an empty batch `(nullptr, 0)`. The thread that pops
   that batch dereferences null.
8. **`max_local_elements = 0`** (freelist.h:104). The first
   `add_element` transfers from an empty list and reads `nullptr->next`.
   The test `ZeroMaxThreadLocal` uses this setting.
9. **SimpleVector double free** (simple_vector.h:74). `clear()` leaves
   `elements` pointing at the freed buffer, and a later growing `resize`
   frees it again.
10. **SimpleVector deallocate size mismatch** (simple_vector.h:101). A
    shrinking `resize` keeps the allocation but forgets its size.
11. **SimpleVector leak** (simple_vector.h:69). After `resize(0)` the
    buffer is never freed.
12. **SimpleVector move-assigns into raw storage** (simple_vector.h:110)
    when it grows an array of a non-trivially-copyable type.
13. **Length overflow in `read_string_view`** (serialization.h:265).
    `sizeof(Type) * length` is computed in `size_t`. For a `vector` of a
    trivial type wider than a byte, a crafted length makes it wrap to a
    small number, the bounds check passes, and the decoder reads past the
    buffer instead of throwing `DataFormatError`.
14. **Invalid bool in an optional** (serialization.h:56). A flag byte
    other than 0 or 1 is `memcpy`'d into a `bool`.

15. **`SharedMemoryBlock` copy assignment leaks** (part_004:113). It
    overwrites `block_ptr` without releasing the old block and without a
    self-assignment check: `a = b` leaks `a`'s block, `a = a` counts one
    owner too many.
16. **LinkedList self-move empties the list** (part_006:90). Move
    assignment hangs the ring on its own sentinel and then clears it. The
    test `MoveSelfAssignment` expects both elements kept.
17. **Erasing `end()` breaks an empty list** (part_006:121). `erase`
    unlinks the sentinel and nulls its links; the list is then neither
    empty nor traversable. The test `EmptyListOperations` does this and
    says it "should be safe"; `pop_front`/`pop_back` on an empty list do
    the same.
18. **`HighPerformanceClock` is not steady** (part_005:32, 112). A call
    that loses the calibration lock returns `steady_clock` time, and the
    thread's next call extrapolates from a factor skewed by the delay
    between `rdtsc` and `steady_clock::now`, returning less. No torn read
    is needed.
19. **An out-of-range variant index is accepted** (serialization.h:74).
    `deserialize_variant_helper` emplaces only when the index matches an
    alternative. Any other index falls through without a
    `DataFormatError`. The variant keeps its default value and the bytes
    are accepted: `<<0, 1>>`, index 4 of a `variant<uint8_t, string>`,
    decodes as alternative 0 holding 0.
20. **`wait_for` measures its duration on the system clock**
    (sync.h:295). The relative duration becomes an absolute
    `CLOCK_REALTIME` deadline for `sem_timedwait`. A step of the system
    clock during the wait changes how long it lasts. In the trace,
    `wait_for(1 tick)` returns ETIMEDOUT after 0 ticks of steady time.
21. **The tests adopt a pointer to a freed block** (part_004:77). Both
    handles convert implicitly to `MemoryBlock *`, so `Buffer *buffer =
    createMemoryBlock(size);` compiles. The temporary that
    `createMemoryBlock` returns frees the block at the end of that
    statement. The tests of part_002 (lines 51, 62, 74-75, 89, 101, 111,
    130, 145) then adopt `buffer` into a handle, read through it and free
    it again. TLC's shortest trace converts a live handle's pointer and
    adopts it back into the same handle, which frees the block. That is
    the same misuse as the tests', and just as short.

## Not modelled

- **Weak memory in SharedSpinMutex.** The lock models are sequentially
  consistent. `try_lock`'s relaxed re-read of `shared_count` after an
  acq_rel exchange would need a store-buffer model to show whether it can
  miss a reader.
- **HashMap copy and assignment.** Not modelled. `operator=` calls
  `clear()` before it copies, so `m = m` empties the map; checking that
  needs a second map in the model, which the HashMap run's state space
  cannot afford.
- **Futex.** `waitUntilValueReachedWithDebug` is reachable only through
  a commented-out macro, and the SpinMutex of the `#elif 0` branch is
  dead code.
- **Clock.** The `IS_USING_TSAN` build, which reads
  `previous_measurements` with a CAS and so has no torn read, is not
  modelled; nor is `access_count`, which nothing uses.
  `HighPerformanceClock::now` is a wrapper around `get_current_time`.
  A property that tells a torn snapshot from a newer whole one needs
  strictly increasing TSC reads, which whole-ns model time does not
  give, so the torn read is checked only for its effect on the
  division (`NoDivisionByZero`). The relaxed loads of `cycle_threshold`
  and `cycle_conversion_factor` (lines 94, 99) are modelled as
  sequentially consistent steps. That holds on x86, where `rdtsc` makes
  the code x86-only anyway; a weakly ordered machine could also reorder
  the two loads.
- **MemoryBlocks.** The bytes of a block and `get_size` are data, not
  state the properties tell apart. A failing `malloc` throws before any
  state changes, and so does the `runtime_error` of the adopting
  constructor; both are steps that change nothing.
- **LinkedList.** `IntrusiveListLink` aliases and lists over several link
  members are instantiations of the same template. Several tests call a
  `size()` that the list no longer has.
- **DynamicArray.** Move construction and move assignment of whole arrays
  are not modelled, and neither is the reallocation-aliasing read of
  `emplace_back(vec[0])` during growth. That read uses freed memory,
  undefined behaviour with no bounded set of outcomes.
- **Serialization.** `serialize_to_unchecked` writes through a raw
  pointer with no size; what it can overrun depends on the caller.
  `SerializeFunction` wraps a callable, and tuples of more than three
  fields are the same fold.

  A container `resize(count)` (line 124) with a huge count from a
  malformed buffer fails in the allocator (`bad_alloc` or
  `length_error`) before anything is read. With the model's 2-byte
  `size_t` every count is small enough to allocate, so `DecodeN` leaves
  the resize out.
- **The example program** (`src/example`). `demonstrateLogging` is the
  main thread of the logging run and `TestData` a schema of the
  serialization run. The other demos are single-threaded sequences of
  operations the modules above already model: Vector appends, HashMap
  inserts and finds, a `MemoryBlock` buffer, and SpinMutex lock/unlock
  from one thread. Their timing loops and printing have no state a
  property could tell apart.
- **Logging.** The text of a message, its timestamp (`localtime` runs
  under the mutex) and the newline handling are formatting. The order of
  two threads' own `std::cout` writes is not claimed: they take no lock,
  so nothing orders them. A `std::cout` write that another thread makes
  after `criticalError` has flushed stdout is lost at `quick_exit`.
  `OutputFollowsHappensBefore` allows that loss, because no write of the
  program happens before it.
