--------------------------- MODULE SharedSpinMutex ---------------------------
(***************************************************************************)
(* turbokit::SharedSpinMutex (src/include/sync.h 192-273): a readers-     *)
(* writer spin lock over two atomics.  A writer raises is_locked with an  *)
(* exchange and then waits for shared_count to drain; a reader increments *)
(* shared_count and backs off if it then sees is_locked.  Each thread is  *)
(* a process whose pc names the next atomic operation it performs; every *)
(* atomic access is one step, taken in sequentially consistent order (the *)
(* default memory order of the handshake's operations).  A relaxed load   *)
(* that only gates a spin loop is a step of its own.                      *)
(***************************************************************************)
EXTENDS Integers, FiniteSets

CONSTANT Threads

VARIABLES
    is_locked,      \* std::atomic_bool is_locked
    shared_count,   \* std::atomic_int shared_count
    pc              \* per thread: the next step, or where it rests

vars == <<is_locked, shared_count, pc>>

Init ==
    /\ is_locked = FALSE
    /\ shared_count = 0
    /\ pc = [t \in Threads |-> "idle"]

Goto(t, l) == pc' = [pc EXCEPT ![t] = l]

\* A thread that holds nothing calls one of the four acquiring functions.
Call(t) ==
    /\ pc[t] = "idle"
    /\ \E l \in {"lk_spin", "tl_load", "ls_spin", "ts_load"} : Goto(t, l)
    /\ UNCHANGED <<is_locked, shared_count>>

(* lock() *)
\* while (is_locked.load(relaxed)) _mm_pause();
lock_spin(t) ==
    /\ pc[t] = "lk_spin" /\ ~is_locked
    /\ Goto(t, "lk_xchg")
    /\ UNCHANGED <<is_locked, shared_count>>

\* } while (is_locked.exchange(true));
lock_exchange(t) ==
    /\ pc[t] = "lk_xchg"
    /\ is_locked' = TRUE
    /\ Goto(t, IF is_locked THEN "lk_spin" ELSE "lk_drain")
    /\ UNCHANGED shared_count

\* while (shared_count.load()) _mm_pause();
lock_drain(t) ==
    /\ pc[t] = "lk_drain" /\ shared_count = 0
    /\ Goto(t, "exclusive")
    /\ UNCHANGED <<is_locked, shared_count>>

\* unlock(): is_locked.store(false)
unlock(t) ==
    /\ pc[t] = "exclusive"
    /\ is_locked' = FALSE
    /\ Goto(t, "idle")
    /\ UNCHANGED shared_count

(* try_lock() *)
\* if (is_locked.load(relaxed)) return false;
try_lock_load(t) ==
    /\ pc[t] = "tl_load"
    /\ Goto(t, IF is_locked THEN "idle" ELSE "tl_count")
    /\ UNCHANGED <<is_locked, shared_count>>

\* if (shared_count.load(relaxed) == 0 && ...
try_lock_count(t) ==
    /\ pc[t] = "tl_count"
    /\ Goto(t, IF shared_count = 0 THEN "tl_xchg" ELSE "idle")
    /\ UNCHANGED <<is_locked, shared_count>>

\* ... && !is_locked.exchange(true))
try_lock_exchange(t) ==
    /\ pc[t] = "tl_xchg"
    /\ is_locked' = TRUE
    /\ Goto(t, IF is_locked THEN "idle" ELSE "tl_recheck")
    /\ UNCHANGED shared_count

\* Fault variant: a failed re-check returns false but leaves is_locked set.
try_lock_recheck_kept(t) ==
    /\ pc[t] = "tl_recheck"
    /\ Goto(t, IF shared_count = 0 THEN "exclusive" ELSE "idle")
    /\ UNCHANGED <<is_locked, shared_count>>

\* if (shared_count.load(relaxed) == 0) return true;
\* else is_locked.store(false); ... return false;
try_lock_recheck(t) ==
    /\ pc[t] = "tl_recheck"
    /\ IF shared_count = 0
       THEN Goto(t, "exclusive") /\ UNCHANGED is_locked
       ELSE Goto(t, "idle") /\ is_locked' = FALSE
    /\ UNCHANGED shared_count

(* lock_shared() *)
\* while (is_locked.load(relaxed)) _mm_pause();
lock_shared_spin(t) ==
    /\ pc[t] = "ls_spin" /\ ~is_locked
    /\ Goto(t, "ls_inc")
    /\ UNCHANGED <<is_locked, shared_count>>

\* Fault variant: the reader enters without re-reading is_locked.
lock_shared_check_skipped(t) ==
    /\ pc[t] = "ls_check"
    /\ Goto(t, "shared")
    /\ UNCHANGED <<is_locked, shared_count>>

\* Fault variant: the back-off forgets its fetch_sub.
lock_shared_dec_lost(t) ==
    /\ pc[t] = "ls_dec"
    /\ Goto(t, "ls_spin")
    /\ UNCHANGED <<is_locked, shared_count>>

\* shared_count.fetch_add(1);
lock_shared_inc(t) ==
    /\ pc[t] = "ls_inc"
    /\ shared_count' = shared_count + 1
    /\ Goto(t, "ls_check")
    /\ UNCHANGED is_locked

\* if (is_locked.load()) fetch_sub ... else break;
lock_shared_check(t) ==
    /\ pc[t] = "ls_check"
    /\ Goto(t, IF is_locked THEN "ls_dec" ELSE "shared")
    /\ UNCHANGED <<is_locked, shared_count>>

\* shared_count.fetch_sub(1, acq_rel); and round the while (true) loop
lock_shared_dec(t) ==
    /\ pc[t] = "ls_dec"
    /\ shared_count' = shared_count - 1
    /\ Goto(t, "ls_spin")
    /\ UNCHANGED is_locked

\* unlock_shared(): shared_count.fetch_sub(1, release)
unlock_shared(t) ==
    /\ pc[t] = "shared"
    /\ shared_count' = shared_count - 1
    /\ Goto(t, "idle")
    /\ UNCHANGED is_locked

(* try_lock_shared() *)
\* if (is_locked.load(relaxed)) return false;
try_lock_shared_load(t) ==
    /\ pc[t] = "ts_load"
    /\ Goto(t, IF is_locked THEN "idle" ELSE "ts_inc")
    /\ UNCHANGED <<is_locked, shared_count>>

\* shared_count.fetch_add(1);
try_lock_shared_inc(t) ==
    /\ pc[t] = "ts_inc"
    /\ shared_count' = shared_count + 1
    /\ Goto(t, "ts_check")
    /\ UNCHANGED is_locked

\* if (is_locked.load()) { fetch_sub; return false; } return true;
try_lock_shared_check(t) ==
    /\ pc[t] = "ts_check"
    /\ Goto(t, IF is_locked THEN "ts_dec" ELSE "shared")
    /\ UNCHANGED <<is_locked, shared_count>>

\* Fault variant: the failed try_lock_shared forgets its fetch_sub.
try_lock_shared_dec_lost(t) ==
    /\ pc[t] = "ts_dec"
    /\ Goto(t, "idle")
    /\ UNCHANGED <<is_locked, shared_count>>

try_lock_shared_dec(t) ==
    /\ pc[t] = "ts_dec"
    /\ shared_count' = shared_count - 1
    /\ Goto(t, "idle")
    /\ UNCHANGED is_locked

\* Every step a thread takes once it has called, including the release of
\* a held lock (the caller's side of the lock contract).
Step(t) ==
    \/ lock_spin(t) \/ lock_exchange(t) \/ lock_drain(t) \/ unlock(t)
    \/ try_lock_load(t) \/ try_lock_count(t) \/ try_lock_exchange(t)
    \/ try_lock_recheck(t)
    \/ lock_shared_spin(t) \/ lock_shared_inc(t) \/ lock_shared_check(t)
    \/ lock_shared_dec(t) \/ unlock_shared(t)
    \/ try_lock_shared_load(t) \/ try_lock_shared_inc(t)
    \/ try_lock_shared_check(t) \/ try_lock_shared_dec(t)

Next == \E t \in Threads : Call(t) \/ Step(t)

\* The scheduler keeps running a thread that can run, and a holder
\* eventually releases; an idle thread need never call again.
Fairness == \A t \in Threads : WF_vars(Step(t))

Spec == Init /\ [][Next]_vars /\ Fairness

-----------------------------------------------------------------------------

Labels == {"idle", "lk_spin", "lk_xchg", "lk_drain", "exclusive",
           "tl_load", "tl_count", "tl_xchg", "tl_recheck",
           "ls_spin", "ls_inc", "ls_check", "ls_dec", "shared",
           "ts_load", "ts_inc", "ts_check", "ts_dec"}

TypeOK ==
    /\ is_locked \in BOOLEAN
    /\ shared_count \in 0 .. Cardinality(Threads)
    /\ pc \in [Threads -> Labels]

\* The lock's holders as AbstractRWLock sees them.
Holders(l) == {t \in Threads : pc[t] = l}

RW == INSTANCE AbstractRWLock WITH
          writer <- Holders("exclusive"), readers <- Holders("shared")

\* The handshake between lock()/try_lock() (raise is_locked, then read
\* shared_count) and lock_shared()/try_lock_shared() (raise shared_count,
\* then read is_locked) implements a readers-writer lock: whatever the
\* interleaving, a thread returns from an exclusive acquisition only when
\* nobody holds the lock, and from a shared one only when no writer holds it.
RefinesRWLock == RW!Spec

\* is_locked is raised exactly while one thread owns it: a writer between
\* its winning exchange and unlock(), or try_lock() between its winning
\* exchange and the shared_count re-check that keeps or drops it.  A
\* failed try_lock() therefore never leaves the flag raised for nobody.
LockFlagOwned ==
    is_locked <=> \E t \in Threads : pc[t] \in {"lk_drain", "exclusive", "tl_recheck"}

\* A writer in lock() that has won the exchange on is_locked is eventually
\* inside: readers that raced it back off (lock_shared's fetch_sub) and
\* holders release, so shared_count drains.
WriterDrainCompletes ==
    \A t \in Threads : pc[t] = "lk_drain" ~> pc[t] = "exclusive"

=============================================================================
