------------------------------ MODULE SpinMutex ------------------------------
(***************************************************************************)
(* turbokit::SpinMutex, the build's active variant (src/include/sync.h    *)
(* 152-189): test-and-test-and-set over one atomic flag.  Each thread is a *)
(* process whose pc names its next atomic access; the tsan annotations    *)
(* are no-ops and left out.                                               *)
(***************************************************************************)
EXTENDS Integers

CONSTANT Threads

VARIABLES
    is_locked,   \* std::atomic<bool> is_locked
    pc           \* per thread: the next step, or where it rests

vars == <<is_locked, pc>>

Init ==
    /\ is_locked = FALSE
    /\ pc = [t \in Threads |-> "idle"]

Goto(t, l) == pc' = [pc EXCEPT ![t] = l]

\* A thread that does not hold the mutex calls lock() or try_lock().
Call(t) ==
    /\ pc[t] = "idle"
    /\ \E l \in {"lk_spin", "tl_load"} : Goto(t, l)
    /\ UNCHANGED is_locked

\* Fault variant: the spin waits for the flag to be raised, not cleared.
lock_spin_inverted(t) ==
    /\ pc[t] = "lk_spin" /\ is_locked
    /\ Goto(t, "lk_xchg")
    /\ UNCHANGED is_locked

\* lock(): while (is_locked.load(relaxed)) _mm_pause();
lock_spin(t) ==
    /\ pc[t] = "lk_spin" /\ ~is_locked
    /\ Goto(t, "lk_xchg")
    /\ UNCHANGED is_locked

\* Fault variant: the exchange's old value is ignored.
lock_exchange_blind(t) ==
    /\ pc[t] = "lk_xchg"
    /\ is_locked' = TRUE
    /\ Goto(t, "locked")

\* } while (is_locked.exchange(true, acq_rel));
lock_exchange(t) ==
    /\ pc[t] = "lk_xchg"
    /\ is_locked' = TRUE
    /\ Goto(t, IF is_locked THEN "lk_spin" ELSE "locked")

\* Fault variant: unlock() leaves the flag raised.
unlock_kept(t) ==
    /\ pc[t] = "locked"
    /\ Goto(t, "idle")
    /\ UNCHANGED is_locked

\* unlock(): is_locked.store(false, release)
unlock(t) ==
    /\ pc[t] = "locked"
    /\ is_locked' = FALSE
    /\ Goto(t, "idle")

\* try_lock(): if (is_locked.load(relaxed)) return false;
try_lock_load(t) ==
    /\ pc[t] = "tl_load"
    /\ Goto(t, IF is_locked THEN "idle" ELSE "tl_xchg")
    /\ UNCHANGED is_locked

\* if (!is_locked.exchange(true, acq_rel)) return true; else return false;
try_lock_exchange(t) ==
    /\ pc[t] = "tl_xchg"
    /\ is_locked' = TRUE
    /\ Goto(t, IF is_locked THEN "idle" ELSE "locked")

Step(t) ==
    \/ lock_spin(t) \/ lock_exchange(t) \/ unlock(t)
    \/ try_lock_load(t) \/ try_lock_exchange(t)

Next == \E t \in Threads : Call(t) \/ Step(t)

\* A runnable thread keeps being scheduled and a holder eventually unlocks.
Fairness == \A t \in Threads : WF_vars(Step(t))

Spec == Init /\ [][Next]_vars /\ Fairness

-----------------------------------------------------------------------------

Holders == {t \in Threads : pc[t] = "locked"}

Mutex == INSTANCE AbstractRWLock WITH writer <- Holders, readers <- {}

\* The two exchanges (in lock() and try_lock()) let at most one thread in at
\* a time, whatever the interleaving of loads and exchanges: SpinMutex
\* implements an exclusive lock.
RefinesMutex == Mutex!Spec

\* is_locked is raised exactly while some thread holds the mutex, so a
\* failed try_lock() or a completed unlock() never leaves it raised.
LockFlagOwned == is_locked <=> Holders # {}

\* The mutex is deadlock- and livelock-free: while some thread is inside
\* lock(), eventually some thread holds the mutex.
SomeLockerProceeds ==
    (\E t \in Threads : pc[t] \in {"lk_spin", "lk_xchg"}) ~> (Holders # {})

=============================================================================
