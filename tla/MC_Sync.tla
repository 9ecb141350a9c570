------------------------------- MODULE MC_Sync -------------------------------
(***************************************************************************)
(* The blocking primitives of src/include/sync.h: the futex helpers      *)
(* (module Futex), SpinMutex, SharedSpinMutex and the semaphore of        *)
(* ThreadSynchronizer.  They share no state, so each is checked on its    *)
(* own: the initial state picks one of them (prim), only that one steps,  *)
(* and only its fairness applies.  The others stay at their initial      *)
(* state, where their invariants hold.                                    *)
(***************************************************************************)
CONSTANTS w1, w2, s1, s2, t1, t2, t3,
          Sec, Durations, MaxPosts, MaxTime, MaxEintr, MaxSteps

VARIABLES prim,
          value, current, sleeping, pc,
          is_locked, lpc,
          shared_locked, shared_count, rpc,
          sem, now, offset, tpc, call, posted, waited, taken, eintr, steps

F == INSTANCE Futex WITH Waiters <- {w1, w2}, Writers <- {s1, s2},
                         Target <- 2, MaxValue <- 2

M == INSTANCE SpinMutex WITH Threads <- {t1, t2, t3}, pc <- lpc

R == INSTANCE SharedSpinMutex WITH Threads <- {t1, t2, t3},
                                   is_locked <- shared_locked, pc <- rpc

S == INSTANCE ThreadSynchronizer WITH Threads <- {t1, t2}, pc <- tpc

fvars == <<value, current, sleeping, pc>>
mvars == <<is_locked, lpc>>
rvars == <<shared_locked, shared_count, rpc>>
svars == <<sem, now, offset, tpc, call, posted, waited, taken, eintr, steps>>
vars == <<prim, fvars, mvars, rvars, svars>>

Init == prim \in {"futex", "spin", "shared", "semaphore"}
        /\ F!Init /\ M!Init /\ R!Init /\ S!Init

Next ==
    \/ prim = "futex" /\ F!Next /\ UNCHANGED <<prim, mvars, rvars, svars>>
    \/ prim = "spin" /\ M!Next /\ UNCHANGED <<prim, fvars, rvars, svars>>
    \/ prim = "shared" /\ R!Next /\ UNCHANGED <<prim, fvars, mvars, svars>>
    \/ prim = "semaphore" /\ S!Next /\ UNCHANGED <<prim, fvars, mvars, rvars>>

Spec == Init /\ [][Next]_vars
        /\ (prim = "futex" => F!Fairness)
        /\ (prim = "spin" => M!Fairness)
        /\ (prim = "shared" => R!Fairness)

\* Futex: no waiter sleeps in futex_wait once the counter it waits for has
\* been stored and wakeAllThreads has run.
NoLostWakeup == F!NoLostWakeup

\* Futex: every waitUntilValueReached returns once the writers reach the
\* target.
WaitCompletes == prim = "futex" => F!WaitCompletes

\* SpinMutex: the exchanges of lock() and try_lock() let one thread in at a
\* time; SpinMutex implements an exclusive lock.
RefinesMutex == M!RefinesMutex

\* SpinMutex: is_locked is raised exactly while some thread holds it.
LockFlagOwned == M!LockFlagOwned

\* SpinMutex: while some thread is inside lock(), eventually some thread
\* holds the mutex.
SomeLockerProceeds == M!SomeLockerProceeds

\* SharedSpinMutex: the type of its flag, counter and program counters.
TypeOK == R!TypeOK

\* SharedSpinMutex: writers exclude everyone and readers share; it
\* implements a readers-writer lock.
RefinesRWLock == R!RefinesRWLock

\* SharedSpinMutex: is_locked is raised exactly while one thread owns it,
\* so a failed try_lock() never leaves it raised for nobody.
SharedLockFlagOwned == R!LockFlagOwned

\* SharedSpinMutex: a writer that won the exchange eventually gets in, as
\* readers back off and holders release.
WriterDrainCompletes == R!WriterDrainCompletes

\* ThreadSynchronizer: every return from wait() or wait_for used up one
\* signal(), across EINTR retries.
SignalsConserved == S!SignalsConserved

\* ThreadSynchronizer: a wait_for(d) returns ETIMEDOUT only after d of
\* steady time, however often EINTR restarted sem_timedwait.
TimedWaitLastsItsDuration == S!TimedWaitLastsItsDuration

=============================================================================
