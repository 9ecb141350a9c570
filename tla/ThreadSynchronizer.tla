------------------------- MODULE ThreadSynchronizer -------------------------
(***************************************************************************)
(* ThreadSynchronizer (Semaphore) of src/include/sync.h 276-322: a POSIX  *)
(* sem_t with signal() = sem_post, wait() = sem_wait retried on EINTR,    *)
(* and wait_for(d) = sem_timedwait until an absolute CLOCK_REALTIME time   *)
(* computed once from system_clock::now() + d, retried on EINTR and left  *)
(* on ETIMEDOUT.  Time is counted in ticks, Sec of them to a second; now  *)
(* is the steady time and offset the system clock's distance from it,    *)
(* which a step of the system clock (settimeofday, an NTP step) changes.  *)
(* The semaphore is the kernel's: sem_wait takes a unit or blocks, a      *)
(* blocked caller takes a posted unit, or is interrupted by a signal, or  *)
(* times out.  Each thread's pc names the call it is in.                  *)
(***************************************************************************)
EXTENDS Integers

CONSTANTS
    Threads,    \* threads calling signal, wait and wait_for
    Sec,        \* ticks per second: tv_sec counts these
    Durations,  \* the durations passed to wait_for, in ticks
    MaxPosts,   \* bound on sem_post calls, for TLC
    MaxTime,    \* steady time stops here, for TLC
    MaxEintr,   \* bound on interrupted waits, for TLC
    MaxSteps    \* bound on steps of the system clock

VARIABLES
    sem,        \* the semaphore's value
    now,        \* steady time, ticks
    offset,     \* system_clock minus steady time, ticks
    pc,         \* per thread: "idle", "sem_wait", "sem_timedwait", "blocked", "blocked_timed"
    call,       \* per thread: [start, duration, deadline] of the wait_for in progress
    posted,     \* sem_post calls so far
    waited,     \* wait() calls that returned
    taken,      \* wait_for calls that returned having taken a unit
    eintr,      \* interrupted waits so far
    steps       \* steps of the system clock so far

vars == <<sem, now, offset, pc, call, posted, waited, taken, eintr, steps>>

NoCall == [start |-> 0, duration |-> 0, deadline |-> 0]

Init ==
    /\ sem = 0 /\ now = 0
    /\ offset = MaxSteps  \* the epoch is far behind: system time never goes below 0
    /\ pc = [t \in Threads |-> "idle"]
    /\ call = [t \in Threads |-> NoCall]
    /\ posted = 0 /\ waited = 0 /\ taken = 0
    /\ eintr = 0 /\ steps = 0

SystemTime == now + offset

\* Fault variant: the deadline keeps whole seconds only.
ToTimespec_seconds(abs) == [tv_sec |-> abs \div Sec, tv_nsec |-> 0]

\* tv_sec = seconds.count(); tv_nsec = (nanoseconds - seconds).count();
ToTimespec(abs) == [tv_sec |-> abs \div Sec, tv_nsec |-> abs - (abs \div Sec) * Sec]

\* The instant the kernel's CLOCK_REALTIME timer compares against.
KernelTime(ts) == ts.tv_sec * Sec + ts.tv_nsec

Unchanged(t) == UNCHANGED <<now, offset, posted, eintr, steps>>

\* signal(): sem_post.
signal(t) ==
    /\ pc[t] = "idle" /\ posted < MaxPosts
    /\ sem' = sem + 1 /\ posted' = posted + 1
    /\ UNCHANGED <<now, offset, pc, call, waited, taken, eintr, steps>>

\* wait(): calls sem_wait.
wait(t) ==
    /\ pc[t] = "idle"
    /\ pc' = [pc EXCEPT ![t] = "sem_wait"]
    /\ UNCHANGED <<sem, now, offset, call, posted, waited, taken, eintr, steps>>

\* wait_for(d): absolute_time = system_clock::now() + d, split into a
\* timespec, then sem_timedwait.
wait_for(t) ==
    /\ pc[t] = "idle"
    /\ \E d \in Durations :
          call' = [call EXCEPT ![t] = [start |-> now, duration |-> d,
                                       deadline |-> KernelTime(ToTimespec(SystemTime + d))]]
    /\ pc' = [pc EXCEPT ![t] = "sem_timedwait"]
    /\ UNCHANGED <<sem, now, offset, posted, waited, taken, eintr, steps>>

\* The thread's call returns having taken a unit; its time_spec is gone.
Acquired(t) ==
    /\ sem' = sem - 1
    /\ pc' = [pc EXCEPT ![t] = "idle"]
    /\ call' = [call EXCEPT ![t] = NoCall]
    /\ IF pc[t] \in {"sem_wait", "blocked"}
       THEN waited' = waited + 1 /\ UNCHANGED taken
       ELSE taken' = taken + 1 /\ UNCHANGED waited

\* wait_for leaves its loop on ETIMEDOUT.
TimedOut(t) ==
    /\ pc' = [pc EXCEPT ![t] = "idle"]
    /\ call' = [call EXCEPT ![t] = NoCall]
    /\ UNCHANGED <<sem, waited, taken>>

\* sem_wait: take a unit or block.
sem_wait(t) ==
    /\ pc[t] = "sem_wait"
    /\ IF sem > 0 THEN Acquired(t)
       ELSE pc' = [pc EXCEPT ![t] = "blocked"] /\ UNCHANGED <<sem, call, waited, taken>>
    /\ Unchanged(t)

\* sem_timedwait: take a unit if there is one (the deadline is not looked
\* at then), else return ETIMEDOUT if the deadline has passed, else block.
sem_timedwait(t) ==
    /\ pc[t] = "sem_timedwait"
    /\ IF sem > 0 THEN Acquired(t)
       ELSE IF SystemTime >= call[t].deadline THEN TimedOut(t)
       ELSE pc' = [pc EXCEPT ![t] = "blocked_timed"] /\ UNCHANGED <<sem, call, waited, taken>>
    /\ Unchanged(t)

\* A blocked caller takes a unit a sem_post made available.
woken(t) ==
    /\ pc[t] \in {"blocked", "blocked_timed"} /\ sem > 0
    /\ Acquired(t)
    /\ Unchanged(t)

\* The kernel's timer for the deadline fires.
expire(t) ==
    /\ pc[t] = "blocked_timed" /\ SystemTime >= call[t].deadline
    /\ TimedOut(t)
    /\ Unchanged(t)

\* Fault variant: wait() returns when sem_wait fails with EINTR.
interrupted_returns(t) ==
    /\ pc[t] \in {"blocked", "blocked_timed"} /\ eintr < MaxEintr
    /\ eintr' = eintr + 1
    /\ IF pc[t] = "blocked"
       THEN /\ pc' = [pc EXCEPT ![t] = "idle"] /\ waited' = waited + 1
       ELSE /\ pc' = [pc EXCEPT ![t] = "sem_timedwait"] /\ UNCHANGED waited
    /\ UNCHANGED <<sem, now, offset, call, posted, taken, steps>>

\* A signal handler interrupts the blocked call: it fails with EINTR, and
\* the loop calls it again, sem_timedwait with the same absolute time_spec.
interrupted(t) ==
    /\ pc[t] \in {"blocked", "blocked_timed"} /\ eintr < MaxEintr
    /\ eintr' = eintr + 1
    /\ pc' = [pc EXCEPT ![t] = IF pc[t] = "blocked" THEN "sem_wait" ELSE "sem_timedwait"]
    /\ UNCHANGED <<sem, now, offset, call, posted, waited, taken, steps>>

Tick ==
    /\ now < MaxTime /\ now' = now + 1
    /\ UNCHANGED <<sem, offset, pc, call, posted, waited, taken, eintr, steps>>

\* The system clock is stepped one tick forward or back.
StepClock ==
    /\ steps < MaxSteps /\ steps' = steps + 1
    /\ \E delta \in {-1, 1} : offset' = offset + delta
    /\ UNCHANGED <<sem, now, pc, call, posted, waited, taken, eintr>>

Thread(t) ==
    \/ signal(t) \/ wait(t) \/ wait_for(t) \/ sem_wait(t) \/ sem_timedwait(t)
    \/ woken(t) \/ expire(t) \/ interrupted(t)

Next == Tick \/ StepClock \/ \E t \in Threads : Thread(t)

Spec == Init /\ [][Next]_vars

-----------------------------------------------------------------------------

\* Every return from wait() used up one signal(): posts are either still
\* in the semaphore or were taken by a wait() or a wait_for that returned,
\* across blocking, wake-ups and calls interrupted by EINTR and retried.
SignalsConserved == posted = sem + waited + taken

\* A step in which t's wait_for returns without having taken a unit.
TimedOutStep(t) ==
    pc[t] \in {"sem_timedwait", "blocked_timed"} /\ pc'[t] = "idle" /\ taken' = taken

\* A wait_for(d) returns ETIMEDOUT only after at least d of steady time,
\* however often EINTR restarted sem_timedwait.

TimedWaitLastsItsDuration ==
    [][\A t \in Threads : TimedOutStep(t) => now - call[t].start >= call[t].duration]_vars

=============================================================================
