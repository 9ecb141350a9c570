\* Futex: two waiters for the value 2, two writers raising the counter to 2.
\* SpinMutex and SharedSpinMutex: three threads each.
\* Semaphore: two threads, one tick = half a second, waits of 1 to 3 ticks,
\* two posts, one EINTR, steady time up to 3 ticks, no clock steps.
CONSTANTS
    w1 = w1  w2 = w2  s1 = s1  s2 = s2
    t1 = t1  t2 = t2  t3 = t3
    Sec = 2
    Durations = {1, 2, 3}
    MaxPosts = 2
    MaxTime = 3
    MaxEintr = 1
    MaxSteps = 0
SPECIFICATION Spec
\* The futex threads all return and the writers stop at MaxValue; the
\* semaphore's threads may be left blocked in wait() once the posts are
\* used up.
CHECK_DEADLOCK FALSE
INVARIANTS NoLostWakeup LockFlagOwned TypeOK SharedLockFlagOwned
           SignalsConserved
PROPERTIES WaitCompletes RefinesMutex SomeLockerProceeds RefinesRWLock
           WriterDrainCompletes TimedWaitLastsItsDuration
