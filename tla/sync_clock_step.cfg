\* The semaphore with one step of the system clock: wait_for computes its
\* deadline from system_clock and sem_timedwait measures CLOCK_REALTIME.
CONSTANTS
    w1 = w1  w2 = w2  s1 = s1  s2 = s2
    t1 = t1  t2 = t2  t3 = t3
    Sec = 2
    Durations = {1, 2, 3}
    MaxPosts = 2
    MaxTime = 3
    MaxEintr = 1
    MaxSteps = 1
SPECIFICATION Spec
CHECK_DEADLOCK FALSE
PROPERTY TimedWaitLastsItsDuration
