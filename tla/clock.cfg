\* Two threads, 2 TSC cycles per ns, a 1-bit shift, recalibration every
\* 3 ns, extrapolation for at most 2 ns, time from 3 to 6 ns since boot.
CONSTANTS
    Threads = {t1, t2}
    Rate = 2
    Shift = 1
    CalibrationInterval = 3
    ResetInterval = 2
    Width = 16
    Int64Max = 32767
    LoadOrders = {"low", "high"}
    StartTime = 3
    MaxTime = 6
SPECIFICATION Spec
INVARIANT
    NoDivisionByZero
