\* Two threads, the low half of previous_measurements loaded first (no torn
\* read), time from 3 to 7 ns since boot.
CONSTANTS
    Threads = {t1, t2}
    Rate = 2
    Shift = 1
    CalibrationInterval = 3
    ResetInterval = 2
    Width = 16
    Int64Max = 32767
    LoadOrders = {"low"}
    StartTime = 3
    MaxTime = 7
SPECIFICATION Spec
PROPERTY
    MonotonicPerThread
