------------------------------- MODULE Clock -------------------------------
(***************************************************************************)
(* The calibrated TSC clock of src/unnamed/part_005 (time_manager,         *)
(* HighPerformanceClock::now).  Threads call get_current_time over and    *)
(* over while real time advances (Tick).  steady_clock reads real time in *)
(* ns; the invariant TSC counts Rate cycles per ns.  The 128-bit          *)
(* previous_measurements is written by one cmpxchg16b but read by plain   *)
(* loads of its two 64-bit halves: that read races with the write, and    *)
(* the build may load the halves in either order (LoadOrders), each load  *)
(* a step of its own.  The shift by 16 is Shift, the intervals are        *)
(* CalibrationInterval and ResetInterval ns, uint64 is Width bits, and    *)
(* INT64_MAX is Int64Max.  Accesses to atomics are sequentially          *)
(* consistent steps; a read of real time or the TSC is merged with the     *)
(* atomic access that follows it, as only Tick changes time.              *)
(***************************************************************************)
EXTENDS Integers

CONSTANTS
    Threads,
    Rate,                \* TSC cycles per ns
    Shift,               \* << 16 in the conversion factor
    CalibrationInterval, \* calibration_interval
    ResetInterval,       \* reset_interval
    Width,               \* bits of uint64_t
    Int64Max,            \* std::numeric_limits<int64_t>::max()
    LoadOrders,          \* which half of previous_measurements is loaded first
    StartTime,           \* real time when the program starts, ns since boot
    MaxTime              \* real time stops here, for TLC

VARIABLES
    now,        \* real time, ns
    pm,         \* previous_measurements: [time, cycles]
    threshold,  \* cycle_threshold
    factor,     \* cycle_conversion_factor
    lastTime,   \* last_calibration_time
    lastCycles, \* last_calibration_cycles
    lock,       \* synchronization_lock
    loc,        \* per thread: the locals of the call in progress
    ret,        \* per thread: the value the last call returned
    fault       \* TRUE once a division by a cycle_conversion_factor of 0 ran

vars == <<now, pm, threshold, factor, lastTime, lastCycles, lock, loc, ret, fault>>

shared == <<pm, threshold, factor, lastTime, lastCycles, lock>>

ASSUME StartTime > ResetInterval /\ MaxTime >= StartTime

Unit == 2 ^ Shift
Mod(x) == x % (2 ^ Width)
MinOf(a, b) == IF a <= b THEN a ELSE b
MaxOf(a, b) == IF a >= b THEN a ELSE b

\* A call about to start: pc, the half loaded first, previous_cycles,
\* previous_time, current_cycles and current_time.
Fresh == [pc |-> "load1", first |-> "low", pcy |-> 0, pt |-> 0, cc |-> 0, ct |-> 0]

Init ==
    /\ now = StartTime
    /\ pm = [time |-> 0, cycles |-> 0]
    /\ threshold = 0 /\ factor = 0
    /\ lastTime = 0 /\ lastCycles = 0
    /\ lock = FALSE
    /\ loc = [t \in Threads |-> Fresh]
    /\ ret = [t \in Threads |-> 0]
    /\ fault = FALSE

At(t, l) == loc[t].pc = l

\* The call returns v and the thread's next call starts.
Return(t, v) == ret' = [ret EXCEPT ![t] = v] /\ loc' = [loc EXCEPT ![t] = Fresh]

Tick ==
    /\ now < MaxTime
    /\ now' = now + 1
    /\ UNCHANGED <<shared, loc, ret, fault>>

Other(half) == IF half = "low" THEN "high" ELSE "low"

\* The locals after loading one half of previous_measurements.
LoadHalf(l, half) ==
    IF half = "low" THEN [l EXCEPT !.pcy = pm.cycles] ELSE [l EXCEPT !.pt = pm.time]

\* do { previous_cycles = previous_measurements;
\*      previous_time = previous_measurements >> 64;  (in either order)
load1(t) ==
    /\ At(t, "load1")
    /\ \E h \in LoadOrders :
          loc' = [loc EXCEPT ![t] = [LoadHalf(@, h) EXCEPT !.first = h, !.pc = "load2"]]
    /\ UNCHANGED <<now, shared, ret, fault>>

load2(t) ==
    /\ At(t, "load2")
    /\ loc' = [loc EXCEPT ![t] = [LoadHalf(@, Other(@.first)) EXCEPT !.pc = "reload"]]
    /\ UNCHANGED <<now, shared, ret, fault>>

\* __sync_synchronize(); } while ((int64_t)previous_measurements != previous_cycles);
reload(t) ==
    /\ At(t, "reload")
    /\ loc' = [loc EXCEPT ![t].pc = IF pm.cycles # loc[t].pcy THEN "load1" ELSE "rdtsc"]
    /\ UNCHANGED <<now, shared, ret, fault>>

\* current_cycles = __rdtsc(); threshold = cycle_threshold.load(); if the
\* elapsed cycles are under the threshold the time is extrapolated,
\* otherwise perform_calibration(current_cycles).
rdtsc(t) ==
    LET c == Rate * now
    IN /\ At(t, "rdtsc")
       /\ loc' = [loc EXCEPT ![t].cc = c,
                             ![t].pc = IF threshold > 0 /\ c - loc[t].pcy < threshold
                                       THEN "extrapolate" ELSE "calibrate"]
       /\ UNCHANGED <<now, shared, ret, fault>>

\* previous_time + max(elapsed_cycles, 1) * 65536 / cycle_conversion_factor
extrapolate(t) ==
    LET l == loc[t]
    IN /\ At(t, "extrapolate")
       /\ fault' = (fault \/ factor = 0)
       /\ Return(t, IF factor = 0 THEN l.pt
                    ELSE l.pt + Mod(MaxOf(l.cc - l.pcy, 1) * Unit) \div factor)
       /\ UNCHANGED <<now, shared>>

\* perform_calibration: current_time = steady_clock::now(); a thread that
\* finds synchronization_lock taken (exchange) returns current_time at once.
calibrate(t) ==
    /\ At(t, "calibrate")
    /\ lock' = TRUE
    /\ IF lock THEN Return(t, now)
       ELSE /\ loc' = [loc EXCEPT ![t].ct = now, ![t].pc = "cas"]
            /\ UNCHANGED ret
    /\ UNCHANGED <<now, pm, threshold, factor, lastTime, lastCycles, fault>>

\* __sync_val_compare_and_swap_16(&previous_measurements, previous, new):
\* only the lock holder writes it, so the swap succeeds.
cas(t) ==
    /\ At(t, "cas")
    /\ pm' = [time |-> loc[t].ct, cycles |-> loc[t].cc]
    /\ loc' = [loc EXCEPT ![t].pc = "update"]
    /\ UNCHANGED <<now, threshold, factor, lastTime, lastCycles, lock, ret, fault>>

\* Fault variant: cycle_threshold is published from the new rate where
\* cycle_conversion_factor should be stored.
update_threshold_first(t) ==
    LET l == loc[t]
        interval == IF threshold # 0 THEN CalibrationInterval
                    ELSE CalibrationInterval \div 10
        cycle_difference == l.cc - lastCycles
        time_difference == l.ct - lastTime
        conversion_rate == Mod(cycle_difference * Unit) \div time_difference
        recalibrate == lastCycles # 0 /\ cycle_difference > 0 /\ time_difference > 0
    IN /\ At(t, "update")
       /\ IF l.ct - lastTime >= interval
          THEN /\ lastTime' = l.ct
               /\ lastCycles' = l.cc
               /\ threshold' = IF recalibrate
                               THEN (conversion_rate * ResetInterval) \div Unit
                               ELSE threshold
          ELSE UNCHANGED <<lastTime, lastCycles, threshold>>
       /\ loc' = [loc EXCEPT ![t].pc = "release"]
       /\ UNCHANGED <<now, pm, lock, ret, fault, factor>>

\* The calibration interval is checked against last_calibration_time; when
\* it has passed, last_calibration_* move on and, from the second
\* calibration on, the conversion factor (cycles << 16 per ns) is stored
\* when cycles << 16 fits in uint64_t; otherwise cycle_threshold is reset.
update(t) ==
    LET l == loc[t]
        interval == IF threshold # 0 THEN CalibrationInterval
                    ELSE CalibrationInterval \div 10
        cycle_difference == l.cc - lastCycles
        time_difference == l.ct - lastTime
        conversion_rate == Mod(cycle_difference * Unit) \div time_difference
        fits == Mod(cycle_difference * Unit) \div Unit = cycle_difference
        recalibrate == lastCycles # 0 /\ cycle_difference > 0 /\ time_difference > 0
    IN /\ At(t, "update")
       /\ IF l.ct - lastTime >= interval
          THEN /\ lastTime' = l.ct
               /\ lastCycles' = l.cc
               /\ IF recalibrate /\ fits
                  THEN /\ factor' = conversion_rate
                       /\ loc' = [loc EXCEPT ![t].pc = "store_threshold"]
                       /\ UNCHANGED threshold
                  ELSE /\ threshold' = IF recalibrate THEN 0 ELSE threshold
                       /\ loc' = [loc EXCEPT ![t].pc = "release"]
                       /\ UNCHANGED factor
          ELSE /\ loc' = [loc EXCEPT ![t].pc = "release"]
               /\ UNCHANGED <<lastTime, lastCycles, factor, threshold>>
       /\ UNCHANGED <<now, pm, lock, ret, fault>>

\* cycle_threshold = min(cycle_conversion_factor * reset_interval / 65536,
\*                       INT64_MAX / 65536)
store_threshold(t) ==
    /\ At(t, "store_threshold")
    /\ threshold' = MinOf((factor * ResetInterval) \div Unit, Int64Max \div Unit)
    /\ loc' = [loc EXCEPT ![t].pc = "release"]
    /\ UNCHANGED <<now, pm, factor, lastTime, lastCycles, lock, ret, fault>>

\* synchronization_lock.store(false); return current_time;
release(t) ==
    /\ At(t, "release")
    /\ lock' = FALSE
    /\ Return(t, loc[t].ct)
    /\ UNCHANGED <<now, pm, threshold, factor, lastTime, lastCycles, fault>>

get_current_time(t) ==
    \/ load1(t) \/ load2(t) \/ reload(t) \/ rdtsc(t) \/ extrapolate(t)
    \/ calibrate(t) \/ cas(t) \/ update(t) \/ store_threshold(t) \/ release(t)

Next == Tick \/ \E t \in Threads : get_current_time(t)

\* Every thread keeps running: each step of get_current_time is scheduled.
Spec == Init /\ [][Next]_vars /\ \A t \in Threads : WF_vars(get_current_time(t))

-----------------------------------------------------------------------------

\* get_current_time never divides by a cycle_conversion_factor of 0: a
\* reader that saw a positive cycle_threshold also sees the factor the
\* calibration stored before it.
NoDivisionByZero == ~fault

\* HighPerformanceClock::is_steady: the readings one thread takes never
\* decrease, across extrapolations, calibrations, and calls that lose the
\* calibration lock.
MonotonicPerThread == [][\A t \in Threads : ret'[t] >= ret[t]]_vars

=============================================================================
