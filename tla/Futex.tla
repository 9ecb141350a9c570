------------------------------- MODULE Futex -------------------------------
(***************************************************************************)
(* The futex helpers of src/include/sync.h 38-63: waitUntilValueReached   *)
(* loads the counter and, while it is below the target, sleeps in         *)
(* FUTEX_WAIT on the value it loaded (waitForCondition, 1 s timeout);     *)
(* wakeAllThreads is FUTEX_WAKE of every sleeper.  The kernel's           *)
(* FUTEX_WAIT compares the word with the expected value and enqueues the  *)
(* caller in one step, and returns at once (EAGAIN) if they differ.       *)
(* Writers are the callers' side of the protocol: raise the counter, then *)
(* wake all.  Each thread's pc names its next step.                       *)
(***************************************************************************)
EXTENDS Naturals, TLC

CONSTANTS
    Waiters,   \* threads in waitUntilValueReached(obj, Target)
    Writers,   \* threads raising the counter
    Target,    \* target_value
    MaxValue   \* the writers stop raising the counter here

ASSUME Target <= MaxValue

VARIABLES
    value,     \* *synchronization_object, a std::atomic_uint32_t
    current,   \* per waiter: current_value
    sleeping,  \* the futex's wait queue
    pc

vars == <<value, current, sleeping, pc>>

Init ==
    /\ value = 0
    /\ current = [w \in Waiters |-> 0]
    /\ sleeping = {}
    /\ pc = [w \in Waiters |-> "load"] @@ [s \in Writers |-> "store"]

Goto(t, l) == pc' = [pc EXCEPT ![t] = l]

\* current_value = synchronization_object->load();  (lines 57 and 61)
load(w) ==
    /\ pc[w] = "load"
    /\ current' = [current EXCEPT ![w] = value]
    /\ Goto(w, "check")
    /\ UNCHANGED <<value, sleeping>>

\* while (current_value < target_value)
check(w) ==
    /\ pc[w] = "check"
    /\ Goto(w, IF current[w] < Target THEN "wait" ELSE "done")
    /\ UNCHANGED <<value, current, sleeping>>

\* Fault variant: FUTEX_WAIT is passed the target instead of the loaded value.
waitForCondition_target(w) ==
    /\ pc[w] = "wait"
    /\ IF value # Target
       THEN Goto(w, "load") /\ UNCHANGED sleeping
       ELSE sleeping' = sleeping \cup {w} /\ Goto(w, "asleep")
    /\ UNCHANGED <<value, current>>

\* waitForCondition(obj, current_value, 1s): FUTEX_WAIT returns EAGAIN if
\* the word no longer holds current_value, else the caller sleeps.
waitForCondition(w) ==
    /\ pc[w] = "wait"
    /\ IF value # current[w]
       THEN Goto(w, "load") /\ UNCHANGED sleeping
       ELSE sleeping' = sleeping \cup {w} /\ Goto(w, "asleep")
    /\ UNCHANGED <<value, current>>

\* The 1 s timeout expires, or a signal interrupts the sleep (EINTR).
timeout(w) ==
    /\ pc[w] = "asleep"
    /\ sleeping' = sleeping \ {w}
    /\ Goto(w, "load")
    /\ UNCHANGED <<value, current>>

\* A writer raises the counter.
store(s) ==
    /\ pc[s] = "store" /\ value < MaxValue
    /\ value' = value + 1
    /\ Goto(s, "wake")
    /\ UNCHANGED <<current, sleeping>>

\* Fault variant: FUTEX_WAKE with a count of 1 instead of INT_MAX.
wakeAllThreads_one(s) ==
    /\ pc[s] = "wake"
    /\ IF sleeping = {} THEN UNCHANGED <<sleeping, current>> /\ Goto(s, "store")
       ELSE \E w \in sleeping :
               /\ sleeping' = sleeping \ {w}
               /\ pc' = [pc EXCEPT ![w] = "load", ![s] = "store"]
               /\ UNCHANGED current
    /\ UNCHANGED value

\* wakeAllThreads(obj): FUTEX_WAKE of up to INT_MAX sleepers.
wakeAllThreads(s) ==
    /\ pc[s] = "wake"
    /\ sleeping' = {}
    /\ pc' = [t \in DOMAIN pc |-> IF t \in sleeping THEN "load"
                                   ELSE IF t = s THEN "store" ELSE pc[t]]
    /\ UNCHANGED <<value, current>>

Waiter(w) == load(w) \/ check(w) \/ waitForCondition(w)

Writer(s) == store(s) \/ wakeAllThreads(s)

Next ==
    \/ \E w \in Waiters : Waiter(w) \/ timeout(w)
    \/ \E s \in Writers : Writer(s)

\* Runnable threads are scheduled.  A sleeper is woken only by FUTEX_WAKE:
\* the timeout and EINTR are not counted on.
Fairness ==
    /\ \A w \in Waiters : WF_vars(Waiter(w))
    /\ \A s \in Writers : WF_vars(Writer(s))

Spec == Init /\ [][Next]_vars /\ Fairness

-----------------------------------------------------------------------------

TypeOK ==
    /\ value \in 0 .. MaxValue
    /\ current \in [Waiters -> 0 .. MaxValue]
    /\ sleeping \subseteq Waiters

\* A sleeper in FUTEX_WAIT whose loaded value is stale always has a wake
\* coming: some writer has raised the counter and not yet called
\* wakeAllThreads.  The compare inside FUTEX_WAIT keeps a waiter from
\* going to sleep on a value that was already overwritten.
NoLostWakeup ==
    \A w \in sleeping : current[w] # value => \E s \in Writers : pc[s] = "wake"

\* Once writers have raised the counter to the target, every waiter
\* returns from waitUntilValueReached, woken by FUTEX_WAKE or turned back
\* by FUTEX_WAIT's compare, with no help from the 1 s timeout: a raise
\* that lands between a waiter's load and its FUTEX_WAIT is never lost.
WaitCompletes == \A w \in Waiters : <>(pc[w] = "done")

=============================================================================
