------------------------------- MODULE Logging -------------------------------
(***************************************************************************)
(* The logger of src/include/logging.h.  Threads run small programs of    *)
(* std::cout writes, log calls (MessageWriter::error/info/verbose/debug),  *)
(* criticalError and changes of activeMessageLevel.  writeMessage runs    *)
(* under messageMutex: it flushes the secondary stream, prints the        *)
(* message on the primary one and flushes it; MSG_ERROR swaps stdout and  *)
(* stderr.  stdout is a libc buffer (std::cout writes into it too, being  *)
(* synced with stdio) that libc may flush in part at any time; stderr is  *)
(* unbuffered.  term is what reaches the terminal, in order.  A write is  *)
(* [t, n, lock]: thread t's n-th operation, and the number of the         *)
(* messageMutex acquisition it was printed under (0 for std::cout).       *)
(* Timestamps and formatting are left out: a write is its identity.       *)
(***************************************************************************)
EXTENDS Integers, Sequences

CONSTANTS
    Threads,   \* the threads
    Program,   \* Program[t]: t's operations, a sequence of records below
    NoThread,  \* holder when messageMutex is free
    Main       \* the thread running main()

\* enum class MessageLevel
MSG_NONE == 0
MSG_ERROR == 1
MSG_INFO == 2
MSG_VERBOSE == 3
MSG_DEBUG == 4

\* Operations: [op |-> "cout"], [op |-> "log", level |-> l],
\* [op |-> "fatal"] (criticalError) and [op |-> "set", level |-> l].

VARIABLES
    activeMessageLevel,
    holder,    \* messageMutex's owner, or NoThread
    locks,     \* messageMutex acquisitions so far
    pc,        \* per thread: index of its current operation
    stage,     \* per thread: where it is inside that operation
    stdoutBuf, \* writes in stdout's libc buffer
    term,      \* writes on the terminal, in the order they arrived
    issued,    \* every write made so far
    exited     \* the process has ended

vars == <<activeMessageLevel, holder, locks, pc, stage, stdoutBuf, term, issued, exited>>

Init ==
    /\ activeMessageLevel = MSG_INFO
    /\ holder = NoThread /\ locks = 0
    /\ pc = [t \in Threads |-> 1]
    /\ stage = [t \in Threads |-> "call"]
    /\ stdoutBuf = <<>> /\ term = <<>> /\ issued = {}
    /\ exited = FALSE

Op(t) == Program[t][pc[t]]

Running(t) == ~exited /\ pc[t] <= Len(Program[t])

\* The level writeMessage is called with; criticalError uses error().
LevelOf(o) == IF o.op = "fatal" THEN MSG_ERROR ELSE o.level

Done(t) == pc' = [pc EXCEPT ![t] = pc[t] + 1] /\ stage' = [stage EXCEPT ![t] = "call"]

Goto(t, s) == stage' = [stage EXCEPT ![t] = s] /\ UNCHANGED pc

\* Moves the whole stdout buffer to the terminal.
FlushStdout == term' = term \o stdoutBuf /\ stdoutBuf' = <<>>

\* std::cout << ...: one write into stdout's buffer.
cout(t) ==
    /\ Running(t) /\ stage[t] = "call" /\ Op(t).op = "cout"
    /\ LET w == [t |-> t, n |-> pc[t], lock |-> 0]
       IN stdoutBuf' = Append(stdoutBuf, w) /\ issued' = issued \cup {w}
    /\ Done(t)
    /\ UNCHANGED <<activeMessageLevel, holder, locks, term, exited>>

\* currentLogLevel = l: a plain store that races with the loads in log calls.
setLevel(t) ==
    /\ Running(t) /\ stage[t] = "call" /\ Op(t).op = "set"
    /\ activeMessageLevel' = Op(t).level
    /\ Done(t)
    /\ UNCHANGED <<holder, locks, stdoutBuf, term, issued, exited>>

\* MessageWriter: error() and criticalError always call writeMessage,
\* info/verbose/debug only if activeMessageLevel >= their level.
logCall(t) ==
    /\ Running(t) /\ stage[t] = "call" /\ Op(t).op \in {"log", "fatal"}
    /\ IF LevelOf(Op(t)) = MSG_ERROR \/ activeMessageLevel >= LevelOf(Op(t))
       THEN Goto(t, "lock")
       ELSE Done(t)
    /\ UNCHANGED <<activeMessageLevel, holder, locks, stdoutBuf, term, issued, exited>>

\* std::lock_guard lock(messageMutex).
lock(t) ==
    /\ Running(t) /\ stage[t] = "lock" /\ holder = NoThread
    /\ holder' = t /\ locks' = locks + 1
    /\ Goto(t, "flush_secondary")
    /\ UNCHANGED <<activeMessageLevel, stdoutBuf, term, issued, exited>>

\* Fault variant: the secondary stream is not flushed.
flushSecondary_skipped(t) ==
    /\ Running(t) /\ stage[t] = "flush_secondary"
    /\ Goto(t, "print")
    /\ UNCHANGED <<activeMessageLevel, holder, locks, stdoutBuf, term, issued, exited>>

\* fflush(secondary_output): stdout for MSG_ERROR, else the unbuffered
\* stderr, where it does nothing.
flushSecondary(t) ==
    /\ Running(t) /\ stage[t] = "flush_secondary"
    /\ IF LevelOf(Op(t)) = MSG_ERROR THEN FlushStdout ELSE UNCHANGED <<stdoutBuf, term>>
    /\ Goto(t, "print")
    /\ UNCHANGED <<activeMessageLevel, holder, locks, issued, exited>>

\* fmt::fprintf(primary_output, ...): stderr is written at once, stdout
\* into its buffer.
print(t) ==
    /\ Running(t) /\ stage[t] = "print"
    /\ LET w == [t |-> t, n |-> pc[t], lock |-> locks]
       IN /\ issued' = issued \cup {w}
          /\ IF LevelOf(Op(t)) = MSG_ERROR
             THEN term' = Append(term, w) /\ UNCHANGED stdoutBuf
             ELSE stdoutBuf' = Append(stdoutBuf, w) /\ UNCHANGED term
    /\ Goto(t, "flush_primary")
    /\ UNCHANGED <<activeMessageLevel, holder, locks, exited>>

\* Fault variant: writeMessage does not flush its primary stream.
flushPrimary_unflushed(t) ==
    /\ Running(t) /\ stage[t] = "flush_primary"
    /\ holder' = NoThread
    /\ IF Op(t).op = "fatal" THEN Goto(t, "quick_exit") ELSE Done(t)
    /\ UNCHANGED <<activeMessageLevel, locks, stdoutBuf, term, issued, exited>>

\* fflush(primary_output), then the lock_guard releases the mutex;
\* criticalError goes on to quick_exit.
flushPrimary(t) ==
    /\ Running(t) /\ stage[t] = "flush_primary"
    /\ IF LevelOf(Op(t)) = MSG_ERROR THEN UNCHANGED <<stdoutBuf, term>> ELSE FlushStdout
    /\ holder' = NoThread
    /\ IF Op(t).op = "fatal" THEN Goto(t, "quick_exit") ELSE Done(t)
    /\ UNCHANGED <<activeMessageLevel, locks, issued, exited>>

\* std::quick_exit(1): the process ends without flushing stdio buffers.
quickExit(t) ==
    /\ Running(t) /\ stage[t] = "quick_exit"
    /\ exited' = TRUE
    /\ UNCHANGED <<activeMessageLevel, holder, locks, pc, stage, stdoutBuf, term, issued>>

\* libc flushes a full stdout buffer, or a line of a line-buffered one:
\* some prefix of the buffer reaches the terminal.
libcFlush ==
    /\ ~exited /\ stdoutBuf # <<>>
    /\ \E k \in 1..Len(stdoutBuf) :
          /\ term' = term \o SubSeq(stdoutBuf, 1, k)
          /\ stdoutBuf' = SubSeq(stdoutBuf, k + 1, Len(stdoutBuf))
    /\ UNCHANGED <<activeMessageLevel, holder, locks, pc, stage, issued, exited>>

\* main returns: exit() flushes stdout and ends the process.
exit ==
    /\ ~exited /\ pc[Main] > Len(Program[Main])
    /\ FlushStdout /\ exited' = TRUE
    /\ UNCHANGED <<activeMessageLevel, holder, locks, pc, stage, issued>>

Thread(t) ==
    \/ cout(t) \/ setLevel(t) \/ logCall(t) \/ lock(t) \/ flushSecondary(t)
    \/ print(t) \/ flushPrimary(t) \/ quickExit(t)

Next == libcFlush \/ exit \/ \E t \in Threads : Thread(t)

Spec == Init /\ [][Next]_vars

-----------------------------------------------------------------------------

\* w1 happens before w2: the same thread made them in that order, or both
\* were printed under messageMutex, w1 first.  (Checked for every write on
\* the terminal, this also orders the chains it forms.)
HappensBefore(w1, w2) ==
    \/ w1.t = w2.t /\ w1.n < w2.n
    \/ 0 < w1.lock /\ w1.lock < w2.lock

\* Output keeps the order the program imposes: whatever reaches the
\* terminal, on stdout or stderr, comes after every write that happened
\* before it, so std::cout text appears before a later error of the same
\* thread, and log messages in the order they took messageMutex, even
\* when the process ends in criticalError's quick_exit.
OutputFollowsHappensBefore ==
    \A i \in 1..Len(term) : \A w \in issued :
        HappensBefore(w, term[i]) => \E j \in 1..(i - 1) : term[j] = w

\* Thread t's writeMessage that printed w has returned.
Returned(w) == pc[w.t] > w.n \/ stage[w.t] = "quick_exit"

\* A log message whose writeMessage returned is on the terminal when the
\* process ends, also when another thread's criticalError ends it with
\* quick_exit, which drops stdout's buffer: the fflush(primary_output)
\* before the mutex is released is what saves an info message printed
\* after the fatal error.  (std::cout text has no such guarantee.)
LoggedMessagesSurviveExit ==
    exited => \A w \in issued :
                  w.lock > 0 /\ Returned(w) => \E i \in 1 .. Len(term) : term[i] = w

=============================================================================
