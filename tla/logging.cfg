\* main runs demonstrateLogging; the worker logs, raises
\* activeMessageLevel to MSG_VERBOSE, writes to std::cout and calls
\* criticalError.
CONSTANTS
    main = main  worker = worker
    Threads = {main, worker}
    NoThread = NoThread
    Main = main
    Program <- MCProgram
SPECIFICATION Spec
\* The process ends, by quick_exit or by returning from main.
CHECK_DEADLOCK FALSE
INVARIANTS OutputFollowsHappensBefore LoggedMessagesSurviveExit
