------------------------------ MODULE MC_Logging ------------------------------
(***************************************************************************)
(* main runs demonstrateLogging of src/example/turbokit_example.cpp       *)
(* (119-132); a worker thread logs, raises the level, writes to std::cout *)
(* and ends in criticalError.                                             *)
(***************************************************************************)
EXTENDS Logging

CONSTANTS main, worker

Cout == [op |-> "cout"]
Log(l) == [op |-> "log", level |-> l]

\* std::cout; log.info; log.error; log.verbose; log.info; std::cout
demonstrateLogging == <<Cout, Log(MSG_INFO), Log(MSG_ERROR), Log(MSG_VERBOSE),
                        Log(MSG_INFO), Cout>>

Worker == <<Log(MSG_INFO), [op |-> "set", level |-> MSG_VERBOSE],
            Log(MSG_VERBOSE), Cout, [op |-> "fatal"]>>

MCProgram == [t \in {main, worker} |-> IF t = main THEN demonstrateLogging ELSE Worker]

=============================================================================
