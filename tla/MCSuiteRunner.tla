--------------------------- MODULE MCSuiteRunner ---------------------------
(* A small suite run, with its report: the calls its processes can make.   *)
EXTENDS SuiteReport

MCCalls == Procs \X ((1 .. NTasks) \X (1 .. NAgents))
=============================================================================
