------------------------------ MODULE MCProcMgr ------------------------------
(****************************************************************************)
(* TLC instances of ProcMgr: the three tasks, INIT, in the run wait another *)
(* process, and the slot that fork may use.  Ticks inside the copy and the  *)
(* read-modify-writes are excluded in the runs that pass; OnlyMark lets     *)
(* them into the copy.                                                      *)
(****************************************************************************)
EXTENDS ProcMgr

MCCallers == {TASK_SYS, TASK_MM, INIT}
MCZeroBody == [type |-> "NONE", val |-> 0, pid |-> 0]
MCStatus == {41, 42}
OneStatus == {41}
MCJunk == {99}
ZeroJunk == {0}

ForkTicks == {"FORK", "GET_TICKS"}
ManageCalls == {"FORK", "WAIT", "EXIT", "EXEC"}
ForkWaitExit == {"FORK", "WAIT", "EXIT"}

OnlyMark == {"hang", "mark"}
=============================================================================
