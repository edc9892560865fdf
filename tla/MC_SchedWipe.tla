---------------------------- MODULE MC_SchedWipe ----------------------------
(***************************************************************************)
(* Sched with the priorities of kernel_main.c: the kernel task k           *)
(* (priority 0) waits for TB_RESUME, timer_task tt (priority 10) loops on  *)
(* delay() and signals.                                                    *)
(***************************************************************************)
EXTENDS Sched

MCTask == {"k", "tt"}
MCPri == [t \in MCTask |-> IF t = "k" THEN 0 ELSE 10]
MCWaitMasks == [t \in MCTask |-> IF t = "k" THEN {{"RESUME"}} ELSE {}]
MCSignalMasks == {{"RESUME"}}
=============================================================================
