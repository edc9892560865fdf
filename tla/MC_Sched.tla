------------------------------ MODULE MC_Sched ------------------------------
(***************************************************************************)
(* Sched with three tasks.  The kernel task k (priority 0, like            *)
(* kernel_task) is the only task that calls delay(); a (priority 1) and b  *)
(* (priority 2) wait for and send TB_RESUME with one-bit masks, the way    *)
(* every caller in src/ uses wait() and signal().                          *)
(***************************************************************************)
EXTENDS Sched

MCTask == {"k", "a", "b"}
MCPri == [t \in MCTask |-> CASE t = "k" -> 0 [] t = "a" -> 1 [] t = "b" -> 2]
MCWaitMasks == [t \in MCTask |-> IF t = "k" THEN {} ELSE {{"RESUME"}}]
MCSignalMasks == {{"RESUME"}}
=============================================================================
