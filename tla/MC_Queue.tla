------------------------------ MODULE MC_Queue ------------------------------
(***************************************************************************)
(* Queue with the queues and task calls of the console device and do_io() *)
(* made in any order and any number:                                       *)
(*   - iorq (the console's iorq_queue, owner c): k sends BLOCKING (do_io), *)
(*     c receives BLOCKING (console_device);                               *)
(*   - resp (do_io's response queue, owner k): c sends NONBLOCKING, k      *)
(*     receives BLOCKING.                                                  *)
(* Both tasks have priority 0, as in kernel_main.c.  iorq has capacity 10  *)
(* in the code; 2 here, so that it can be neither empty nor full.  The     *)
(* keyboard is left to MC_System.  Message nodes are a pool of three, the  *)
(* sum of the capacities.                                                  *)
(***************************************************************************)
EXTENDS Queue

MCTask == {"k", "c"}
MCPri == [t \in MCTask |-> 0]
MCWaitMasks == [t \in MCTask |-> {}]
MCSignalMasks == {{"RESUME"}}
MCQueue == {"iorq", "resp"}
MCOwner == [q \in MCQueue |-> IF q = "resp" THEN "k" ELSE "c"]
MCCapacity == [q \in MCQueue |-> IF q = "iorq" THEN 2 ELSE 1]
MCMsgL == [q \in MCQueue |-> [h |-> q \o ".msg.head", t |-> q \o ".msg.tail"]]
MCWaitersL == [q \in MCQueue |-> [h |-> q \o ".waiters.head", t |-> q \o ".waiters.tail"]]
MCExtraLists == {MCMsgL[q] : q \in MCQueue} \cup {MCWaitersL[q] : q \in MCQueue}
MCMsgNode == {"m1", "m2", "m3"}
ConsoleSends == {<<"k", "iorq", "BLOCKING">>, <<"c", "resp", "NONBLOCKING">>}
ConsoleRecvs == {<<"c", "iorq", "BLOCKING">>, <<"k", "resp", "BLOCKING">>}
=============================================================================
