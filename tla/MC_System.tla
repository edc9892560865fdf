------------------------------ MODULE MC_System -----------------------------
(***************************************************************************)
(* System with the tasks, priorities and queues of kernel_main.c and       *)
(* console.c: kernel task k and console task c, both of priority 0; the    *)
(* console's iorq_queue (capacity 10), do_io()'s response queue            *)
(* (capacity 1) and keybd_queue (capacity 1).  At most one request and one *)
(* response are ever queued and keybd_queue holds one key, so three        *)
(* message nodes suffice.                                                  *)
(***************************************************************************)
EXTENDS System

MCTask == {"k", "c"}
MCPri == [t \in MCTask |-> 0]
MCWaitMasks == [t \in MCTask |-> {}]
MCSignalMasks == {{"RESUME"}}
MCQueue == {"iorq", "resp", "keybd"}
MCOwner == [q \in MCQueue |-> IF q = "resp" THEN "k" ELSE "c"]
MCCapacity == [q \in MCQueue |-> IF q = "iorq" THEN 10 ELSE 1]
MCMsgL == [q \in MCQueue |-> [h |-> q \o ".msg.head", t |-> q \o ".msg.tail"]]
MCWaitersL == [q \in MCQueue |-> [h |-> q \o ".waiters.head", t |-> q \o ".waiters.tail"]]
MCExtraLists == {MCMsgL[q] : q \in MCQueue} \cup {MCWaitersL[q] : q \in MCQueue}
MCMsgNode == {"m1", "m2", "m3"}
=============================================================================
