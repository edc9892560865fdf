------------------------------- MODULE Queue --------------------------------
(***************************************************************************)
(* The bounded message queues of src/queue.c on top of the scheduler of    *)
(* module Sched, and the keyboard interrupt of src/console.c that sends    *)
(* into one of them.                                                       *)
(*                                                                         *)
(* A queue is its message list (a PrioList list of message nodes, add_head *)
(* to send, remove_tail to receive), free_slots, its owner and its list of *)
(* blocked senders (waiters).  Messages are nodes from the pool ExtraNodes *)
(* (kmalloc'd queue_msg_t); payloads are left out, since delivery order is *)
(* the list's and the list is checked on its own (ListSpec).               *)
(*                                                                         *)
(* queue_send() and queue_recv() are split at every statement that reads   *)
(* or writes state another actor shares: the test of free_slots, the       *)
(* kmalloc/kfree syscalls (whose interrupt return may reschedule), the     *)
(* link and the two writes of remove_tail, the load and the store of       *)
(* free_slots++ / free_slots-- (a read-modify-write the compiler emits as  *)
(* separate load and store), and each signal() of the waiter loop.  The    *)
(* blocking paths call wait() of module Sched with the queue's waiters (or *)
(* tasks_wait) and return into their do-while loop.                        *)
(*                                                                         *)
(* The keyboard interrupt (keypress_isr with a key-down scancode) runs the *)
(* whole non-blocking queue_send() atomically, then the interrupt return.  *)
(***************************************************************************)
EXTENDS Sched

CONSTANTS Queue,      \* queues created by create_queue() before use
          Owner,      \* [Queue -> Task]: queue->owner
          Capacity,   \* [Queue -> Nat]: queue->max_slots
          MsgL,       \* [Queue -> list]: the message list of each queue
          WaitersL,   \* [Queue -> list]: queue->waiters
          SendCalls,  \* <<task, queue, mode>> triples the tasks' code sends with
          RecvCalls,  \* <<task, queue, mode>> triples the tasks' code receives with
          KbdQueue,   \* keybd_queue, or a value outside Queue when no keyboard
          ForbidBound, \* bound on forbid_counter: calls that would raise it
                       \* further (leaked forbids) are not explored
          KbdInForbid \* whether a key press may come while the running
                      \* task holds forbid()

Mode == {"BLOCKING", "NONBLOCKING"}

ASSUME /\ Owner \in [Queue -> Task]
       /\ Capacity \in [Queue -> Nat \ {0}]
       /\ SendCalls \subseteq Task \X Queue \X Mode
       /\ RecvCalls \subseteq Task \X Queue \X Mode
       /\ KbdInForbid \in BOOLEAN

VARIABLES freeSlots, \* queue->free_slots
          inUse,     \* message nodes allocated (the rest are free heap)
          qarg       \* the queue call a task is in: queue, blocking path,
                     \* the node it handles (msg or aux) and the loaded count

qvars == <<vars, freeSlots, inUse, qarg>>
\* The kernel state a task's own local step leaves alone.
kvars == <<lk, running, idle, flags, sigsWaiting, sigsRecvd, taskDelay,
           forbidCounter, needSchedule>>

QPC == PC \cup {"qs_alloc", "qs_link", "qs_load", "qs_store", "qs_sig",
                "qs_sigy", "qs_loop", "qs_ret",
                "qr_unlink", "qr_unlink2", "qr_free", "qr_load", "qr_store",
                "qr_wake", "qr_wakey", "qr_next", "qr_loop", "qr_ret"}
NoQArg == [q |-> CHOOSE q \in Queue : TRUE, blk |-> FALSE, node |-> NULL,
           old |-> 0, ret |-> "user"]

QGoto(t, p) == pc' = [pc EXCEPT ![t] = p]
SetQArg(t, f) == qarg' = [qarg EXCEPT ![t] = f]
Q(t) == qarg[t].q

\* The call of wait(TB_QUEUE, l) made by the do-while loop of a blocking
\* path, returning to p.
WaitQueue(t, l, p) ==
    /\ arg' = [arg EXCEPT ![t] = [NoArg EXCEPT !.mask = {"QUEUE"}, !.list = l,
                                               !.ret = p]]
    /\ QGoto(t, "w1")

(***************************************************************************)
(* queue_send()                                                            *)
(***************************************************************************)
\* Fault variant of SendCall: the space test written free_slots >= 0.
SendCallNoSpaceCheck(t, q, mode, ret) ==
    /\ forbidCounter' = forbidCounter + 1
    /\ SetQArg(t, [NoQArg EXCEPT !.q = q, !.ret = ret])
    /\ CASE freeSlots[q] >= 0 -> QGoto(t, "qs_alloc") /\ UNCHANGED arg
         [] mode = "BLOCKING" -> WaitQueue(t, WaitersL[q], "qs_loop")
         [] OTHER             -> QGoto(t, ret) /\ UNCHANGED arg
    /\ UNCHANGED <<lk, running, idle, flags, sigsWaiting, sigsRecvd, taskDelay,
                   needSchedule, ticksInCall, freeSlots, inUse>>

\* queue_send(q, msg, mode), called by t to return to ret: forbid(); if
\* (free_slots > 0) ...; else blocking: wait on the queue's waiters; else
\* return NULL (forbid() is not undone).
SendCall(t, q, mode, ret) ==
    /\ forbidCounter' = forbidCounter + 1
    /\ SetQArg(t, [NoQArg EXCEPT !.q = q, !.ret = ret])
    /\ CASE freeSlots[q] > 0 -> QGoto(t, "qs_alloc") /\ UNCHANGED arg
         [] mode = "BLOCKING" -> WaitQueue(t, WaitersL[q], "qs_loop")
         [] OTHER             -> QGoto(t, ret) /\ UNCHANGED arg
    /\ UNCHANGED <<lk, running, idle, flags, sigsWaiting, sigsRecvd, taskDelay,
                   needSchedule, ticksInCall, freeSlots, inUse>>

\* A task between API calls makes one of the sends its code makes.
QSend(t) ==
    /\ Running(t) /\ pc[t] = "user" /\ forbidCounter < ForbidBound
    /\ \E c \in SendCalls : c[1] = t /\ SendCall(t, c[2], c[3], "user")

\* The node kmalloc() returns for a message: some free one.  Which one does
\* not matter to the queue (message nodes are interchangeable), so one is
\* chosen rather than each explored.
NewMsg == CHOOSE m \in ExtraNodes \ inUse : TRUE

\* new_msg = kmalloc(...) (and the payload copy): a syscall, whose return
\* through the trampoline reschedules if NEED_SCHEDULE is set and forbid()
\* no longer holds.
QSendAlloc(t) ==
    /\ Running(t) /\ pc[t] = "qs_alloc"
    /\ inUse # ExtraNodes
    /\ inUse' = inUse \cup {NewMsg}
    /\ SetQArg(t, [qarg[t] EXCEPT !.node = NewMsg])
    /\ Commit(IrqExit(Cur))
    /\ QGoto(t, "qs_link")
    /\ UNCHANGED <<arg, ticksInCall, freeSlots>>

\* Fault variant of QSendLink: the message linked with add_tail(), at the
\* end receives take from.
QSendLinkTail(t) ==
    /\ Running(t) /\ pc[t] = "qs_link"
    /\ lk' = AddTail(lk, MsgL[Q(t)], qarg[t].node)
    /\ QGoto(t, "qs_load")
    /\ UNCHANGED <<running, idle, flags, sigsWaiting, sigsRecvd, taskDelay,
                   forbidCounter, needSchedule, arg, ticksInCall,
                   freeSlots, inUse, qarg>>

\* add_head(queue, new_msg).
QSendLink(t) ==
    /\ Running(t) /\ pc[t] = "qs_link"
    /\ lk' = AddHead(lk, MsgL[Q(t)], qarg[t].node)
    /\ QGoto(t, "qs_load")
    /\ UNCHANGED <<running, idle, flags, sigsWaiting, sigsRecvd, taskDelay,
                   forbidCounter, needSchedule, arg, ticksInCall,
                   freeSlots, inUse, qarg>>

\* free_slots--: the load.
QSendLoad(t) ==
    /\ Running(t) /\ pc[t] = "qs_load"
    /\ SetQArg(t, [qarg[t] EXCEPT !.old = freeSlots[Q(t)]])
    /\ QGoto(t, "qs_store")
    /\ UNCHANGED <<kvars, arg, ticksInCall, freeSlots, inUse>>

\* Fault variant of QSendStore: the owner test written with a
\* pre-decrement, --free_slots == max_slots, which never holds.
QSendStorePreDec(t) ==
    /\ Running(t) /\ pc[t] = "qs_store"
    /\ freeSlots' = [freeSlots EXCEPT ![Q(t)] = qarg[t].old - 1]
    /\ QGoto(t, IF ~qarg[t].blk /\ qarg[t].old - 1 = Capacity[Q(t)]
                THEN "qs_sig" ELSE "qs_ret")
    /\ UNCHANGED <<kvars, arg, ticksInCall, inUse, qarg>>

\* free_slots--: the store; then, on the non-blocking path only, signal the
\* owner when the queue was empty (free_slots-- == max_slots).
QSendStore(t) ==
    /\ Running(t) /\ pc[t] = "qs_store"
    /\ freeSlots' = [freeSlots EXCEPT ![Q(t)] = qarg[t].old - 1]
    /\ QGoto(t, IF ~qarg[t].blk /\ qarg[t].old = Capacity[Q(t)]
                THEN "qs_sig" ELSE "qs_ret")
    /\ UNCHANGED <<kvars, arg, ticksInCall, inUse, qarg>>

\* The owner signal testing the bits the owner has received instead of
\* those it waits for.
QSendSignalRecvd(t) ==
    /\ Running(t) /\ pc[t] = "qs_sig"
    /\ LET o == Owner[Q(t)]
       IN  IF "QUEUE" \in sigsRecvd[o]
           THEN Commit(SignalWake(Cur, o, {"QUEUE"})) /\ QGoto(t, "qs_sigy")
           ELSE QGoto(t, "qs_ret") /\ UNCHANGED <<lk, running, idle, flags,
                    sigsWaiting, sigsRecvd, taskDelay, forbidCounter, needSchedule>>
    /\ UNCHANGED <<arg, ticksInCall, freeSlots, inUse, qarg>>

\* signal(queue->owner, TB_QUEUE) up to its permit(); nothing when the
\* owner is not waiting for TB_QUEUE.
QSendSignal(t) ==
    /\ Running(t) /\ pc[t] = "qs_sig"
    /\ LET o == Owner[Q(t)]
       IN  IF "QUEUE" \in sigsWaiting[o]
           THEN Commit(SignalWake(Cur, o, {"QUEUE"})) /\ QGoto(t, "qs_sigy")
           ELSE QGoto(t, "qs_ret") /\ UNCHANGED <<lk, running, idle, flags,
                    sigsWaiting, sigsRecvd, taskDelay, forbidCounter, needSchedule>>
    /\ UNCHANGED <<arg, ticksInCall, freeSlots, inUse, qarg>>

\* signal(): the priority test and yield().
QSendSignalYield(t) ==
    /\ Running(t) /\ pc[t] = "qs_sigy"
    /\ Commit(IrqExit(SignalYield(Cur, Owner[Q(t)])))
    /\ QGoto(t, "qs_ret")
    /\ UNCHANGED <<arg, ticksInCall, freeSlots, inUse, qarg>>

\* The do-while loop of the blocking path after wait() returns:
\* forbid(); wait again while free_slots == 0.
QSendLoop(t) ==
    /\ Running(t) /\ pc[t] = "qs_loop"
    /\ forbidCounter' = forbidCounter + 1
    /\ IF freeSlots[Q(t)] = 0
       THEN WaitQueue(t, WaitersL[Q(t)], "qs_loop") /\ UNCHANGED qarg
       ELSE QGoto(t, "qs_alloc") /\ SetQArg(t, [qarg[t] EXCEPT !.blk = TRUE])
                                 /\ UNCHANGED arg
    /\ UNCHANGED <<lk, running, idle, flags, sigsWaiting, sigsRecvd, taskDelay,
                   needSchedule, ticksInCall, freeSlots, inUse>>

\* permit(); return new_msg.
QSendReturn(t) ==
    /\ Running(t) /\ pc[t] = "qs_ret"
    /\ forbidCounter' = IF forbidCounter > 0 THEN forbidCounter - 1 ELSE 0
    /\ QGoto(t, qarg[t].ret)
    /\ UNCHANGED <<lk, running, idle, flags, sigsWaiting, sigsRecvd, taskDelay,
                   needSchedule, arg, ticksInCall, freeSlots, inUse, qarg>>

(***************************************************************************)
(* queue_recv()                                                            *)
(***************************************************************************)
\* queue_recv(q, ptr, mode), called by t to return to ret: forbid(); if
\* (free_slots < max_slots) ...; else blocking: wait on the global
\* tasks_wait; else return NULL (forbid() is not undone).
RecvCall(t, q, mode, ret) ==
    /\ forbidCounter' = forbidCounter + 1
    /\ SetQArg(t, [NoQArg EXCEPT !.q = q, !.ret = ret])
    /\ CASE freeSlots[q] < Capacity[q] -> QGoto(t, "qr_unlink") /\ UNCHANGED arg
         [] mode = "BLOCKING" -> WaitQueue(t, WaitL, "qr_loop")
         [] OTHER             -> QGoto(t, ret) /\ UNCHANGED arg
    /\ UNCHANGED <<lk, running, idle, flags, sigsWaiting, sigsRecvd, taskDelay,
                   needSchedule, ticksInCall, freeSlots, inUse>>

\* A task between API calls makes one of the receives its code makes.
QRecv(t) ==
    /\ Running(t) /\ pc[t] = "user" /\ forbidCounter < ForbidBound
    /\ \E c \in RecvCalls : c[1] = t /\ RecvCall(t, c[2], c[3], "user")

\* msg = remove_tail(queue): node = tailPrev; node->prev->next = node->next.
QRecvUnlink(t) ==
    /\ Running(t) /\ pc[t] = "qr_unlink"
    /\ LET n == TailOf(lk, MsgL[Q(t)])
       IN  /\ lk' = UnlinkForward(lk, n)
           /\ SetQArg(t, [qarg[t] EXCEPT !.node = n])
    /\ QGoto(t, "qr_unlink2")
    /\ UNCHANGED <<running, idle, flags, sigsWaiting, sigsRecvd, taskDelay,
                   forbidCounter, needSchedule, arg, ticksInCall, freeSlots, inUse>>

\* remove_tail(): node->next->prev = node->prev.
QRecvUnlink2(t) ==
    /\ Running(t) /\ pc[t] = "qr_unlink2"
    /\ lk' = UnlinkBackward(lk, qarg[t].node)
    /\ QGoto(t, "qr_free")
    /\ UNCHANGED <<running, idle, flags, sigsWaiting, sigsRecvd, taskDelay,
                   forbidCounter, needSchedule, arg, ticksInCall,
                   freeSlots, inUse, qarg>>

\* kfree(msg->data_ptr); kfree(msg): syscalls, whose interrupt return may
\* reschedule.
QRecvFree(t) ==
    /\ Running(t) /\ pc[t] = "qr_free"
    /\ inUse' = inUse \ {qarg[t].node}
    /\ Commit(IrqExit(Cur))
    /\ QGoto(t, "qr_load")
    /\ UNCHANGED <<arg, ticksInCall, freeSlots, qarg>>

\* free_slots++: the load.
QRecvLoad(t) ==
    /\ Running(t) /\ pc[t] = "qr_load"
    /\ SetQArg(t, [qarg[t] EXCEPT !.old = freeSlots[Q(t)]])
    /\ QGoto(t, "qr_store")
    /\ UNCHANGED <<kvars, arg, ticksInCall, freeSlots, inUse>>

\* Fault variant of QRecvStore: the blocking path's free_slots++ left out.
QRecvStoreBlkNoInc(t) ==
    /\ Running(t) /\ pc[t] = "qr_store"
    /\ freeSlots' = [freeSlots EXCEPT ![Q(t)] = IF qarg[t].blk THEN qarg[t].old
                                                ELSE qarg[t].old + 1]
    /\ IF ~qarg[t].blk /\ qarg[t].old = 0
       THEN /\ QGoto(t, "qr_wake")
            /\ SetQArg(t, [qarg[t] EXCEPT !.node = GetHead(lk, WaitersL[Q(t)])])
       ELSE QGoto(t, "qr_ret") /\ UNCHANGED qarg
    /\ UNCHANGED <<kvars, arg, ticksInCall, inUse>>

\* free_slots++: the store; then, on the non-blocking path only, wake the
\* send-waiters when the queue was full (free_slots++ == 0), starting
\* from aux = get_head(&queue->waiters).
QRecvStore(t) ==
    /\ Running(t) /\ pc[t] = "qr_store"
    /\ freeSlots' = [freeSlots EXCEPT ![Q(t)] = qarg[t].old + 1]
    /\ IF ~qarg[t].blk /\ qarg[t].old = 0
       THEN /\ QGoto(t, "qr_wake")
            /\ SetQArg(t, [qarg[t] EXCEPT !.node = GetHead(lk, WaitersL[Q(t)])])
       ELSE QGoto(t, "qr_ret") /\ UNCHANGED qarg
    /\ UNCHANGED <<kvars, arg, ticksInCall, inUse>>

\* while (aux) signal(aux, TB_QUEUE): the signal up to its permit().  The
\* loop ends when aux is NULL (or is not a task control block, which a
\* corrupted list can hand it).
QRecvWake(t) ==
    /\ Running(t) /\ pc[t] = "qr_wake"
    /\ LET a == qarg[t].node
       IN  CASE a \notin Task -> QGoto(t, "qr_ret") /\ UNCHANGED <<lk, running,
                    idle, flags, sigsWaiting, sigsRecvd, taskDelay,
                    forbidCounter, needSchedule>>
             [] "QUEUE" \in sigsWaiting[a] ->
                    Commit(SignalWake(Cur, a, {"QUEUE"})) /\ QGoto(t, "qr_wakey")
             [] OTHER -> QGoto(t, "qr_next") /\ UNCHANGED <<lk, running, idle,
                    flags, sigsWaiting, sigsRecvd, taskDelay, forbidCounter,
                    needSchedule>>
    /\ UNCHANGED <<arg, ticksInCall, freeSlots, inUse, qarg>>

\* signal(): the priority test and yield().
QRecvWakeYield(t) ==
    /\ Running(t) /\ pc[t] = "qr_wakey"
    /\ Commit(IrqExit(SignalYield(Cur, qarg[t].node)))
    /\ QGoto(t, "qr_next")
    /\ UNCHANGED <<arg, ticksInCall, freeSlots, inUse, qarg>>

\* aux = get_next(aux), from wherever aux is linked now.
QRecvNext(t) ==
    /\ Running(t) /\ pc[t] = "qr_next"
    /\ SetQArg(t, [qarg[t] EXCEPT !.node = GetNext(lk, qarg[t].node)])
    /\ QGoto(t, "qr_wake")
    /\ UNCHANGED <<kvars, arg, ticksInCall, freeSlots, inUse>>

QRecvLoop(t) ==
    /\ Running(t) /\ pc[t] = "qr_loop"
    /\ forbidCounter' = forbidCounter + 1
    /\ IF freeSlots[Q(t)] = Capacity[Q(t)]
       THEN WaitQueue(t, WaitL, "qr_loop") /\ UNCHANGED qarg
       ELSE QGoto(t, "qr_unlink") /\ SetQArg(t, [qarg[t] EXCEPT !.blk = TRUE])
                                  /\ UNCHANGED arg
    /\ UNCHANGED <<lk, running, idle, flags, sigsWaiting, sigsRecvd, taskDelay,
                   needSchedule, ticksInCall, freeSlots, inUse>>

\* permit(); return ptr.
QRecvReturn(t) ==
    /\ Running(t) /\ pc[t] = "qr_ret"
    /\ forbidCounter' = IF forbidCounter > 0 THEN forbidCounter - 1 ELSE 0
    /\ QGoto(t, qarg[t].ret)
    /\ UNCHANGED <<lk, running, idle, flags, sigsWaiting, sigsRecvd, taskDelay,
                   needSchedule, arg, ticksInCall, freeSlots, inUse, qarg>>

(***************************************************************************)
(* The keyboard interrupt: queue_send(keybd_queue, &scancode,              *)
(* QM_NONBLOCKING) run to completion inside the handler.  A full queue     *)
(* drops the key and leaves forbid_counter raised; otherwise a message is  *)
(* linked and the owner signalled when the queue was empty (the signal's   *)
(* yield only sets NEED_SCHEDULE and clears forbid_counter, the handler    *)
(* being an interrupt).                                                    *)
(***************************************************************************)
\* A key press may come at any time (KbdInForbid), or only while no task
\* holds forbid().  The interrupt ignores forbid(), and its signal() can
\* yield, which zeroes forbid_counter under the interrupted task.
KbdAllowed ==
    /\ KbdQueue \in Queue /\ forbidCounter < ForbidBound
    /\ KbdInForbid \/ forbidCounter = 0

KbdSend(k, m) ==
    LET q  == KbdQueue
        k1 == [k EXCEPT !.forbid = @ + 1]
    IN  IF freeSlots[q] = 0 THEN k1
        ELSE LET k2 == [k1 EXCEPT !.lk = AddHead(k1.lk, MsgL[q], m)]
                 k3 == IF freeSlots[q] = Capacity[q]
                       THEN Signal(k2, Owner[q], {"QUEUE"}) ELSE k2
             IN  [k3 EXCEPT !.forbid = IF @ > 0 THEN @ - 1 ELSE 0]

\* Fault variant of KbdEffect: free_slots decremented without the test of
\* free_slots > 0.
KbdEffectNoCheck(m) ==
    /\ freeSlots' = [freeSlots EXCEPT ![KbdQueue] = @ - 1]
    /\ inUse' = inUse \cup {m}

KbdEffect(m) ==
    /\ freeSlots' = [freeSlots EXCEPT ![KbdQueue] = IF @ > 0 THEN @ - 1 ELSE @]
    /\ inUse' = IF freeSlots[KbdQueue] > 0 THEN inUse \cup {m} ELSE inUse

\* Key press while a task runs: the handler, then the interrupt return.
KbdIrq ==
    /\ KbdAllowed /\ ~idle
    /\ inUse # ExtraNodes
    /\ Commit(IrqExit(KbdSend(Cur, NewMsg)))
    /\ KbdEffect(NewMsg)
    /\ UNCHANGED <<pc, arg, ticksInCall, qarg>>

\* Key press while switch_tasks() halts: the handler nested in the halting
\* interrupt (no schedule), then the halt loop re-reads the ready list.
IdleKbdIrq ==
    /\ KbdAllowed /\ idle
    /\ inUse # ExtraNodes
    /\ LET k1 == KbdSend(Cur, NewMsg)
           h  == GetHead(k1.lk, ReadyL)
       IN  Commit(IF h = NULL THEN k1 ELSE Dispatch(k1, h))
    /\ KbdEffect(NewMsg)
    /\ UNCHANGED <<pc, arg, ticksInCall, qarg>>

(***************************************************************************)
(* The whole system                                                        *)
(***************************************************************************)
QInit == /\ Init
         /\ freeSlots = Capacity
         /\ inUse = {}
         /\ qarg = [t \in Task |-> NoQArg]

\* The steps of t inside queue_send() and queue_recv().
QCallStep(t) ==
    \/ QSendAlloc(t) \/ QSendLink(t) \/ QSendLoad(t)
    \/ QSendStore(t) \/ QSendSignal(t) \/ QSendSignalYield(t) \/ QSendLoop(t)
    \/ QSendReturn(t)
    \/ QRecvUnlink(t) \/ QRecvUnlink2(t) \/ QRecvFree(t)
    \/ QRecvLoad(t) \/ QRecvStore(t) \/ QRecvWake(t) \/ QRecvWakeYield(t)
    \/ QRecvNext(t) \/ QRecvLoop(t) \/ QRecvReturn(t)

QTaskStep(t) ==
    \/ TaskStep(t) /\ UNCHANGED <<freeSlots, inUse, qarg>>
    \/ QSend(t) \/ QRecv(t) \/ QCallStep(t)

\* The timer and the tasks; the keyboard is added where a keyboard queue
\* exists.
QTasksNext == \/ (Tick \/ LockedTick \/ IdleTick) /\ UNCHANGED <<freeSlots, inUse, qarg>>
              \/ \E t \in Task : QTaskStep(t)

QNext == QTasksNext \/ KbdIrq \/ IdleKbdIrq

QSpec == QInit /\ [][QNext]_qvars

\* Fairness as in module Sched: the timer ticks, and the running task, once
\* inside wait(), signal(), queue_send() or queue_receive(), keeps
\* executing it.  The calls themselves and key presses are not fair.
QKernelStep == \E t \in Task : \/ InKernel(t) /\ UNCHANGED <<freeSlots, inUse, qarg>>
                               \/ QCallStep(t)
QKernelStepEnabled ==
    /\ ~idle /\ pc[running] \in QPC \ {"new", "user"}
    /\ pc[running] = "qs_alloc" => inUse # ExtraNodes
QFairness ==
    /\ <>[]TickEnabled => []<><<Tick /\ UNCHANGED <<freeSlots, inUse, qarg>>>>_qvars
    /\ <>[]IdleTickEnabled => []<><<IdleTick /\ UNCHANGED <<freeSlots, inUse, qarg>>>>_qvars
    /\ <>[]QKernelStepEnabled => []<><<QKernelStep>>_qvars

QFairSpec == QSpec /\ QFairness

(***************************************************************************)
(* Properties                                                              *)
(***************************************************************************)
Msgs(q) == Walk(lk, MsgL[q])

\* The types of the queue system whose tasks' locations are pcs.
QTypeOKFor(pcs) ==
    /\ lk.next \in [Node -> Node \cup {NULL}]
    /\ lk.prev \in [Node -> Node \cup {NULL}]
    /\ running \in Task /\ idle \in BOOLEAN
    /\ flags \in [Task -> SUBSET {"RUN", "READY"}]
    /\ sigsWaiting \in [Task -> SUBSET Sig]
    /\ sigsRecvd \in [Task -> SUBSET Sig]
    /\ forbidCounter \in 0..ForbidBound + 2
    /\ needSchedule \in BOOLEAN
    /\ pc \in [Task -> pcs]
    /\ \A q \in Queue : freeSlots[q] \in 0..Capacity[q]
    /\ inUse \subseteq ExtraNodes
    /\ \A t \in Task : qarg[t].q \in Queue /\ qarg[t].node \in Node \cup {NULL}

\* TaskAccounted of module Sched over the lists tasks are linked into (the
\* message lists hold messages, and are covered by SlotsAccounted).
QTaskAccounted ==
    TaskAccountedIn({ReadyL, WaitL} \cup {WaitersL[q] : q \in Queue})

QTypeOK == QTypeOKFor(QPC)

\* A task between the unlink or link of a message and the store of
\* free_slots has changed the list but not yet the count.
Updating(q) == {t \in Task : qarg[t].q = q /\ pc[t] \in
                  {"qs_link", "qs_load", "qs_store", "qr_unlink2", "qr_free",
                   "qr_load", "qr_store"}}

\* A task between the two writes of remove_tail() on q's message list.
Unlinking(q) == \E t \in Task : qarg[t].q = q /\ pc[t] = "qr_unlink2"

\* Capacity is a hard bound and free_slots counts the free slots: the
\* message list is well formed (outside remove_tail()), never longer than
\* max_slots, and whenever
\* no task is between changing the list and storing free_slots, free_slots
\* plus the number of messages is max_slots (spec.md 4.5).
SlotsAccounted ==
    \A q \in Queue :
       /\ ~Unlinking(q) => WellFormed(lk, MsgL[q])
       /\ Len(Msgs(q)) <= Capacity[q]
       /\ Updating(q) = {} => freeSlots[q] + Len(Msgs(q)) = Capacity[q]

\* t is asleep in the wait() of queue_recv()'s blocking path: switched
\* out in yield() and still linked in tasks_wait.
RecvAsleep(t) == /\ pc[t] = "w6" /\ ~OnCPU(t) /\ arg[t].ret = "qr_loop"
                 /\ t \in Members(lk, WaitL)

\* u is inside a queue_send() on q that has not yet reached the signal of
\* the owner, which it makes when it found the queue empty.
WillSignal(u, q) ==
    /\ qarg[u].q = q /\ ~qarg[u].blk
    /\ pc[u] \in {"qs_alloc", "qs_link", "qs_load", "qs_store", "qs_sig"}

\* No lost wakeup of a receiver: a task asleep in queue_recv() on a queue
\* that holds a message has a sender on its way to signal it.  Only a
\* signal of TB_QUEUE ends that wait, and only a send that finds the queue
\* empty sends one; the blocking path of queue_send() adds its message
\* without signalling (queue.c:86-89).
RecvNotStranded ==
    \A t \in Task :
       RecvAsleep(t) /\ Msgs(Q(t)) # <<>> => \E u \in Task : WillSignal(u, Q(t))

\* t is asleep in the wait() of queue_send()'s blocking path: switched
\* out in yield() and still linked in its queue's waiters.
SendAsleep(t) == /\ pc[t] = "w6" /\ ~OnCPU(t) /\ arg[t].ret = "qs_loop"
                 /\ t \in Members(lk, WaitersL[Q(t)])

\* u is inside a queue_recv() on q on the path that wakes the waiters: it
\* has taken a message on the non-blocking path and not yet left the
\* waiter loop.
WillWake(u, q) ==
    /\ qarg[u].q = q /\ ~qarg[u].blk
    /\ pc[u] \in {"qr_unlink", "qr_unlink2", "qr_free", "qr_load", "qr_store",
                 "qr_wake", "qr_wakey", "qr_next"}

\* No lost wakeup of a sender: a task asleep in queue_send() on a queue
\* with a free slot has a receiver on its way to signal it.  Only the
\* waiter loop of queue_recv()'s non-blocking path signals send-waiters,
\* when it finds the queue full; the blocking path frees its slot without
\* it (queue.c:126), and the loop goes on from get_next() of a waiter
\* signal() has moved to tasks_ready (queue.c:110).
SendNotStranded ==
    \A t \in Task :
       SendAsleep(t) /\ freeSlots[Q(t)] > 0 => \E u \in Task : WillWake(u, Q(t))

\* The queues implement the bounded FIFO queue of spec.md 4.5 (module
\* AbstractQueue), with each queue's pending messages read off its message
\* list from the head (newest) to the tail.  A send takes effect at its
\* add_head() (QSendLink, or inside keypress_isr), a receive at the first
\* write of remove_tail(), which takes the node out of the forward chain.
\* Every other step leaves the message lists' contents alone: no message is
\* lost, duplicated or reordered by an interleaving of the two tasks'
\* calls, and no send links a message into a queue already holding
\* max_slots.
AQ == INSTANCE AbstractQueue
        WITH Msg <- ExtraNodes, held <- [q \in Queue |-> Msgs(q)]
QueueRefines == AQ!ASpec
=============================================================================
