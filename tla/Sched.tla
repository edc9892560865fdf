------------------------------- MODULE Sched --------------------------------
(***************************************************************************)
(* Tasks, the priority scheduler and dispatcher, the wait/signal           *)
(* rendezvous and the timer tick of src/task.c and src/timer.c, on one     *)
(* CPU.  The ready list and the global wait list (tasks_wait) are kept at  *)
(* pointer level with module PrioList.                                     *)
(*                                                                         *)
(* Execution model.  One task runs at a time (running, unless the CPU is   *)
(* idle in the halt loop of switch_tasks()).  Tasks run with interrupts    *)
(* enabled and call the kernel API (forbid/permit, wait, signal, delay,    *)
(* yield, create_task) as ordinary functions; each API function is split   *)
(* into the steps between which the timer interrupt can fire, and pc[t]    *)
(* records where task t is.  An interrupt handler runs to completion with  *)
(* interrupts masked.  On the return of an interrupt at nesting depth 0    *)
(* the entry trampoline (not under src/, modelled from spec.md 4.3) calls  *)
(* schedule() when NEED_SCHEDULE is set and switch_tasks() when schedule() *)
(* asks for it.  A syscall (int 0xFF, used by yield()) is such an          *)
(* interrupt; a yield() issued inside the timer handler is nested (depth   *)
(* > 0) and only sets NEED_SCHEDULE and clears forbid_counter.             *)
(*                                                                         *)
(* Signal bit masks are sets of bit names.  Heap allocation by             *)
(* create_task() is abstracted away (module KHeap models the heap).        *)
(***************************************************************************)
EXTENDS PrioList
LOCAL INSTANCE FiniteSetsExt

CONSTANTS Task,        \* task control blocks
          KernelTask,  \* kernel_task, running when init() enters user mode
          Pri,         \* ln_link.pri of each task
          WaitMasks,   \* [Task -> masks the task's code passes to wait()]
          SignalMasks, \* masks the tasks' code passes to signal()
          Delays,      \* tick counts the tasks' code passes to delay()
          Delayers,    \* tasks whose code calls delay()
          MaxForbid,   \* bound on user-level forbid() nesting
          MaxTicksInCall, \* timer ticks that can fire while the running
                          \* task goes from Wait3 to the int 0xFF of Wait5
          RH, RT,      \* sentinels of tasks_ready
          WH, WT,      \* sentinels of tasks_wait
          ExtraLists,  \* other lists of the system (queues), as [h, t] records
          ExtraNodes   \* other nodes that can be linked (messages)

Sig == {"DELAY", "QUEUE", "RESUME"}   \* TB_DELAY, TB_QUEUE, TB_RESUME

ASSUME /\ KernelTask \in Task
       /\ Pri \in [Task -> Nat]
       /\ WaitMasks \in [Task -> SUBSET (SUBSET Sig \ {{}})]
       /\ SignalMasks \subseteq SUBSET Sig \ {{}}
       /\ Delays \subseteq Nat \ {0}
       /\ Delayers \subseteq Task

ReadyL == [h |-> RH, t |-> RT]
WaitL  == [h |-> WH, t |-> WT]
AllLists == {ReadyL, WaitL} \cup ExtraLists
Node   == Task \cup ExtraNodes \cup {l.h : l \in AllLists} \cup {l.t : l \in AllLists}

VARIABLES lk,            \* next/prev links of every node
          running,       \* running_task
          idle,          \* the CPU halts in switch_tasks() for a ready task
          flags,         \* task->flags: subset of {"RUN", "READY"}
          sigsWaiting,   \* task->sigs_waiting
          sigsRecvd,     \* task->sigs_recvd
          taskDelay,     \* task->task_delay
          forbidCounter, \* forbid_counter
          needSchedule,  \* NEED_SCHEDULE bit of sched_state
          pc,            \* where each task is in the API call it makes
          arg,           \* the arguments of that call
          ticksInCall    \* ticks since the running task entered Wait4/Wait5

vars == <<lk, running, idle, flags, sigsWaiting, sigsRecvd, taskDelay,
          forbidCounter, needSchedule, pc, arg, ticksInCall>>

PC == {"new", "user", "w1", "w2", "w3", "w4", "w5", "w6", "s2", "d2", "dead"}
\* The arguments of the call a task is in: the wait mask, the target of
\* signal(), and the wait list and return point of wait().
NoArg == [mask |-> {}, to |-> KernelTask, list |-> WaitL, ret |-> "user"]

(***************************************************************************)
(* The kernel state as one record, so that a handler that calls several    *)
(* kernel functions can be written as a composition of them.               *)
(***************************************************************************)
Cur == [lk |-> lk, running |-> running, idle |-> idle, flags |-> flags,
        sw |-> sigsWaiting, sr |-> sigsRecvd, dl |-> taskDelay,
        forbid |-> forbidCounter, needs |-> needSchedule]

Commit(k) == /\ lk' = k.lk
             /\ running' = k.running
             /\ idle' = k.idle
             /\ flags' = k.flags
             /\ sigsWaiting' = k.sw
             /\ sigsRecvd' = k.sr
             /\ taskDelay' = k.dl
             /\ forbidCounter' = k.forbid
             /\ needSchedule' = k.needs

\* Fault variant of DoYield: one forbid() undone, as permit() would.
DoYieldPermit(k) == [k EXCEPT !.needs = TRUE, !.forbid = IF @ > 0 THEN @ - 1 ELSE 0]

\* _yield(): the body of the yield syscall.
DoYield(k) == [k EXCEPT !.needs = TRUE, !.forbid = 0]

\* signal() once the mask matched: forbid(); mark READY; clear the waited
\* bits given; record all given bits received; move the task from whatever
\* list its links point into to the ready list; permit().
SignalWake(k, t, m) ==
    [k EXCEPT !.flags[t] = @ \cup {"READY"},
              !.sw[t]    = @ \ m,
              !.sr[t]    = @ \cup m,
              !.lk       = Enqueue(Remove(k.lk, t), ReadyL, t, Pri)]

\* The tail of signal(): yield() when the woken task's priority is at least
\* the running task's.
SignalYield(k, t) == IF Pri[k.running] <= Pri[t] THEN DoYield(k) ELSE k

\* The whole of signal(), as called from interrupt context.
Signal(k, t, m) ==
    IF m \cap k.sw[t] # {} THEN SignalYield(SignalWake(k, t, m), t) ELSE k

\* The dispatch loop of switch_tasks() once the ready list has a head h.
Dispatch(k, h) ==
    [k EXCEPT !.lk = Remove(k.lk, h), !.running = h, !.idle = FALSE,
              !.flags[h] = @ \cup {"RUN"}]

\* switch_tasks(): clear RUN of the outgoing task, then take the head of
\* the ready list, or halt (idle) until an interrupt readies one.
SwitchTasks(k) ==
    LET k1 == [k EXCEPT !.flags[k.running] = @ \ {"RUN"}]
        h  == GetHead(k.lk, ReadyL)
    IN  IF h = NULL THEN [k1 EXCEPT !.idle = TRUE] ELSE Dispatch(k1, h)

\* Fault variant of schedule(): the running task is re-enqueued without
\* testing TS_READY.
ScheduleAlwaysEnqueue(k) ==
    IF k.forbid > 0 THEN k
    ELSE SwitchTasks([k EXCEPT !.needs = FALSE,
                               !.lk = Enqueue(k.lk, ReadyL, k.running, Pri)])

\* schedule(), and switch_tasks() when it returns NEED_TASK_SWITCH: nothing
\* under forbid(); otherwise clear NEED_SCHEDULE, re-enqueue the running
\* task if it is still READY, and dispatch.
Schedule(k) ==
    IF k.forbid > 0 THEN k
    ELSE SwitchTasks(
           [k EXCEPT !.needs = FALSE,
                     !.lk = IF "READY" \in k.flags[k.running]
                            THEN Enqueue(k.lk, ReadyL, k.running, Pri)
                            ELSE k.lk])

\* Interrupt return at depth 0 (entry trampoline, spec.md 4.3).
IrqExit(k) == IF k.needs THEN Schedule(k) ELSE k

\* Fault variant of the timer loop: the TB_DELAY test is left out, so every
\* waiting task's count is decremented.
RECURSIVE TimerWalkAnyWaiter(_, _, _)
TimerWalkAnyWaiter(k, x, fuel) ==
    IF x = NULL \/ fuel = 0 \/ x \notin Task THEN k
    ELSE LET k1 == [k EXCEPT !.dl[x] = @ - 1]
             k2 == IF k1.dl[x] = 0 THEN Signal(k1, x, {"DELAY"}) ELSE k1
         IN  TimerWalkAnyWaiter(k2, GetNext(k2.lk, x), fuel - 1)

\* The loop of timer_callback() over tasks_wait, run when wait_lock is 0: decrement the delay of
\* every task waiting for TB_DELAY, signal it when the count reaches 0,
\* and continue with get_next() of the node just handled, in whatever list
\* that node now is.
RECURSIVE TimerWalk(_, _, _)
TimerWalk(k, x, fuel) ==
    IF x = NULL \/ fuel = 0 \/ x \notin Task THEN k
    ELSE LET due == "DELAY" \in k.sw[x]
             k1  == IF due THEN [k EXCEPT !.dl[x] = @ - 1] ELSE k
             k2  == IF due /\ k1.dl[x] = 0 THEN Signal(k1, x, {"DELAY"}) ELSE k1
         IN  TimerWalk(k2, GetNext(k2.lk, x), fuel - 1)

\* Fault variant of timer_callback(): the walk is skipped, as if wait_lock
\* were never 0.
TimerCallbackNoWalk(k) == [k EXCEPT !.needs = TRUE]

\* timer_callback() with wait_lock = 0: the walk, then set NEED_SCHEDULE.
TimerCallback(k) ==
    [TimerWalk(k, GetHead(k.lk, WaitL), Fuel(k.lk)) EXCEPT !.needs = TRUE]

(***************************************************************************)
(* Initial state: init() has built the lists (new_list() on each, and on  *)
(* the queues' lists by create_queue()) and made kernel_task the running  *)
(* task with READY|RUN; the other tasks are not created yet.              *)
(***************************************************************************)
\* The links after new_list() of every list: each head sentinel points to
\* its tail sentinel and back.
EmptyLinks ==
    [next |-> [n \in Node |-> IF \E l \in AllLists : n = l.h
                              THEN (CHOOSE l \in AllLists : n = l.h).t
                              ELSE NULL],
     prev |-> [n \in Node |-> IF \E l \in AllLists : n = l.t
                              THEN (CHOOSE l \in AllLists : n = l.t).h
                              ELSE NULL]]

Init ==
    /\ lk = EmptyLinks
    /\ running = KernelTask
    /\ idle = FALSE
    /\ flags = [t \in Task |-> IF t = KernelTask THEN {"RUN", "READY"} ELSE {}]
    /\ sigsWaiting = [t \in Task |-> {}]
    /\ sigsRecvd = [t \in Task |-> {}]
    /\ taskDelay = [t \in Task |-> 0]
    /\ forbidCounter = 0
    /\ needSchedule = FALSE
    /\ pc = [t \in Task |-> IF t = KernelTask THEN "user" ELSE "new"]
    /\ arg = [t \in Task |-> NoArg]
    /\ ticksInCall = 0

(***************************************************************************)
(* Interrupts.                                                             *)
(*                                                                         *)
(* Timing.  The timer fires every 20 ms (init_timer(50)); the running task *)
(* goes from the enqueue of Wait3 to the int 0xFF of Wait5 in a few        *)
(* instructions, and cannot be switched out in between while it holds      *)
(* forbid().  MaxTicksInCall bounds the ticks that fire in that window     *)
(* (1 on real hardware); every other interleaving of ticks is free.        *)
(***************************************************************************)
InCallWindow == ~idle /\ pc[running] \in {"w4", "w5"}

\* Timer IRQ while a task runs: timer_callback(), then the interrupt return.
TickKernel == IrqExit(TimerCallback(Cur))
TickCount  == IF InCallWindow THEN ticksInCall + 1 ELSE 0
TickAllowed == ~idle /\ (InCallWindow => ticksInCall < MaxTicksInCall)

Tick == /\ TickAllowed
        /\ Commit(TickKernel)
        /\ ticksInCall' = TickCount
        /\ UNCHANGED <<pc, arg>>

\* Timer IRQ during the enqueue of Wait3, while wait_lock is 1: the walk
\* of tasks_wait is skipped, NEED_SCHEDULE is set, and the interrupt return
\* reschedules unless forbid() is still in force.
LockedTick == /\ ~idle /\ pc[running] = "w3"
              /\ Commit(IrqExit([Cur EXCEPT !.needs = TRUE]))
              /\ UNCHANGED <<pc, arg, ticksInCall>>

\* Timer IRQ while switch_tasks() halts: timer_callback() nested in the
\* interrupt that called switch_tasks() (no schedule), then the halt loop
\* re-reads the head of the ready list.
IdleKernel == LET k1 == TimerCallback(Cur)
                  h  == GetHead(k1.lk, ReadyL)
              IN  IF h = NULL THEN k1 ELSE Dispatch(k1, h)

IdleTick == /\ idle
            /\ Commit(IdleKernel)
            /\ UNCHANGED <<pc, arg, ticksInCall>>

(***************************************************************************)
(* Steps of the running task.                                              *)
(***************************************************************************)
Running(t) == /\ ~idle
              /\ running = t

Goto(t, p) == pc' = [pc EXCEPT ![t] = p]

\* create_task(): a zeroed control block, READY, enqueued by priority.
CreateTask(t, u) ==
    /\ Running(t) /\ pc[t] = "user" /\ pc[u] = "new"
    /\ lk' = Enqueue([lk EXCEPT !.next[u] = NULL, !.prev[u] = NULL], ReadyL, u, Pri)
    /\ flags' = [flags EXCEPT ![u] = {"READY"}]
    /\ sigsWaiting' = [sigsWaiting EXCEPT ![u] = {}]
    /\ sigsRecvd' = [sigsRecvd EXCEPT ![u] = {}]
    /\ taskDelay' = [taskDelay EXCEPT ![u] = 0]
    /\ Goto(u, "user")
    /\ UNCHANGED <<running, idle, forbidCounter, needSchedule, arg>>
    /\ UNCHANGED ticksInCall

\* forbid() / permit() called by task code around a critical section.
Forbid(t) ==
    /\ Running(t) /\ pc[t] = "user" /\ forbidCounter < MaxForbid
    /\ forbidCounter' = forbidCounter + 1
    /\ UNCHANGED <<lk, running, idle, flags, sigsWaiting, sigsRecvd,
                   taskDelay, needSchedule, pc, arg>>
    /\ UNCHANGED ticksInCall

Permit(t) ==
    /\ Running(t) /\ pc[t] = "user" /\ forbidCounter > 0
    /\ forbidCounter' = forbidCounter - 1
    /\ UNCHANGED <<lk, running, idle, flags, sigsWaiting, sigsRecvd,
                   taskDelay, needSchedule, pc, arg>>
    /\ UNCHANGED ticksInCall

\* yield(): the syscall, whose return reschedules.
Yield(t) ==
    /\ Running(t) /\ pc[t] = "user"
    /\ Commit(IrqExit(DoYield(Cur)))
    /\ UNCHANGED <<pc, arg>>
    /\ UNCHANGED ticksInCall

\* wait(mask, &tasks_wait) called by task code.
CallWait(t) ==
    /\ Running(t) /\ pc[t] = "user"
    /\ \E m \in WaitMasks[t] : arg' = [arg EXCEPT ![t] = [NoArg EXCEPT !.mask = m]]
    /\ Goto(t, "w1")
    /\ UNCHANGED <<lk, running, idle, flags, sigsWaiting, sigsRecvd,
                   taskDelay, forbidCounter, needSchedule>>
    /\ UNCHANGED ticksInCall

\* delay(ticks): forbid(); task_delay = ticks; permit(); then
\* wait(TB_DELAY, &tasks_wait).
CallDelay(t) ==
    /\ Running(t) /\ pc[t] = "user" /\ t \in Delayers
    /\ \E d \in Delays : taskDelay' = [taskDelay EXCEPT ![t] = d]
    /\ arg' = [arg EXCEPT ![t] = [NoArg EXCEPT !.mask = {"DELAY"}]]
    /\ Goto(t, "w1")
    /\ UNCHANGED <<lk, running, idle, flags, sigsWaiting, sigsRecvd,
                   forbidCounter, needSchedule>>
    /\ UNCHANGED ticksInCall

\* wait(), first statements: forbid(); sigs_waiting |= sigs; sigs_recvd = 0.
Wait1(t) ==
    /\ Running(t) /\ pc[t] = "w1"
    /\ forbidCounter' = forbidCounter + 1
    /\ sigsWaiting' = [sigsWaiting EXCEPT ![t] = @ \cup arg[t].mask]
    /\ sigsRecvd' = [sigsRecvd EXCEPT ![t] = {}]
    /\ Goto(t, "w2")
    /\ UNCHANGED <<lk, running, idle, flags, taskDelay, needSchedule, arg>>
    /\ UNCHANGED ticksInCall

\* Fault variant of Wait2: TS_READY is not cleared.
Wait2KeepsReady(t) ==
    /\ Running(t) /\ pc[t] = "w2"
    /\ Goto(t, "w3")
    /\ UNCHANGED <<lk, running, idle, flags, sigsWaiting, sigsRecvd, taskDelay,
                   forbidCounter, needSchedule, arg>>
    /\ UNCHANGED ticksInCall

\* wait(): flags &= ~TS_READY.
Wait2(t) ==
    /\ Running(t) /\ pc[t] = "w2"
    /\ flags' = [flags EXCEPT ![t] = @ \ {"READY"}]
    /\ Goto(t, "w3")
    /\ UNCHANGED <<lk, running, idle, sigsWaiting, sigsRecvd, taskDelay,
                   forbidCounter, needSchedule, arg>>
    /\ UNCHANGED ticksInCall

\* wait(): wait_lock++; enqueue(wait_list, running_task); wait_lock--.
Wait3(t) ==
    /\ Running(t) /\ pc[t] = "w3"
    /\ lk' = Enqueue(lk, arg[t].list, t, Pri)
    /\ ticksInCall' = 0
    /\ Goto(t, "w4")
    /\ UNCHANGED <<running, idle, flags, sigsWaiting, sigsRecvd, taskDelay,
                   forbidCounter, needSchedule, arg>>

\* wait(): permit().
Wait4(t) ==
    /\ Running(t) /\ pc[t] = "w4"
    /\ forbidCounter' = IF forbidCounter > 0 THEN forbidCounter - 1 ELSE 0
    /\ Goto(t, "w5")
    /\ UNCHANGED <<lk, running, idle, flags, sigsWaiting, sigsRecvd,
                   taskDelay, needSchedule, arg>>
    /\ UNCHANGED ticksInCall

\* wait(): yield().  The task resumes here once signalled and dispatched.
Wait5(t) ==
    /\ Running(t) /\ pc[t] = "w5"
    /\ Commit(IrqExit(DoYield(Cur)))
    /\ Goto(t, "w6")
    /\ UNCHANGED arg
    /\ UNCHANGED ticksInCall

\* wait(): return running_task->sigs_recvd to the caller.
Wait6(t) ==
    /\ Running(t) /\ pc[t] = "w6"
    /\ Goto(t, arg[t].ret)
    /\ UNCHANGED <<lk, running, idle, flags, sigsWaiting, sigsRecvd,
                   taskDelay, forbidCounter, needSchedule, arg>>
    /\ UNCHANGED ticksInCall

\* signal(u, m) called by task code; a mask that matches no waited bit
\* returns 0 and changes nothing.
CallSignal(t) ==
    /\ Running(t) /\ pc[t] = "user"
    /\ \E u \in Task, m \in SignalMasks :
          /\ pc[u] \notin {"new", "dead"}
          /\ m \cap sigsWaiting[u] # {}
          /\ Commit(SignalWake(Cur, u, m))
          /\ arg' = [arg EXCEPT ![t] = [NoArg EXCEPT !.to = u]]
    /\ Goto(t, "s2")
    /\ UNCHANGED ticksInCall

\* The tasks task t may pass to destroy_task(): another task it has
\* created.  kernel_task and its stack are static (kernel_main.c:38-39) and
\* cannot be kfree()d; a task destroying itself is a separate question
\* (README, hazard task.c:59).
DestroyTargets(t) == {u \in Task \ {t, KernelTask} : pc[u] \notin {"new", "dead"}}

\* Fault variant of DestroyTask: the block is freed without remove().
DestroyTaskNoRemove(t, u) ==
    /\ Running(t) /\ pc[t] = "user"
    /\ forbidCounter' = forbidCounter + 1
    /\ arg' = [arg EXCEPT ![t] = [NoArg EXCEPT !.to = u]]
    /\ pc' = [pc EXCEPT ![u] = "dead", ![t] = "d2"]
    /\ UNCHANGED <<lk, running, idle, flags, sigsWaiting, sigsRecvd, taskDelay,
                   needSchedule, ticksInCall>>

\* destroy_task(u), first statements: forbid(); remove(u) through u's own
\* links.  The control block is then garbage: u never runs again.
DestroyTask(t, u) ==
    /\ Running(t) /\ pc[t] = "user"
    /\ forbidCounter' = forbidCounter + 1
    /\ lk' = Remove(lk, u)
    /\ arg' = [arg EXCEPT ![t] = [NoArg EXCEPT !.to = u]]
    /\ pc' = [pc EXCEPT ![u] = "dead", ![t] = "d2"]
    /\ UNCHANGED <<running, idle, flags, sigsWaiting, sigsRecvd, taskDelay,
                   needSchedule, ticksInCall>>

\* destroy_task(): kfree() of the stack and of the block (syscalls, so the
\* timer can fire before them), permit(), and yield() when the destroyed
\* task is the running one, which then is dead.
DestroyTask2(t) ==
    /\ Running(t) /\ pc[t] = "d2"
    /\ LET k1 == [Cur EXCEPT !.forbid = IF @ > 0 THEN @ - 1 ELSE 0]
       IN  Commit(IF arg[t].to = running THEN IrqExit(DoYield(k1)) ELSE k1)
    /\ Goto(t, IF arg[t].to = t THEN "dead" ELSE "user")
    /\ UNCHANGED <<arg, ticksInCall>>

\* signal(): the priority test and yield() after permit().
Signal2(t) ==
    /\ Running(t) /\ pc[t] = "s2"
    /\ Commit(IrqExit(SignalYield(Cur, arg[t].to)))
    /\ Goto(t, "user")
    /\ UNCHANGED arg
    /\ UNCHANGED ticksInCall

\* The steps inside a kernel API call, which the CPU executes once begun.
InKernel(t) ==
    \/ Wait1(t) \/ Wait2(t) \/ Wait3(t) \/ Wait4(t) \/ Wait5(t) \/ Wait6(t)
    \/ Signal2(t) \/ DestroyTask2(t)

TaskStep(t) ==
    \/ \E u \in Task : CreateTask(t, u)
    \/ Forbid(t) \/ Permit(t) \/ Yield(t)
    \/ CallWait(t) \/ CallDelay(t) \/ CallSignal(t)
    \/ InKernel(t)

\* The scheduler's own tasks also destroy each other (module Queue's tasks
\* make only TaskStep's calls).
SchedStep(t) == TaskStep(t) \/ \E u \in DestroyTargets(t) : DestroyTask(t, u)

Next == \/ Tick \/ LockedTick \/ IdleTick
        \/ \E t \in Task : SchedStep(t)

\* The timer fires periodically whatever the tasks do: weak fairness of
\* Tick and IdleTick, WF_vars(A) written out as <>[]E => []<><<A>>_vars
\* with E the state predicate ENABLED <<A>>_vars.
TickEnabled == TickAllowed /\ (TickKernel # Cur \/ TickCount # ticksInCall)
IdleTickEnabled == idle /\ IdleKernel # Cur

\* The running task, once inside wait() or signal(), keeps executing it:
\* weak fairness of those steps (each is enabled exactly when the running
\* task is at it, and changes pc).
KernelStep == \E t \in Task : InKernel(t)
KernelStepEnabled == ~idle /\ pc[running] \in PC \ {"new", "user", "dead"}

Fairness == /\ <>[]TickEnabled => []<><<Tick>>_vars
            /\ <>[]IdleTickEnabled => []<><<IdleTick>>_vars
            /\ <>[]KernelStepEnabled => []<><<KernelStep>>_vars

Spec == Init /\ [][Next]_vars /\ Fairness

(***************************************************************************)
(* Properties                                                              *)
(***************************************************************************)
Live == {t \in Task : pc[t] \notin {"new", "dead"}}
InReady(t) == t \in Members(lk, ReadyL)
InWait(t)  == \E l \in AllLists \ {ReadyL} : t \in Members(lk, l)
InLists(t) == {l \in AllLists : t \in Members(lk, l)}
OnCPU(t)   == t = running /\ ~idle

TypeOK ==
    /\ lk.next \in [Node -> Node \cup {NULL}]
    /\ lk.prev \in [Node -> Node \cup {NULL}]
    /\ running \in Task /\ idle \in BOOLEAN
    /\ flags \in [Task -> SUBSET {"RUN", "READY"}]
    /\ sigsWaiting \in [Task -> SUBSET Sig]
    /\ sigsRecvd \in [Task -> SUBSET Sig]
    /\ taskDelay \in [Task -> 0..Max(Delays \cup {0})]
    /\ forbidCounter \in 0..MaxForbid + 1
    /\ needSchedule \in BOOLEAN
    /\ pc \in [Task -> PC]
    /\ ticksInCall \in 0..MaxTicksInCall

\* Every created task is accounted for: a task off the CPU is linked into
\* exactly one list (the ready list or a wait list), the running task is
\* not in the ready list (it links itself into a wait list in wait()); a
\* task off the CPU is READY exactly when it is in the ready list; and all
\* lists are well-formed chains.  A task dropped from every list can never be
\* dispatched again (schedule() switching away from a task that has
\* cleared TS_READY but not yet enqueued itself in wait()).
TaskAccountedIn(lists) ==
    /\ \A l \in lists : WellFormed(lk, l)
    /\ \A t \in Live :
          IF OnCPU(t) THEN ~InReady(t)
          ELSE /\ Cardinality(InLists(t)) = 1
               /\ ("READY" \in flags[t]) = InReady(t)
TaskAccounted == TaskAccountedIn(AllLists)

\* A destroyed task is gone for good: its freed control block is linked
\* into no list and never handed the CPU again, whatever ticks, signals
\* and dispatches follow destroy_task(): remove() must have unlinked it
\* from the list it was in, ready or waiting, and nothing may link it back.
DestroyedGone ==
    \A t \in Task : pc[t] = "dead" => InLists(t) = {} /\ ~OnCPU(t)

\* Whenever the CPU is handed to a task (schedule()/switch_tasks(), or the
\* halt loop), no task left in the ready list has a higher priority.
DispatchHighest ==
    [][(running' # running \/ (idle /\ ~idle')) =>
          \A u \in Members(lk', ReadyL) : Pri[u] <= Pri[running']]_vars

\* wait() returns a non-empty set of signals, all of them among the bits
\* the caller waited for in this call (spec.md 4.4 and the rendezvous
\* property of section 8).
WaitReturnsWaitedBits ==
    [][\A t \in Task :
          (pc[t] = "w6" /\ pc'[t] = "user") =>
              sigsRecvd[t] # {} /\ sigsRecvd[t] \subseteq arg[t].mask]_vars

\* A task blocked in delay() is made READY again: the timer tick keeps
\* decrementing its count until it reaches 0 and signals it.
DelayExpires ==
    \A t \in Task : ("DELAY" \in sigsWaiting[t] /\ InWait(t)) ~> ("READY" \in flags[t])
=============================================================================
