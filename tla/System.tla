------------------------------- MODULE System -------------------------------
(***************************************************************************)
(* The kernel's own programs on the queue system of module Queue: the      *)
(* kernel task running do_io() in a loop (kernel_main.c, device.c) and the *)
(* console task serving it (console.c), with the keyboard interrupt        *)
(* feeding the console's key queue.                                        *)
(*                                                                         *)
(* The initial state is the one kernel_main() reaches at its do_io() loop: *)
(* the console task has created its two queues, registered keypress_isr   *)
(* and sleeps in queue_recv() on its empty iorq_queue; the kernel task     *)
(* runs.  kernel_main()'s delay(25) is what lets the console get there     *)
(* first: 500 ms against the few microseconds of the console's start-up.   *)
(* timer_task is left out: its delay(50) expiring in a priority-10         *)
(* signal() wipes forbid_counter under the interrupted task, the race of   *)
(* run sched_forbid_wipe (module Sched).                                   *)
(*                                                                         *)
(* do_io() creates its response queue, sends, receives and destroys it.   *)
(* After the receive the queue is empty with no waiters and all slots      *)
(* free, the state create_queue() gives a new one, so one persistent queue *)
(* RespQ stands for the successive response queues.                        *)
(*                                                                         *)
(* The two programs share two more things: the kernel's buf[32], which     *)
(* do_io() hands to the console as iorq.io_dptr and the console fills with *)
(* the line typed, and the screen cursor of monitor.c, moved by the        *)
(* kernel's kprintf() and the console's echo with no lock.  buf is a       *)
(* sequence of IoSz cells, each a character ("c") or NUL ("0"); the       *)
(* console's index i into it is line_i.                                    *)
(***************************************************************************)
EXTENDS Queue, Monitor

CONSTANTS Console,   \* the console task
          IorqQ,     \* keybd_device.iorq_queue, owned by the console
          RespQ,     \* do_io()'s response queue, owned by the kernel task
          KeyLine,   \* what kbdus[scancode] gives, told apart as the line
                     \* loop does: "nl", "bs", "print", "ctl" (0, ESC, tab)
          IoSz,      \* con_io.io_sz = sizeof(buf)
          BiosPos    \* cursor positions the boot loader may leave

VARIABLES cursor_x, cursor_y, \* monitor.c's cursor
          line_i,             \* console_device()'s i
          buf                 \* kernel_main.c's buf: [1..IoSz -> {"c", "0"}]

svars == <<cursor_x, cursor_y, line_i, buf>>
allvars == <<qvars, svars>>

ASSUME /\ Console \in Task \ {KernelTask}
       /\ {IorqQ, RespQ, KbdQueue} \subseteq Queue
       /\ Owner[IorqQ] = Console /\ Owner[KbdQueue] = Console
       /\ Owner[RespQ] = KernelTask

\* Where each task is in its program, between queue calls.
ProgPC == {"k_io", "k_wait", "c_io", "c_req", "c_key", "c_line", "c_resp"}

Cursor == [x |-> cursor_x, y |-> cursor_y]
SetCursor(cur) == cursor_x' = cur.x /\ cursor_y' = cur.y

\* strlen(): the characters before the first NUL.
StrLen(b) == CHOOSE n \in 0..Len(b) : /\ \A j \in 1..n : b[j] = "c"
                                     /\ n < Len(b) => b[n + 1] = "0"

\* "root@localhost:/ # " and "bash: %s: No such file or directory\n".
PromptLen == 19
BashLen(n) == 6 + n + 27

(***************************************************************************)
(* The programs                                                            *)
(***************************************************************************)
\* The kernel loop from do_io()'s return: if strlen(buf) != 0, kprintf()
\* of the bash line; kprintf() of the prompt; then do_io(): resp =
\* create_queue(1, 0); iorq.io_response = resp; queue_send(iorq_queue,
\* &iorq, QM_BLOCKING).
DoIoSend ==
    /\ Running(KernelTask) /\ pc[KernelTask] = "k_io"
    /\ LET n == StrLen(buf)
           replied == IF n # 0 THEN Put(PutText(Cursor, BashLen(n)), "nl")
                                ELSE Cursor
       IN  SetCursor(PutText(replied, PromptLen))
    /\ SendCall(KernelTask, IorqQ, "BLOCKING", "k_wait")
    /\ UNCHANGED <<line_i, buf>>

\* do_io() waiting for the response with QM_NONBLOCKING.
DoIoRecvNonBlocking ==
    /\ Running(KernelTask) /\ pc[KernelTask] = "k_wait"
    /\ RecvCall(KernelTask, RespQ, "NONBLOCKING", "k_io")
    /\ UNCHANGED svars

\* do_io(): queue_recv(resp, NULL, QM_BLOCKING); then destroy_queue(resp)
\* and return; kernel_main() calls do_io() again.
DoIoRecv ==
    /\ Running(KernelTask) /\ pc[KernelTask] = "k_wait"
    /\ RecvCall(KernelTask, RespQ, "BLOCKING", "k_io")
    /\ UNCHANGED svars

\* console_device(): queue_recv(iorq_queue, &iorq, QM_BLOCKING).
ConsoleRecvIorq ==
    /\ Running(Console) /\ pc[Console] = "c_io"
    /\ RecvCall(Console, IorqQ, "BLOCKING", "c_req")
    /\ UNCHANGED svars

\* A DC_READ request: i = 0; aux = iorq.io_dptr; memset(aux, 0, io_sz).
ConsoleStartLine ==
    /\ Running(Console) /\ pc[Console] = "c_req"
    /\ line_i' = 0
    /\ buf' = [j \in 1..IoSz |-> "0"]
    /\ QGoto(Console, "c_key")
    /\ UNCHANGED <<kvars, arg, ticksInCall, freeSlots, inUse, qarg, cursor_x, cursor_y>>

\* The line loop: queue_recv(keybd_queue, &scancode, QM_BLOCKING).
ConsoleRecvKey ==
    /\ Running(Console) /\ pc[Console] = "c_key"
    /\ RecvCall(Console, KbdQueue, "BLOCKING", "c_line")
    /\ UNCHANGED svars

\* The newline without the final aux[i] = '\0'.
ConsoleEnterNoTerm ==
    /\ SetCursor(Put(Cursor, "nl"))
    /\ QGoto(Console, "c_resp")
    /\ UNCHANGED <<line_i, buf>>

\* c = kbdus[scancode] is '\n': break; monitor_put('\n'); aux[i] = '\0'.
ConsoleEnter ==
    /\ SetCursor(Put(Cursor, "nl"))
    /\ buf' = [buf EXCEPT ![line_i + 1] = "0"]
    /\ QGoto(Console, "c_resp")
    /\ UNCHANGED line_i

\* A backspace with i > 0: aux[i] = '\0'; i--; monitor_put('\b').
ConsoleErase ==
    /\ buf' = [buf EXCEPT ![line_i + 1] = "0"]
    /\ line_i' = line_i - 1
    /\ SetCursor(Put(Cursor, "bs"))
    /\ QGoto(Console, "c_key")

\* A printable key: aux[i++] = c; monitor_put(c).
ConsoleStore ==
    /\ buf' = [buf EXCEPT ![line_i + 1] = "c"]
    /\ line_i' = line_i + 1
    /\ SetCursor(Put(Cursor, "print"))
    /\ QGoto(Console, "c_key")

\* continue, or a key that is not printable: back to queue_recv().
ConsoleSkip ==
    /\ QGoto(Console, "c_key")
    /\ UNCHANGED svars

\* The line loop on the key c: the newline ends it; a backspace erases
\* only with i > 0; 0, tab, and every key while i == io_sz - 1, are
\* skipped; a printable key is stored; ESC and a backspace at i == 0 are
\* not printable and do nothing.  Which key came is the user's.
ConsoleKeyLine(c) ==
    \/ c = "nl" /\ ConsoleEnter
    \/ c = "bs" /\ line_i > 0 /\ ConsoleErase
    \/ c = "print" /\ line_i # IoSz - 1 /\ ConsoleStore
    \/ /\ \/ c = "ctl"
          \/ c = "bs" /\ line_i = 0
          \/ c = "print" /\ line_i = IoSz - 1
       /\ ConsoleSkip

ConsoleKey ==
    /\ Running(Console) /\ pc[Console] = "c_line"
    /\ \E c \in KeyLine : ConsoleKeyLine(c)
    /\ UNCHANGED <<kvars, arg, ticksInCall, freeSlots, inUse, qarg>>

\* queue_send(iorq.io_response, NULL, QM_NONBLOCKING), then the next request.
ConsoleReply ==
    /\ Running(Console) /\ pc[Console] = "c_resp"
    /\ SendCall(Console, RespQ, "NONBLOCKING", "c_io")
    /\ UNCHANGED svars

ProgStep == DoIoSend \/ DoIoRecv \/ ConsoleRecvIorq \/ ConsoleStartLine
            \/ ConsoleRecvKey \/ ConsoleKey \/ ConsoleReply

(***************************************************************************)
(* The system                                                              *)
(***************************************************************************)
SInit ==
    /\ lk = Enqueue(EmptyLinks, WaitL, Console, Pri)
    /\ running = KernelTask
    /\ idle = FALSE
    /\ flags = [t \in Task |-> IF t = KernelTask THEN {"RUN", "READY"} ELSE {}]
    /\ sigsWaiting = [t \in Task |-> IF t = Console THEN {"QUEUE"} ELSE {}]
    /\ sigsRecvd = [t \in Task |-> {}]
    /\ taskDelay = [t \in Task |-> 0]
    /\ forbidCounter = 0
    /\ needSchedule = FALSE
    /\ pc = [t \in Task |-> IF t = Console THEN "w6" ELSE "k_io"]
    /\ arg = [t \in Task |-> IF t = Console
                             THEN [NoArg EXCEPT !.mask = {"QUEUE"}, !.ret = "qr_loop"]
                             ELSE NoArg]
    /\ ticksInCall = 0
    /\ freeSlots = Capacity
    /\ inUse = {}
    /\ qarg = [t \in Task |-> IF t = Console
                              THEN [NoQArg EXCEPT !.q = IorqQ, !.ret = "c_req"]
                              ELSE NoQArg]
    /\ \E pos \in BiosPos : cursor_x = MonitorInit(pos).x /\ cursor_y = MonitorInit(pos).y
    /\ line_i = 0
    /\ buf = [j \in 1..IoSz |-> "0"]

\* keypress_isr, on a running task or on the halted CPU; it does not
\* touch the screen or buf.
KeyPress == KbdIrq /\ UNCHANGED svars
IdleKeyPress == IdleKbdIrq /\ UNCHANGED svars

\* Every step the CPU takes for a task: its program, or inside a call.
SysStep == ProgStep \/ (QKernelStep /\ UNCHANGED svars)

SNext == \/ (Tick \/ LockedTick \/ IdleTick) /\ UNCHANGED <<freeSlots, inUse, qarg, svars>>
         \/ KeyPress
         \/ IdleKeyPress
         \/ SysStep

SSpec == SInit /\ [][SNext]_allvars

\* The timer ticks, and the running task keeps executing its program (it
\* never stops between calls: both loops are endless).  Key presses are
\* the user's and are not fair.
SysStepEnabled ==
    /\ ~idle
    /\ pc[running] = "qs_alloc" => inUse # ExtraNodes
SFairness ==
    /\ <>[]TickEnabled => []<><<Tick /\ UNCHANGED <<freeSlots, inUse, qarg, svars>>>>_allvars
    /\ <>[]IdleTickEnabled => []<><<IdleTick /\ UNCHANGED <<freeSlots, inUse, qarg, svars>>>>_allvars
    /\ <>[]SysStepEnabled => []<><<SysStep>>_allvars

SFairSpec == SSpec /\ SFairness

(***************************************************************************)
(* Properties                                                              *)
(***************************************************************************)
SysTypeOK == /\ QTypeOKFor(QPC \cup ProgPC)
             /\ cursor_x \in Nat /\ cursor_y \in Nat
             /\ line_i \in Int
             /\ buf \in [1..IoSz -> {"c", "0"}]

\* The console is in its line loop: in, or about to make, the
\* queue_recv() on keybd_queue, or decoding the key it returned.
InLineLoop == \/ pc[Console] \in {"c_key", "c_line"}
              \/ pc[Console] \notin ProgPC /\ qarg[Console].ret = "c_line"

\* While a line is typed, the cursor stands just after the prompt and the
\* characters kept in buf: the kernel's kprintf() of the bash line and
\* prompt, the console's echo of each kept, erased or ending key and the
\* newline that ends a line leave the screen showing exactly buf[0..i-1]
\* after "root@localhost:/ # ".  The two tasks move the cursor with no
\* lock; only the do_io() rendezvous keeps their output apart.
EchoTracksLine == InLineLoop => cursor_x = PromptLen + line_i

\* The console's index stays inside buf, so aux[i] = '\0' never writes
\* past it, and whenever do_io() has returned to the kernel, strlen(buf)
\* is the number of characters the console kept: a backspace clears
\* aux[i], not the erased aux[i-1], and only the final aux[i] = '\0'
\* cuts the erased characters off.
LineDelivered == /\ line_i \in 0..IoSz - 1
                 /\ pc[KernelTask] = "k_io" => StrLen(buf) = line_i

\* monitor_put() only ever writes a cell of rows 0..23: the cursor never
\* reaches row 24, timer_task's status line, nor leaves the screen, even
\* though monitor_init() computes its row from a byte-swapped read of the
\* VGA cursor register.
StatusRowFree == cursor_x < Cols /\ cursor_y < StatusRow

RequestTaken == Msgs(IorqQ) # <<>> ~> Msgs(IorqQ) = <<>>
\* A forbid() left behind is not kept for ever: forbid_counter returns to
\* 0.  keypress_isr's queue_send() on a full keybd_queue returns NULL
\* without permit() (queue.c:91), raising the count under whichever task
\* it interrupted; nothing but _yield()'s reset takes that count back.
ForbidReleased == forbidCounter > 0 ~> forbidCounter = 0

\* Every line the console ends is handed back: once the console has the
\* newline, the kernel task eventually returns from do_io() to its loop.
\* The reply is the only send on a queue whose owner is normally already
\* asleep in queue_recv(), so the owner signal queue_send() makes when it
\* finds the queue empty (queue.c:59) is what wakes the kernel.
LineReturned == pc[Console] = "c_resp" ~> pc[KernelTask] = "k_io"
=============================================================================
