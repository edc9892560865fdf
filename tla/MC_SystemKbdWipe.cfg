\* A key press while the console is inside wait() on keybd_queue, after
\* sigs_waiting |= TB_QUEUE and before flags &= ~TS_READY: signal() links
\* the running console into tasks_ready, and its yield() zeroes
\* forbid_counter, so schedule() links it there a second time.
CONSTANTS
    NULL = NULL
    RH = RH
    RT = RT
    WH = WH
    WT = WT
    Task <- MCTask
    KernelTask = "k"
    Pri <- MCPri
    WaitMasks <- MCWaitMasks
    SignalMasks <- MCSignalMasks
    Delays = {2}
    Delayers = {}
    MaxForbid = 0
    MaxTicksInCall = 1
    ExtraLists <- MCExtraLists
    ExtraNodes <- MCMsgNode
    Queue <- MCQueue
    Owner <- MCOwner
    Capacity <- MCCapacity
    MsgL <- MCMsgL
    WaitersL <- MCWaitersL
    SendCalls = {}
    RecvCalls = {}
    KbdQueue = "keybd"
    ForbidBound = 3
    KbdInForbid = TRUE
    Console = "c"
    IorqQ = "iorq"
    RespQ = "resp"
    KeyLine = {"nl", "bs", "print", "ctl"}
    IoSz = 3
    BiosPos = {1542, 1765}
SPECIFICATION SFairSpec
INVARIANT QTaskAccounted
