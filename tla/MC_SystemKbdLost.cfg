\* A key press between queue_recv()'s test of an empty keybd_queue and
\* wait()'s sigs_waiting |= TB_QUEUE: the signal finds the console not
\* waiting, and the console sleeps with the key queued.
CONSTANTS
    NULL = NULL
    RH = RH
    RT = RT
    WH = WH
    WT = WT
    Task <- MCTask
    KernelTask = "k"
    Pri <- MCPri
    WaitMasks <- MCWaitMasks
    SignalMasks <- MCSignalMasks
    Delays = {2}
    Delayers = {}
    MaxForbid = 0
    MaxTicksInCall = 1
    ExtraLists <- MCExtraLists
    ExtraNodes <- MCMsgNode
    Queue <- MCQueue
    Owner <- MCOwner
    Capacity <- MCCapacity
    MsgL <- MCMsgL
    WaitersL <- MCWaitersL
    SendCalls = {}
    RecvCalls = {}
    KbdQueue = "keybd"
    ForbidBound = 3
    KbdInForbid = TRUE
    Console = "c"
    IorqQ = "iorq"
    RespQ = "resp"
    KeyLine = {"nl", "bs", "print", "ctl"}
    IoSz = 3
    BiosPos = {1542, 1765}
SPECIFICATION SFairSpec
INVARIANT RecvNotStranded
