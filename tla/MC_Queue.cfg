CONSTANTS
    NULL = NULL
    RH = RH
    RT = RT
    WH = WH
    WT = WT
    Task <- MCTask
    KernelTask = "k"
    Pri <- MCPri
    WaitMasks <- MCWaitMasks
    SignalMasks <- MCSignalMasks
    Delays = {2}
    Delayers = {}
    MaxForbid = 0
    MaxTicksInCall = 1
    ExtraLists <- MCExtraLists
    ExtraNodes <- MCMsgNode
    Queue <- MCQueue
    Owner <- MCOwner
    Capacity <- MCCapacity
    MsgL <- MCMsgL
    WaitersL <- MCWaitersL
    SendCalls <- ConsoleSends
    RecvCalls <- ConsoleRecvs
    KbdQueue = none
    ForbidBound = 2
    KbdInForbid = FALSE
INIT QInit
NEXT QTasksNext
INVARIANT QTypeOK
INVARIANT QTaskAccounted
INVARIANT SlotsAccounted
PROPERTY QueueRefines
