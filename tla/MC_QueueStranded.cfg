\* queue_recv()'s blocking path frees a slot without waking the senders.
\* c's wake-up by k's first send is preempted by a tick before c runs; k
\* fills iorq and sleeps on its waiters; c then takes a message through
\* the blocking path, and k sleeps with a free slot and nobody to wake it.
CONSTANTS
    NULL = NULL
    RH = RH
    RT = RT
    WH = WH
    WT = WT
    Task <- MCTask
    KernelTask = "k"
    Pri <- MCPri
    WaitMasks <- MCWaitMasks
    SignalMasks <- MCSignalMasks
    Delays = {2}
    Delayers = {}
    MaxForbid = 0
    MaxTicksInCall = 1
    ExtraLists <- MCExtraLists
    ExtraNodes <- MCMsgNode
    Queue <- MCQueue
    Owner <- MCOwner
    Capacity <- MCCapacity
    MsgL <- MCMsgL
    WaitersL <- MCWaitersL
    SendCalls <- ConsoleSends
    RecvCalls <- ConsoleRecvs
    KbdQueue = none
    ForbidBound = 2
    KbdInForbid = FALSE
INIT QInit
NEXT QNext
INVARIANT SendNotStranded
