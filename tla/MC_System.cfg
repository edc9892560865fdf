\* The kernel's own programs with key presses outside forbid() sections.
CONSTANTS
    NULL = NULL
    RH = RH
    RT = RT
    WH = WH
    WT = WT
    Task <- MCTask
    KernelTask = "k"
    Pri <- MCPri
    WaitMasks <- MCWaitMasks
    SignalMasks <- MCSignalMasks
    Delays = {2}
    Delayers = {}
    MaxForbid = 0
    MaxTicksInCall = 1
    ExtraLists <- MCExtraLists
    ExtraNodes <- MCMsgNode
    Queue <- MCQueue
    Owner <- MCOwner
    Capacity <- MCCapacity
    MsgL <- MCMsgL
    WaitersL <- MCWaitersL
    SendCalls = {}
    RecvCalls = {}
    KbdQueue = "keybd"
    ForbidBound = 1
    KbdInForbid = FALSE
    Console = "c"
    IorqQ = "iorq"
    RespQ = "resp"
    KeyLine = {"nl", "bs", "print", "ctl"}
    IoSz = 3
    BiosPos = {1542, 1765}
SPECIFICATION SFairSpec
INVARIANT SysTypeOK
INVARIANT QTaskAccounted
INVARIANT SlotsAccounted
INVARIANT RecvNotStranded
 
PROPERTY RequestTaken
PROPERTY ForbidReleased
INVARIANT EchoTracksLine
INVARIANT LineDelivered
INVARIANT StatusRowFree
PROPERTY LineReturned
