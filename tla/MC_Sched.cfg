CONSTANTS
    NULL = NULL
    RH = RH
    RT = RT
    WH = WH
    WT = WT
    ExtraLists = {}
    ExtraNodes = {}
    Task <- MCTask
    KernelTask = "k"
    Pri <- MCPri
    WaitMasks <- MCWaitMasks
    SignalMasks <- MCSignalMasks
    Delays = {2}
    Delayers = {"k"}
    MaxForbid = 1
    MaxTicksInCall = 1
SPECIFICATION Spec
INVARIANT TypeOK
INVARIANT TaskAccounted
INVARIANT DestroyedGone
PROPERTY DispatchHighest
PROPERTY WaitReturnsWaitedBits

PROPERTY DelayExpires
