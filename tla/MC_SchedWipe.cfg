CONSTANTS
    NULL = NULL
    RH = RH
    RT = RT
    WH = WH
    WT = WT
    ExtraLists = {}
    ExtraNodes = {}
    Task <- MCTask
    KernelTask = "k"
    Pri <- MCPri
    WaitMasks <- MCWaitMasks
    SignalMasks <- MCSignalMasks
    Delays = {2}
    Delayers = {"tt"}
    MaxForbid = 1
    MaxTicksInCall = 1
SPECIFICATION Spec

INVARIANT TaskAccounted
