\* Requests of 16 bytes once rounded, as queue_send() makes for every
\* message: a 16-byte request takes a whole 32-byte chunk at the top of the
\* heap, and the next growth extends the free chunk below it.
CONSTANTS
    NULL = NULL
    TaskC = TaskC
    IsrC = IsrC
    PageSize = 128
    HeapPages = 4
    MemMap <- MC_MemMap
    KernelStart = 512
    KernelEnd = 640
    LowRamTop = 1024
    Word = 65536
    MaxLive = 3
    Sizes <- MC_SmallSizes
    IsrInCall = FALSE
INIT HInit
NEXT HNext
INVARIANT HeapTiled
VIEW LiveView
