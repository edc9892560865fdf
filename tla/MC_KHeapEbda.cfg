\* The memory map as PC firmware reports it: the first usable region ends
\* at 0x9FC00, inside a page, and mm_init() frees that page.
CONSTANTS
    NULL = NULL
    TaskC = TaskC
    IsrC = IsrC
    PageSize = 128
    HeapPages = 4
    MemMap <- MC_EbdaMap
    KernelStart = 512
    KernelEnd = 640
    LowRamTop = 1024
    Word = 65536
    MaxLive = 3
    Sizes <- MC_Sizes
    IsrInCall = FALSE
INIT HInit
NEXT HNext
INVARIANT FramesUsable
