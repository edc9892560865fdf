\* Requests above 16 bytes; the interrupt allocates only between the
\* task's calls.
CONSTANTS
    NULL = NULL
    TaskC = TaskC
    IsrC = IsrC
    PageSize = 128
    HeapPages = 4
    MemMap <- MC_MemMap
    KernelStart = 512
    KernelEnd = 640
    LowRamTop = 1024
    Word = 65536
    MaxLive = 3
    Sizes <- MC_Sizes
    IsrInCall = FALSE
SPECIFICATION HSpec
INVARIANTS HeapTypeOK FreeListOrdered Coalesced HeapTiled PagesAccounted FramesUsable
VIEW LiveView
PROPERTIES MallocReturns HeapRefines
