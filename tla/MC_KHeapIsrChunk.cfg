\* keypress_isr allocates its message while the task is between the walk
\* of _kmalloc() and its cli: both take the chunk the walk found.
CONSTANTS
    NULL = NULL
    TaskC = TaskC
    IsrC = IsrC
    PageSize = 128
    HeapPages = 4
    MemMap <- MC_MemMap
    KernelStart = 512
    KernelEnd = 640
    LowRamTop = 1024
    Word = 65536
    MaxLive = 3
    Sizes <- MC_Sizes
    IsrInCall = TRUE
SPECIFICATION HSpec
PROPERTY HeapRefines
