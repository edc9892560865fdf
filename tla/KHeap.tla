------------------------------- MODULE KHeap --------------------------------
(***************************************************************************)
(* The kernel heap of src/kmalloc.c: an address-ordered free list of       *)
(* chunks, each a 16-byte header (list links, size, magic) followed by its *)
(* size bytes; first fit, splitting, growth by one page at the heap end,  *)
(* coalescing and shrinking on kfree().                                    *)
(*                                                                         *)
(* Addresses are byte offsets from HEAP_START.  The free list is the       *)
(* pointer-level list of module PrioList over chunk addresses, so a chunk *)
(* removed twice is spliced out through its stale links as in the code.    *)
(* PageSize stands for PAGE_SIZE (4096): every quantity of the code is a  *)
(* multiple of 16, and a page of a few headers keeps every branch (fit,    *)
(* split, no split, growth, merge, shrink) reachable with few chunks.      *)
(*                                                                         *)
(* kmalloc() and kfree() are system calls; _kfree() runs its list work     *)
(* under cli and is one step.  _kmalloc() walks the free list and reads    *)
(* k_heap_end with interrupts enabled (syscall() executes sti) and only    *)
(* then executes cli: the walk and the locked part are separate steps, and *)
(* an interrupt handler's own kmalloc() (keypress_isr -> queue_send) may   *)
(* run between them when IsrInCall holds.  Tasks never interleave inside   *)
(* the heap: the timer interrupt reschedules only at nesting depth 0, so   *)
(* one task-level client stands for all tasks.                             *)
(*                                                                         *)
(* The magic checks only panic on a header that was never written or was  *)
(* overwritten by a caller's data; callers' data writes are not modelled,  *)
(* so they are left out.  Requests are never 0 bytes in src/.              *)
(***************************************************************************)
EXTENDS Integers, FiniteSets, PrioList
LOCAL INSTANCE FiniteSetsExt

CONSTANTS PageSize,   \* PAGE_SIZE, in bytes
          HeapPages,  \* pages of virtual space above HEAP_START
          MemMap,     \* the multiboot memory map: [type, base, len] in bytes
          KernelStart,\* 0x100000, where the kernel image is loaded
          KernelEnd,  \* kernel_end, the physical end of the kernel image
          LowRamTop,  \* 0xF00000: mm_init() manages the frames below it
          Word,       \* 2^32: mm_init() reads only the low words of the map
          TaskC,      \* the task-level caller
          IsrC,       \* keypress_isr
          Sizes,      \* the request sizes, in bytes
          MaxLive,    \* bound on blocks held at once
          IsrInCall   \* may the interrupt arrive inside a task's kmalloc()?

Hdr == 16                                   \* sizeof(chunk_t)
Limit == HeapPages * PageSize
Addr == {Hdr * i : i \in 0..Limit \div Hdr - 1}
FL == [h |-> -2, t |-> -1]   \* k_heap_start, outside the heap
Client == {TaskC, IsrC}
HPage == 0..HeapPages - 1                   \* the heap's virtual pages
Frame == 0..LowRamTop \div PageSize - 1     \* the frames LowRamBitF covers
NoFrame == -1                               \* a page table entry not present

ASSUME /\ PageSize % Hdr = 0 /\ PageSize > 2 * Hdr
       /\ Sizes \subseteq 1..Limit

VARIABLES heap,    \* [lk, size, end, free, count, pt, pde]: the free list
                   \* links, every header's size field, k_heap_end, the
                   \* frames whose LowRamBitF bit is set, LowRamFreeCount,
                   \* the heap pages' page table entries and the frame of
                   \* that page table (PDE 769), NoFrame until mm_map()
                   \* creates it
          alloc,   \* alloc[c]: the chunks handed to c and not yet freed
          kpc,     \* where the task is in _kmalloc(): idle, cli, retry
          karg     \* its request, rounded size, chosen chunk and
                   \* heap_end_addr

vars == <<heap, alloc, kpc, karg>>

(***************************************************************************)
(* The helpers of kmalloc.c, as operators on the heap record               *)
(***************************************************************************)
\* Fault variant of the rounding: down instead of up.
RoundDown(n) == (n \div 16) * 16

\* alloc_sz = (alloc_sz + 0x10) & ~0xF when it is not a multiple of 16.
Round(n) == IF n % 16 # 0 THEN ((n + 16) \div 16) * 16 ELSE n

\* The walk of _kmalloc(): the first chunk whose size is at least twice
\* the request.
RECURSIVE FirstFit(_, _, _, _)
FirstFit(h, x, a, fuel) ==
    IF x = NULL \/ fuel = 0 THEN NULL
    ELSE IF h.size[x] < a * 2 THEN FirstFit(h, GetNext(h.lk, x), a, fuel - 1)
    ELSE x

\* The loop of insert_chunk(): the first chunk at or above address c.
RECURSIVE FirstNotBelow(_, _, _, _)
FirstNotBelow(lk, x, c, fuel) ==
    IF x = NULL \/ fuel = 0 THEN NULL
    ELSE IF x < c THEN FirstNotBelow(lk, GetNext(lk, x), c, fuel - 1)
    ELSE x

\* Fault variant of insert_chunk(): append without the ordering walk.
InsertChunkAtTail(lk, c) == AddTail(lk, FL, c)

\* insert_chunk(): keep the free list ordered by address.
InsertChunk(lk, c) ==
    LET x == FirstNotBelow(lk, GetHead(lk, FL), c, Fuel(lk))
    IN  IF x = NULL THEN AddTail(lk, FL, c) ELSE InsertBefore(lk, x, c)

\* Fault variant of the split: the new chunk's size leaves out its header.
CarveNoHdr(h, x, a) ==
    LET nc == x + Hdr + a
        h1 == IF a >= h.size[x] - Hdr THEN h
              ELSE [h EXCEPT !.size[nc] = h.size[x] - a,
                             !.lk = InsertChunk(h.lk, nc),
                             !.size[x] = a]
    IN  [h1 EXCEPT !.lk = Remove(h1.lk, x)]

\* The locked part of _kmalloc() on the chosen chunk x: split off the rest
\* when a header still fits behind the request, then unlink x.
Carve(h, x, a) ==
    LET nc == x + Hdr + a
        h1 == IF a >= h.size[x] - Hdr THEN h
              ELSE [h EXCEPT !.size[nc] = h.size[x] - a - Hdr,
                             !.lk = InsertChunk(h.lk, nc),
                             !.size[x] = a]
    IN  [h1 EXCEPT !.lk = Remove(h1.lk, x)]

\* The frame allocator of mm.c.  LowRamBitF is the set of frames whose bit
\* is set (free); set_page_bit() clears a bit and clr_page_bit() sets it,
\* each moving LowRamFreeCount by one whatever the bit was.
SetPageBit(h, f) == [h EXCEPT !.free = @ \ {f}, !.count = @ - 1]
ClrPageBit(h, f) == [h EXCEPT !.free = @ \cup {f}, !.count = @ + 1]

\* pa_alloc(): the lowest free frame, taken out of the bitmap.  It panics
\* when LowRamFreeCount is 0, which the guards of growth keep out.
PaAllocFrame(h) == Min(h.free)
PaAlloc(h) == SetPageBit(h, PaAllocFrame(h))

TstPageBit(h, f) == f \in h.free

\* pa_free(): set the frame's bit unless tst_page_bit() finds it set.
PaFree(h, f) == IF TstPageBit(h, f) THEN h ELSE ClrPageBit(h, f)

\* Fault variant of the page loops: j <= base + len, one page too many.
PagesOfInclusive(base, len) == {(base + k * PageSize) \div PageSize : k \in 0..len \div PageSize}

\* The frames of the len bytes from base, one per page start below
\* base + len, as the loops of mm_init() step through them.
PagesOf(base, len) == {(base + k * PageSize) \div PageSize : k \in 0..(len - 1) \div PageSize}

\* mm_init(): pa_free() every page of every usable (type 1) region up to
\* 0xF00000, then set_page_bit() the BIOS data area (frame 0) and every
\* page of the kernel image.  A region's last page is freed even when the
\* region ends inside it.  The loop runs from base_addr_low while below
\* base_addr_low + length_low, a 32-bit sum.
MmInit ==
    LET usable == {MemMap[i] : i \in {i \in DOMAIN MemMap : MemMap[i].type = 1}}
        lo(e)  == e.base % Word
        hi(e)  == ((e.base % Word) + (e.len % Word)) % Word
        freed  == UNION {PagesOf(lo(e), hi(e) - lo(e)) \cap Frame : e \in usable}
        locked == {0} \cup PagesOf(KernelStart, KernelEnd - KernelStart)
    IN  [free |-> freed \ locked, count |-> Cardinality(freed) - Cardinality(locked)]

\* mm_map(): nothing for physical address 0; otherwise, when PDE 769 is
\* not present, pa_alloc() a frame for its page table, then set the
\* page's entry, over any frame it held before.
MmMap(h, f, page) ==
    LET h1 == IF h.pde # NoFrame THEN h
              ELSE [PaAlloc(h) EXCEPT !.pde = PaAllocFrame(h),
                                      !.pt = [p \in HPage |-> NoFrame]]
    IN  IF f = 0 THEN h ELSE [h1 EXCEPT !.pt[page] = f]

\* get_physaddr(): the page's frame, or NULL (0) when its page table or
\* its entry is not present.
GetPhysaddr(h, page) ==
    IF h.pde = NoFrame \/ h.pt[page] = NoFrame THEN 0 ELSE h.pt[page]

\* Fault variant of mm_unmap(): the entry is left in place.
MmUnmapKeep(h, page) == h

\* mm_unmap(): clear the page's entry.
MmUnmap(h, page) == [h EXCEPT !.pt[page] = NoFrame]

\* pa_alloc() panics on neither call growth makes: the page's frame and,
\* the first time, its page table's.
CanMap(h) == h.count > IF h.pde = NoFrame THEN 1 ELSE 0

\* Fault variant of growth: the last chunk is not resized (line 197 lost).
GrowNoResize(h, e) ==
    LET end == h.end + PageSize
        t   == GetTail(h.lk, FL)
        h1  == [MmMap(PaAlloc(h), PaAllocFrame(h), e \div PageSize) EXCEPT !.end = end]
    IN  IF t # NULL THEN h1
        ELSE [h1 EXCEPT !.size[e] = end - e - Hdr, !.lk = AddTail(h.lk, FL, e)]

\* Heap growth: mm_map(pa_alloc(), heap_end_addr), advance k_heap_end, and
\* add the page to the last free chunk, or make it a chunk of its own.
Grow(h, e) ==
    LET end == h.end + PageSize
        t   == GetTail(h.lk, FL)
        h1  == [MmMap(PaAlloc(h), PaAllocFrame(h), e \div PageSize) EXCEPT !.end = end]
    IN  IF t # NULL THEN [h1 EXCEPT !.size[t] = @ + PageSize]
        ELSE [h1 EXCEPT !.size[e] = end - e - Hdr, !.lk = AddTail(h.lk, FL, e)]

\* One round of the shrink loop: shrink the last chunk and k_heap_end by a
\* page, then free_addr = get_physaddr(k_heap_end), mm_unmap(k_heap_end),
\* pa_free(free_addr).
ShrinkPage(h, t) ==
    LET e    == h.end - PageSize
        page == e \div PageSize
        h1   == [h EXCEPT !.size[t] = @ - PageSize, !.end = e]
    IN  PaFree(MmUnmap(h1, page), GetPhysaddr(h1, page))

\* Fault variant of the shrink loop: k_heap_end > HEAP_START tested instead
\* of the tail's size.
RECURSIVE ShrinkNoSizeTest(_, _)
ShrinkNoSizeTest(h, fuel) ==
    LET t == GetTail(h.lk, FL)
    IN  IF t = NULL \/ fuel = 0 \/ h.end = 0 THEN h
        ELSE ShrinkNoSizeTest(ShrinkPage(h, t), fuel - 1)

\* The loop closing merge_heap(): give back whole pages while the last free
\* chunk is larger than a page.
RECURSIVE Shrink(_, _)
Shrink(h, fuel) ==
    LET t == GetTail(h.lk, FL)
    IN  IF t = NULL \/ fuel = 0 \/ h.size[t] <= PageSize THEN h
        ELSE Shrink(ShrinkPage(h, t), fuel - 1)

\* Fault variant of merge_heap(): adjacency tested without the header.
RECURSIVE MergeHeapNoHdr(_, _, _)
MergeHeapNoHdr(h, aux, fuel) ==
    IF aux = NULL \/ fuel = 0 THEN h
    ELSE LET nx == GetNext(h.lk, aux)
             h2 == IF nx # NULL /\ nx = aux + h.size[aux]
                   THEN MergeHeapNoHdr([h EXCEPT !.size[aux] = @ + h.size[nx] + Hdr,
                                                 !.lk = Remove(h.lk, nx)],
                                       aux, fuel - 1)
                   ELSE MergeHeapNoHdr(h, nx, fuel - 1)
         IN  Shrink(h2, HeapPages)

\* merge_heap(aux): absorb the following chunk while it is adjacent, then
\* go on from the next one; every level of the recursion ends with Shrink.
RECURSIVE MergeHeap(_, _, _)
MergeHeap(h, aux, fuel) ==
    IF aux = NULL \/ fuel = 0 THEN h
    ELSE LET nx == GetNext(h.lk, aux)
             h2 == IF nx # NULL /\ nx = aux + h.size[aux] + Hdr
                   THEN MergeHeap([h EXCEPT !.size[aux] = @ + h.size[nx] + Hdr,
                                            !.lk = Remove(h.lk, nx)],
                                  aux, fuel - 1)
                   ELSE MergeHeap(h, nx, fuel - 1)
         IN  Shrink(h2, HeapPages)

(***************************************************************************)
(* The calls                                                               *)
(***************************************************************************)
Live == Cardinality(alloc[TaskC]) + Cardinality(alloc[IsrC])

NoKArg == [n |-> 0, a |-> 0, chunk |-> NULL, end |-> 0]

\* kheap_init(): new_list(&k_heap_start), k_heap_end = HEAP_START, after
\* mm_init(); no heap page is mapped and PDE 769 is not present.
HInit ==
    LET none == [n \in Addr \cup {FL.h, FL.t} |-> NULL]
    IN  /\ heap = [lk     |-> NewList([next |-> none, prev |-> none], FL),
                   size   |-> [x \in Addr |-> 0],
                   end    |-> 0,
                   free   |-> MmInit.free,
                   count  |-> MmInit.count,
                   pt     |-> [p \in HPage |-> NoFrame],
                   pde    |-> NoFrame]
        /\ alloc = [c \in Client |-> {}]
        /\ kpc = "idle"
        /\ karg = NoKArg

\* The start of _kmalloc(): round the size, read k_heap_end and walk the
\* free list, all with interrupts enabled.
KWalk(n) ==
    LET a == Round(n)
    IN  /\ karg' = [n |-> n, a |-> a, end |-> heap.end,
                    chunk |-> FirstFit(heap, GetHead(heap.lk, FL), a, Fuel(heap.lk))]
        /\ kpc' = "cli"
        /\ UNCHANGED <<heap, alloc>>

\* kmalloc(n) by the running task.
KMalloc(n) ==
    /\ kpc = "idle" /\ Live < MaxLive
    /\ KWalk(n)

\* The recursive _kmalloc(alloc_sz) after a growth.
KRetry ==
    /\ kpc = "retry"
    /\ KWalk(karg.n)

\* cli with a chunk found: carve it and return it.
KCarve ==
    /\ kpc = "cli" /\ karg.chunk # NULL
    /\ heap' = Carve(heap, karg.chunk, karg.a)
    /\ alloc' = [alloc EXCEPT ![TaskC] = @ \cup {karg.chunk}]
    /\ kpc' = "idle" /\ karg' = NoKArg

\* cli with no chunk found: grow the heap at heap_end_addr, sti, retry.
\* pa_alloc() panics when no frame is left; the bounds keep a frame free.
KGrow ==
    /\ kpc = "cli" /\ karg.chunk = NULL
    /\ CanMap(heap) /\ heap.end < Limit
    /\ heap' = Grow(heap, karg.end)
    /\ kpc' = "retry"
    /\ UNCHANGED <<alloc, karg>>

\* The whole of _kmalloc(), as it runs inside an interrupt handler: walk,
\* carve, or grow and start again.  [h, chunk]; chunk is NULL when the
\* growth would need a frame or address space the bounds do not give.
RECURSIVE KMallocAll(_, _, _)
KMallocAll(h, a, fuel) ==
    LET x == FirstFit(h, GetHead(h.lk, FL), a, Fuel(h.lk))
    IN  IF x # NULL THEN [h |-> Carve(h, x, a), chunk |-> x]
        ELSE IF fuel = 0 \/ ~CanMap(h) \/ h.end >= Limit
        THEN [h |-> h, chunk |-> NULL]
        ELSE KMallocAll(Grow(h, h.end), a, fuel - 1)

\* keypress_isr's queue_send() allocating its message: the interrupt
\* arrives while the task runs its own code, or, when IsrInCall, anywhere
\* in its kmalloc() with interrupts enabled.
IsrMalloc(n) ==
    /\ kpc = "idle" \/ IsrInCall
    /\ Live < MaxLive
    /\ LET r == KMallocAll(heap, Round(n), HeapPages)
       IN  /\ r.chunk # NULL
           /\ heap' = r.h
           /\ alloc' = [alloc EXCEPT ![IsrC] = @ \cup {r.chunk}]
    /\ UNCHANGED <<kpc, karg>>

\* kfree() by the running task, of its own block or of a message the
\* interrupt handler allocated: insert_chunk() and merge_heap(head) under
\* cli.
KFree(c, x) ==
    /\ kpc = "idle" /\ x \in alloc[c]
    /\ LET h1 == [heap EXCEPT !.lk = InsertChunk(@, x)]
       IN  heap' = MergeHeap(h1, GetHead(h1.lk, FL), 2 * Fuel(h1.lk))
    /\ alloc' = [alloc EXCEPT ![c] = @ \ {x}]
    /\ UNCHANGED <<kpc, karg>>

\* The steps of the task inside kmalloc().
KStep == KRetry \/ KCarve \/ KGrow

HNext == \/ \E n \in Sizes : KMalloc(n) \/ IsrMalloc(n)
         \/ KStep
         \/ \E c \in Client : \E x \in alloc[c] : KFree(c, x)

\* A system call runs to its end: no other task runs inside it.
HSpec == HInit /\ [][HNext]_vars /\ WF_vars(KStep)

(***************************************************************************)
(* Properties                                                              *)
(***************************************************************************)
FreeList == Walk(heap.lk, FL)

\* Every chunk with its holder: "free", or the client it was handed to.  A
\* chunk handed out twice, or both free and handed out, appears twice.
Chunks == {<<x, "free">> : x \in Members(heap.lk, FL)}
          \cup UNION {{<<x, c>> : x \in alloc[c]} : c \in Client}

\* The bytes of a chunk, header included.
Extent(x) == heap.size[x] + Hdr

HeapTypeOK ==
    /\ heap.end \in {PageSize * i : i \in 0..HeapPages}
    /\ heap.free \subseteq Frame /\ heap.count \in Int
    /\ heap.pt \in [HPage -> Frame \cup {NoFrame}]
    /\ heap.pde \in Frame \cup {NoFrame}
    /\ heap.size \in [Addr -> 0..Limit]
    /\ alloc \in [Client -> SUBSET Addr]
    /\ kpc \in {"idle", "cli", "retry"}
    /\ karg.chunk \in Addr \cup {NULL}

\* The free list of k_heap_start is well formed and strictly increasing by
\* address, whatever order kfree() and the splits of _kmalloc() insert
\* chunks in (spec.md: "the free list is ordered by address").
FreeListOrdered ==
    /\ WellFormed(heap.lk, FL)
    /\ \A i \in 1..Len(FreeList) - 1 : FreeList[i] < FreeList[i + 1]

\* No two chunks on the free list are adjacent in memory: merge_heap() has
\* absorbed every free neighbour and no split or growth makes one.
Coalesced ==
    \A i \in 1..Len(FreeList) - 1 :
        FreeList[i] + Extent(FreeList[i]) # FreeList[i + 1]

\* The chunks, free and handed out, tile [HEAP_START, k_heap_end): none
\* overlaps another, none reaches past the heap end, and no byte is lost.
HeapTiled ==
    /\ \A p, q \in Chunks :
          p # q => p[1] + Extent(p[1]) <= q[1] \/ q[1] + Extent(q[1]) <= p[1]
    /\ \A p \in Chunks : p[1] + Extent(p[1]) <= heap.end
    /\ MapThenSumSet(LAMBDA p : Extent(p[1]), Chunks) = heap.end

\* The frames out of LowRamBitF: those backing a heap page, and the heap's
\* page table once mm_map() has made it.
InUse == {heap.pt[p] : p \in {p \in HPage : heap.pt[p] # NoFrame}}
         \cup ({heap.pde} \ {NoFrame})

\* Exactly the pages below k_heap_end are mapped, each to a frame of its
\* own, and every frame mm_init() left free is, after any run of growth
\* and of the shrink loop's get_physaddr(), mm_unmap(), pa_free(), either
\* free or in use, never both, with LowRamFreeCount its number: each frame
\* goes back to the allocator exactly once (spec.md 9).
PagesAccounted ==
    /\ {p \in HPage : heap.pt[p] # NoFrame} = {p \in HPage : p * PageSize < heap.end}
    /\ Cardinality(InUse) = Cardinality({p \in HPage : heap.pt[p] # NoFrame})
                            + IF heap.pde = NoFrame THEN 0 ELSE 1
    /\ heap.free \cap InUse = {} /\ heap.free \cup InUse = MmInit.free
    /\ heap.count = Cardinality(heap.free)

\* pa_alloc() never hands out, and pa_free() never gives back, a frame that
\* is not wholly usable RAM by the memory map, or that holds the BIOS data
\* area or the kernel image: mm_init()'s loops over the map, the BDA lock
\* and the kernel lock together leave only such frames in LowRamBitF.
FramesUsable ==
    \A f \in heap.free \cup InUse :
        /\ f # 0 /\ f \notin PagesOf(KernelStart, KernelEnd - KernelStart)
        /\ \E i \in DOMAIN MemMap :
              /\ MemMap[i].type = 1
              /\ MemMap[i].base <= f * PageSize
              /\ (f + 1) * PageSize <= MemMap[i].base + MemMap[i].len

\* Every kmalloc() returns: the growth and retry of _kmalloc() end in a fit.
MallocReturns == kpc # "idle" ~> kpc = "idle"

\* What the callers see is the allocator of AbstractHeap: a block is the
\* bytes behind a handed-out chunk's header.
AH == INSTANCE AbstractHeap
        WITH owned <- [c \in Client |-> {<<x + Hdr, heap.size[x]>> : x \in alloc[c]}],
             req   <- [c \in Client |-> IF c = TaskC /\ kpc # "idle"
                                        THEN karg.n ELSE 0]

\* Every step of kmalloc.c is a step of the abstract allocator.
HeapRefines == AH!ASpec
=============================================================================
