------------------------------ MODULE MC_KHeap ------------------------------
(***************************************************************************)
(* The kernel heap with small pages, for TLC.                              *)
(*                                                                         *)
(* States are told apart by the contents of live memory only: the headers *)
(* of chunks that are free or handed out, the links of free chunks and of  *)
(* k_heap_start.  When every walk follows live links, as in runs where the *)
(* interrupt does not arrive inside kmalloc(), the code writes a header or *)
(* a link before it reads it again, so dead memory never decides a step.  *)
(***************************************************************************)
EXTENDS KHeap

MC_Sizes == {24, 40}

\* sizeof(queue_msg_t) = 12, the message queue_send() allocates, and a
\* larger block.
MC_SmallSizes == {12, 24}

\* A PC memory map at 1/32 scale: low RAM below the 640 KiB hole (frames
\* 0-2), the hole (frame 3), and RAM from 1 MiB (frames 4-8), where the
\* kernel image fills frame 4 and frame 8 lies above 0xF00000.
MC_MemMap == << [type |-> 1, base |-> 0,   len |-> 384],
                [type |-> 2, base |-> 384, len |-> 128],
                [type |-> 1, base |-> 512, len |-> 640] >>

\* The same map as the BIOS reports it: low RAM ends at 0x9FC00, 1 KiB
\* below the hole, where the extended BIOS data area starts.
MC_EbdaMap == << [type |-> 1, base |-> 0,   len |-> 352],
                 [type |-> 2, base |-> 352, len |-> 160],
                 [type |-> 1, base |-> 512, len |-> 640] >>

LiveView ==
    LET free  == Members(heap.lk, FL)
        held  == UNION {alloc[c] : c \in Client}
        nodes == free \cup {FL.h, FL.t}
    IN  << [x \in free \cup held |-> heap.size[x]],
           [x \in nodes |-> <<heap.lk.next[x], heap.lk.prev[x]>>],
           heap.end, heap.free, heap.count, heap.pt, heap.pde, alloc, kpc, karg >>
=============================================================================
