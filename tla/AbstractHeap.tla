---------------------------- MODULE AbstractHeap ----------------------------
(***************************************************************************)
(* What the kernel heap promises its callers (kmalloc.h, spec.md section   *)
(* 9): a request for n bytes is granted a block of at least n bytes,       *)
(* 16-byte aligned, that overlaps no block still held by anyone; kfree()   *)
(* gives a held block back.  A caller inside kmalloc() has a pending       *)
(* request; an interrupt handler's kmalloc() is requested and granted in   *)
(* one step.                                                               *)
(*                                                                         *)
(* A block is the pair <<base, length>> of the byte range it covers.       *)
(***************************************************************************)
EXTENDS Integers

CONSTANTS Client,   \* who calls kmalloc()
          Limit     \* addresses are below Limit

VARIABLES owned,    \* owned[c]: the blocks c holds
          req       \* req[c]: the size c asked for, 0 when c is not in kmalloc()

avars == <<owned, req>>

\* A block of whole 16-byte units inside the address space.
IsBlock(b) == /\ b[1] % 16 = 0 /\ b[2] % 16 = 0
              /\ b[2] > 0 /\ 0 <= b[1] /\ b[1] + b[2] <= Limit

Held == UNION {owned[c] : c \in Client}

Disjoint(b, S) == \A o \in S : b[1] + b[2] <= o[1] \/ o[1] + o[2] <= b[1]

AInit == owned = [c \in Client |-> {}] /\ req = [c \in Client |-> 0]

ARequest(c, n) ==
    /\ req[c] = 0 /\ n > 0
    /\ req' = [req EXCEPT ![c] = n]
    /\ UNCHANGED owned

\* The block granted to a pending request: the one owned[c] gains.
AGrant(c) ==
    /\ req[c] > 0
    /\ \E b \in owned'[c] :
          /\ IsBlock(b)
          /\ b[2] >= req[c] /\ Disjoint(b, Held)
          /\ owned' = [owned EXCEPT ![c] = @ \cup {b}]
    /\ req' = [req EXCEPT ![c] = 0]

\* A request made and granted at once.
AAllocNow(c) ==
    /\ req[c] = 0
    /\ \E b \in owned'[c] :
          /\ IsBlock(b) /\ Disjoint(b, Held)
          /\ owned' = [owned EXCEPT ![c] = @ \cup {b}]
    /\ UNCHANGED req

AFree(c) ==
    /\ \E b \in owned[c] : owned' = [owned EXCEPT ![c] = @ \ {b}]
    /\ UNCHANGED req

ANext == \E c \in Client : \/ \E n \in 1..Limit : ARequest(c, n)
                           \/ AGrant(c) \/ AAllocNow(c) \/ AFree(c)

ASpec == AInit /\ [][ANext]_avars
=============================================================================
