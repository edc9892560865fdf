---------------------------- MODULE AbstractQueue ---------------------------
(***************************************************************************)
(* What a bounded message queue promises (spec.md 4.5): each queue holds   *)
(* the messages sent and not yet received, newest first ("sends push at    *)
(* the head, receives pop from the tail"); a send adds at the head and     *)
(* only while fewer than max_slots are held; a receive takes the oldest.   *)
(* "Strict FIFO delivery order; capacity is a hard bound, never exceeded." *)
(* Blocking, waking and the failure of the non-blocking calls are how a    *)
(* caller waits for these steps and are left to the detailed module; here  *)
(* a queue only changes by a send or a receive.                            *)
(***************************************************************************)
EXTENDS Naturals, Sequences

CONSTANTS Queue,     \* the queues
          Capacity,  \* [Queue -> Nat]: max_slots of each queue
          Msg        \* message identities

VARIABLE held        \* [Queue -> Seq(Msg)]: pending messages, newest first

\* The messages pending in some queue of h.
PendingIn(h) == UNION {{h[q][i] : i \in DOMAIN h[q]} : q \in Queue}

\* Send of m on q taking the queues from h to h1: only while fewer than
\* max_slots are held, and m is not pending anywhere already.
ASend(h, h1, q, m) == /\ Len(h[q]) < Capacity[q]
                      /\ m \notin PendingIn(h)
                      /\ h1 = [h EXCEPT ![q] = <<m>> \o @]

\* Receive on q: the oldest message leaves.
ARecv(h, h1, q) == /\ h[q] # <<>>
                   /\ h1 = [h EXCEPT ![q] = SubSeq(@, 1, Len(@) - 1)]

AInit == held = [q \in Queue |-> <<>>]

\* The queues before and after the step are named once, so that each is
\* computed once however held is defined by an instantiating module.
ANext == LET h == held
             h1 == held'
         IN  \E q \in Queue : ARecv(h, h1, q) \/ \E m \in Msg : ASend(h, h1, q, m)

ASpec == AInit /\ [][ANext]_held
=============================================================================
