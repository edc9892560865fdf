------------------------------ MODULE PrioList ------------------------------
(***************************************************************************)
(* The Amiga-style intrusive doubly linked lists of src/list.c, at the      *)
(* level of their pointers.                                                *)
(*                                                                         *)
(* A list_head_t {head, tail, tailPrev} is two overlapping sentinel nodes: *)
(* the head node at &list->head (its next field is list->head) and the     *)
(* tail node at &list->tail (its next field is list->tail = NULL, its prev *)
(* field is list->tailPrev).  A list l is the record [h |-> H, t |-> T] of *)
(* these two sentinels.  The links of every node are the record            *)
(*     lk = [next |-> [Node -> Node \cup {NULL}],                          *)
(*           prev |-> [Node -> Node \cup {NULL}]]                          *)
(* and every operation below returns the new lk, the writes done in the    *)
(* order of the C statements.  Because the pointers are kept, a node that  *)
(* is unlinked keeps its stale next/prev exactly as in the code, and a     *)
(* traversal that continues from a node after it moved to another list     *)
(* follows the node's new neighbours, as get_next() does.                  *)
(*                                                                         *)
(* A NULL dereference faults in the code (page 0 is unmapped); here a      *)
(* write through NULL is dropped and a read of NULL yields NULL.  No       *)
(* reachable state of the checked configurations dereferences NULL before *)
(* an invariant fails.                                                     *)
(*                                                                         *)
(* remove_head() and get_prev() are not called anywhere in src/ and are   *)
(* not modelled.                                                           *)
(***************************************************************************)
EXTENDS Integers, Sequences, FiniteSets

CONSTANT NULL

\* Reads and writes of one link field, NULL-safe.
Nx(lk, n) == IF n = NULL THEN NULL ELSE lk.next[n]
Pv(lk, n) == IF n = NULL THEN NULL ELSE lk.prev[n]
SetNext(lk, n, v) == IF n = NULL THEN lk ELSE [lk EXCEPT !.next[n] = v]
SetPrev(lk, n, v) == IF n = NULL THEN lk ELSE [lk EXCEPT !.prev[n] = v]

\* Bound on any walk: a well-formed list visits each node at most once.
Fuel(lk) == Cardinality(DOMAIN lk.next) + 1

\* new_list(): head = &tail, tail = NULL, tailPrev = &head.
NewList(lk, l) ==
    [lk EXCEPT !.next[l.h] = l.t, !.prev[l.h] = NULL,
               !.next[l.t] = NULL, !.prev[l.t] = l.h]

\* add_head(): push the node in front of the first one.
AddHead(lk, l, n) ==
    LET first == lk.next[l.h]
        a     == [lk EXCEPT !.next[n] = first, !.prev[n] = l.h]
        b     == SetPrev(a, first, n)
    IN  [b EXCEPT !.next[l.h] = n]

\* Fault variant of add_tail(): list->tailPrev is not updated.
AddTailNoTailPrev(lk, l, n) ==
    LET last == lk.prev[l.t]
        a    == [lk EXCEPT !.next[n] = l.t, !.prev[n] = last]
    IN  SetNext(a, last, n)

\* add_tail(): append the node after tailPrev.
AddTail(lk, l, n) ==
    LET last == lk.prev[l.t]
        a    == [lk EXCEPT !.next[n] = l.t, !.prev[n] = last]
        b    == SetNext(a, last, n)
    IN  [b EXCEPT !.prev[l.t] = n]

\* remove(): splice the node out through its own links, whatever list (if
\* any) they point into, in two writes: node->prev->next = node->next,
\* then node->next->prev = node->prev.  The node's own links are left stale.
UnlinkForward(lk, n)  == SetNext(lk, Pv(lk, n), Nx(lk, n))
UnlinkBackward(lk, n) == SetPrev(lk, Nx(lk, n), Pv(lk, n))
Remove(lk, n) == UnlinkBackward(UnlinkForward(lk, n), n)

\* remove_tail(): node = tailPrev, which is never NULL, so the code removes
\* it unconditionally; callers must ensure the list is not empty.
RemoveTail(lk, l) == Remove(lk, lk.prev[l.t])
TailOf(lk, l) == lk.prev[l.t]

\* get_next(): the successor, or NULL when the successor is a tail sentinel.
GetNext(lk, n) ==
    IF n # NULL /\ Nx(lk, n) # NULL /\ Nx(lk, Nx(lk, n)) # NULL
    THEN lk.next[n] ELSE NULL

\* get_head() / get_tail(): NULL when the list is empty.
GetHead(lk, l) == IF Nx(lk, lk.next[l.h]) # NULL THEN lk.next[l.h] ELSE NULL
GetTail(lk, l) == IF Nx(lk, lk.next[l.h]) # NULL THEN lk.prev[l.t] ELSE NULL

\* Fault variants of the loop of enqueue(): the comparison written >= (a
\* new node goes before its equals) and written < (ascending order).
RECURSIVE FirstLowerOrEqual(_, _, _, _, _)
FirstLowerOrEqual(lk, x, n, pri, fuel) ==
    IF x = NULL \/ fuel = 0 THEN NULL
    ELSE IF pri[n] >= pri[x] THEN x
    ELSE FirstLowerOrEqual(lk, GetNext(lk, x), n, pri, fuel - 1)

RECURSIVE FirstHigher(_, _, _, _, _)
FirstHigher(lk, x, n, pri, fuel) ==
    IF x = NULL \/ fuel = 0 THEN NULL
    ELSE IF pri[n] < pri[x] THEN x
    ELSE FirstHigher(lk, GetNext(lk, x), n, pri, fuel - 1)

\* The loop of enqueue(): the first node from x on whose priority is
\* strictly lower than n's, or NULL.
RECURSIVE FirstLower(_, _, _, _, _)
FirstLower(lk, x, n, pri, fuel) ==
    IF x = NULL \/ fuel = 0 THEN NULL
    ELSE IF pri[n] > pri[x] THEN x
    ELSE FirstLower(lk, GetNext(lk, x), n, pri, fuel - 1)

\* The insertion of enqueue(): link n immediately before x.
InsertBefore(lk, x, n) ==
    LET a == [lk EXCEPT !.next[n] = x, !.prev[n] = lk.prev[x]]
        b == SetNext(a, a.prev[x], n)
    IN  [b EXCEPT !.prev[x] = n]

\* enqueue(): priority-ordered insert, after every node of equal priority.
Enqueue(lk, l, n, pri) ==
    LET x == FirstLower(lk, GetHead(lk, l), n, pri, Fuel(lk))
    IN  IF x = NULL THEN AddTail(lk, l, n) ELSE InsertBefore(lk, x, n)

\* The nodes of a list from head to tail, as the code's get_head/get_next
\* traversal visits them.
RECURSIVE WalkFrom(_, _, _)
WalkFrom(lk, x, fuel) ==
    IF x = NULL \/ fuel = 0 THEN <<>>
    ELSE <<x>> \o WalkFrom(lk, GetNext(lk, x), fuel - 1)
Walk(lk, l) == WalkFrom(lk, GetHead(lk, l), Fuel(lk))

Members(lk, l) == {Walk(lk, l)[i] : i \in DOMAIN Walk(lk, l)}

(***************************************************************************)
(* A list is well formed when following next from its head sentinel        *)
(* reaches its tail sentinel, and every prev link is the inverse of the    *)
(* next link before it.                                                    *)
(***************************************************************************)
WellFormed(lk, l) ==
    LET w     == Walk(lk, l)
        chain == <<l.h>> \o w \o <<l.t>>
    IN  /\ Len(w) < Fuel(lk)
        /\ \A i \in 1..Len(chain) - 1 :
              /\ lk.next[chain[i]] = chain[i + 1]
              /\ lk.prev[chain[i + 1]] = chain[i]
=============================================================================
