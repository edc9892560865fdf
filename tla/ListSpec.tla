------------------------------ MODULE ListSpec ------------------------------
(***************************************************************************)
(* One list of src/list.c driven by every list operation the kernel uses,  *)
(* at pointer level (module PrioList), shown to implement the sequence     *)
(* specification AbstractList under the mapping seq <- Walk(lk, L).        *)
(* Callers of src/ never link a node that is already linked and never pop  *)
(* an empty list; the guards below are those caller obligations.           *)
(***************************************************************************)
EXTENDS PrioList

CONSTANTS Node,    \* nodes that can be linked (tasks, messages, chunks)
          Pri,     \* their priorities (list_node_t.pri)
          H, T     \* the head and tail sentinels of the list

VARIABLES lk,   \* next/prev links of every node
          call  \* the list call of the last step, with its node argument

L == [h |-> H, t |-> T]
AllNodes == Node \cup {H, T}

\* A node fresh from kmalloc()+memset(): both links NULL.
Init == /\ lk = NewList([next |-> [n \in AllNodes |-> NULL],
                         prev |-> [n \in AllNodes |-> NULL]], L)
        /\ call = <<"new_list">>

Linked(n) == n \in Members(lk, L)

DoAddHead(n) == /\ ~Linked(n)
                /\ lk' = AddHead(lk, L, n)
                /\ call' = <<"add_head", n>>

DoAddTail(n) == /\ ~Linked(n)
                /\ lk' = AddTail(lk, L, n)
                /\ call' = <<"add_tail", n>>

DoEnqueue(n) == /\ ~Linked(n)
                /\ lk' = Enqueue(lk, L, n, Pri)
                /\ call' = <<"enqueue", n>>

DoRemove(n) == /\ Linked(n)
               /\ lk' = Remove(lk, n)
               /\ call' = <<"remove", n>>

DoRemoveTail == /\ GetHead(lk, L) # NULL
                /\ lk' = RemoveTail(lk, L)
                /\ call' = <<"remove_tail">>

Next == \/ \E n \in Node : DoAddHead(n) \/ DoAddTail(n) \/ DoEnqueue(n) \/ DoRemove(n)
        \/ DoRemoveTail

Spec == Init /\ [][Next]_<<lk, call>>

(***************************************************************************)
(* Properties                                                              *)
(***************************************************************************)
TypeOK == /\ lk.next \in [AllNodes -> AllNodes \cup {NULL}]
          /\ lk.prev \in [AllNodes -> AllNodes \cup {NULL}]

\* The pointer structure stays a single well-formed chain from head to tail
\* sentinel after any sequence of add_head, add_tail, enqueue, remove and
\* remove_tail calls.
ListWellFormed == WellFormed(lk, L)

\* Every pointer-level operation of list.c does to the sequence of nodes
\* what spec.md 4.1 says the operation does (push, append, splice out, pop
\* the tail, insert before the first lower priority).
AL == INSTANCE AbstractList WITH seq <- Walk(lk, L), call <- call
ImplementsAbstractList == AL!Spec
=============================================================================
