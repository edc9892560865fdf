---------------------------- MODULE AbstractList ----------------------------
(***************************************************************************)
(* What the priority list of spec.md section 4.1 promises, as a sequence:  *)
(* push at the head, append at the tail, pop the tail, remove any member,  *)
(* and a priority insert that places a node immediately before the first   *)
(* member of strictly lower priority (so descending order, FIFO among      *)
(* equal priorities).  A node is in the list at most once.  call records  *)
(* the operation of the last step, so that a step of one operation cannot  *)
(* pass for a step of another.                                             *)
(***************************************************************************)
EXTENDS Integers, Sequences

CONSTANTS Node, Pri

VARIABLES seq, call

InList(n) == \E i \in DOMAIN seq : seq[i] = n

PushHead(n) == /\ ~InList(n)
               /\ seq' = <<n>> \o seq
               /\ call' = <<"add_head", n>>

PushTail(n) == /\ ~InList(n)
               /\ seq' = Append(seq, n)
               /\ call' = <<"add_tail", n>>

PopTail == /\ seq # <<>>
           /\ seq' = SubSeq(seq, 1, Len(seq) - 1)
           /\ call' = <<"remove_tail">>

Drop(n) == /\ InList(n)
           /\ seq' = SelectSeq(seq, LAMBDA x : x # n)
           /\ call' = <<"remove", n>>

\* Index before which a priority insert of n goes.
InsertIndex(n) ==
    IF \E i \in DOMAIN seq : Pri[n] > Pri[seq[i]]
    THEN CHOOSE i \in DOMAIN seq : /\ Pri[n] > Pri[seq[i]]
                                   /\ \A j \in 1..i - 1 : Pri[n] <= Pri[seq[j]]
    ELSE Len(seq) + 1

PrioInsert(n) ==
    /\ ~InList(n)
    /\ seq' = SubSeq(seq, 1, InsertIndex(n) - 1) \o <<n>>
                \o SubSeq(seq, InsertIndex(n), Len(seq))
    /\ call' = <<"enqueue", n>>

Init == seq = <<>> /\ call = <<"new_list">>

Next == \/ \E n \in Node : PushHead(n) \/ PushTail(n) \/ Drop(n) \/ PrioInsert(n)
        \/ PopTail

Spec == Init /\ [][Next]_<<seq, call>>
=============================================================================
