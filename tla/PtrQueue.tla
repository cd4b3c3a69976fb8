------------------------------ MODULE PtrQueue ------------------------------
(***************************************************************************)
(* What the lists of LinkedLists.h promise InterthreadQueue: a queue of    *)
(* pointers that is written at either end and read at the front. Taking    *)
(* from an empty queue returns NULL.                                       *)
(***************************************************************************)
EXTENDS Integers, Sequences

CONSTANTS Items, NULL

VARIABLES
    contents,       \* the queue, the next item out first
    ret             \* what the last get() returned

Init == contents = <<>> /\ ret = NULL

Put(v) == contents' = Append(contents, v) /\ UNCHANGED ret

PutFront(v) == contents' = <<v>> \o contents /\ UNCHANGED ret

Get ==
    /\ ret' = IF contents = <<>> THEN NULL ELSE Head(contents)
    /\ contents' = IF contents = <<>> THEN contents ELSE Tail(contents)

Next == Get \/ \E v \in Items : Put(v) \/ PutFront(v)

Spec == Init /\ [][Next]_<<contents, ret>>
=============================================================================
