---------------------------- MODULE BoundedFifo ----------------------------
(***************************************************************************)
(* What the queues between the threads promise: items leave in the order   *)
(* in which they were accepted, each once, and at most Bound of them wait. *)
(***************************************************************************)
EXTENDS Naturals, Sequences

CONSTANTS Item,  \* what can be put in
          Bound  \* how many items can wait

VARIABLES queue,  \* the items waiting
          taken   \* the items that have left, in order

Init == queue = <<>> /\ taken = <<>>

Put == /\ Len(queue) < Bound
       /\ \E item \in Item : queue' = Append(queue, item)
       /\ UNCHANGED taken

Take == /\ queue # <<>>
        /\ queue' = Tail(queue)
        /\ taken' = Append(taken, Head(queue))

Next == Put \/ Take

Spec == Init /\ [][Next]_<<queue, taken>>
=============================================================================
