---------------------------- MODULE BoundedQueue ----------------------------
(***************************************************************************)
(* What every ring buffer of the model (component::fifo and the classes    *)
(* that inherit from it) promises to the pipeline stages: a first-in       *)
(* first-out queue of at most Size elements that can be emptied at once.   *)
(***************************************************************************)
EXTENDS Naturals, Sequences

CONSTANTS Elem,   \* the packs the queue carries
          Size    \* its capacity

VARIABLE queue

Init == queue = << >>

Push(e) == /\ Len(queue) < Size
           /\ queue' = Append(queue, e)

Pop == /\ queue # << >>
       /\ queue' = Tail(queue)

Flush == queue' = << >>

Next == \/ \E e \in Elem : Push(e)
        \/ Pop
        \/ Flush

Spec == Init /\ [][Next]_queue
=============================================================================
