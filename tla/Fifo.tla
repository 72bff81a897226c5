-------------------------------- MODULE Fifo --------------------------------
(***************************************************************************)
(* component::fifo<T> (component/fifo.h): a ring buffer whose read and     *)
(* write pointers carry a stage bit that flips at every wrap, so that      *)
(* equal pointers mean "empty" when the stages agree and "full" when they  *)
(* differ.                                                                 *)
(*                                                                         *)
(* The two queues of the front end (fetch_decode_fifo, decode_rename_fifo) *)
(* run with pop_status_save set: is_full looks at a copy of the read       *)
(* pointer taken by reset_pop_status at the start of the cycle, so a slot  *)
(* freed by the consumer is not offered to the producer before the next    *)
(* cycle.  flush and reset leave the copy alone.  A cycle of the main loop *)
(* uses such a queue in a fixed order: reset_pop_status, the consumer's    *)
(* pops, then either the producer's pushes or a flush by the producer.     *)
(* `phase' follows that order; a queue without pop_status_save is used in  *)
(* any order.                                                              *)
(***************************************************************************)
EXTENDS Integers, Sequences

CONSTANTS Elem,           \* the packs the queue carries
          Size,           \* the constructor's size
          PopStatusSave   \* the flag set_pop_status_save stores

ASSUME SizeAssumption == Size \in Nat \ {0}
ASSUME SaveAssumption == PopStatusSave \in BOOLEAN

VARIABLES buffer, wptr, wstage, rptr, rstage, rptr_saved, rstage_saved, phase

vars == <<buffer, wptr, wstage, rptr, rstage, rptr_saved, rstage_saved, phase>>

Ptr == 0 .. Size - 1
Bit == {0, 1}             \* a C++ bool

-----------------------------------------------------------------------------
(* Pointer arithmetic: `p++; if(p >= size) { p = 0; stage = !stage; }'.     *)
NextPtr(p) == IF p + 1 >= Size THEN 0 ELSE p + 1
NextStage(p, s) == IF p + 1 >= Size THEN 1 - s ELSE s

is_empty == rptr = wptr /\ rstage = wstage

NeverFull == FALSE                                            \* mutant
FullOnLivePointer == rptr = wptr /\ rstage # wstage           \* mutant
is_full == IF PopStatusSave
           THEN rptr_saved = wptr /\ rstage_saved # wstage
           ELSE rptr = wptr /\ rstage # wstage

SizeWithoutFull ==                                            \* mutant
    (wptr + Size - (IF PopStatusSave THEN rptr_saved ELSE rptr)) % Size
get_size == IF is_full THEN Size
            ELSE IF PopStatusSave THEN (wptr + Size - rptr_saved) % Size
            ELSE (wptr + Size - rptr) % Size

(* The slot get_front and get_tail read.                                    *)
get_front == buffer[rptr]
get_tail == buffer[(wptr + Size - 1) % Size]

-----------------------------------------------------------------------------
Init == /\ buffer \in [Ptr -> Elem]       \* new T[size], never read first
        /\ wptr = 0 /\ wstage = 0
        /\ rptr = 0 /\ rstage = 0
        /\ rptr_saved = 0 /\ rstage_saved = 0
        /\ phase = "pop"

(* push: refused when is_full, otherwise written at wptr.                   *)
push(e) == /\ phase \in {"pop", "push"}
           /\ ~ is_full
           /\ buffer' = [buffer EXCEPT ![wptr] = e]
           /\ wptr' = NextPtr(wptr)
           /\ wstage' = NextStage(wptr, wstage)
           /\ phase' = IF PopStatusSave THEN "push" ELSE phase
           /\ UNCHANGED <<rptr, rstage, rptr_saved, rstage_saved>>

(* pop: refused when is_empty.                                              *)
pop == /\ phase = "pop"
       /\ ~ is_empty
       /\ rptr' = NextPtr(rptr)
       /\ rstage' = NextStage(rptr, rstage)
       /\ UNCHANGED <<buffer, wptr, wstage, rptr_saved, rstage_saved, phase>>

(* flush: the producer's flush ends its use of the queue in this cycle.     *)
flush == /\ phase = "pop"
         /\ wptr' = 0 /\ wstage' = 0
         /\ rptr' = 0 /\ rstage' = 0
         /\ phase' = IF PopStatusSave THEN "flushed" ELSE phase
         /\ UNCHANGED <<buffer, rptr_saved, rstage_saved>>

(* reset_pop_status, called by the main loop when a cycle starts.           *)
reset_pop_status == /\ rptr_saved' = rptr
                    /\ rstage_saved' = rstage
                    /\ phase' = "pop"
                    /\ UNCHANGED <<buffer, wptr, wstage, rptr, rstage>>

Next == \/ \E e \in Elem : push(e)
        \/ pop
        \/ flush
        \/ reset_pop_status

Spec == Init /\ [][Next]_vars

-----------------------------------------------------------------------------
(* The queue the ring stands for.                                           *)
Dist(r, rs) == IF rs = wstage THEN wptr - r ELSE Size + wptr - r
Count == Dist(rptr, rstage)
SavedCount == Dist(rptr_saved, rstage_saved)
Slot(i) == IF rptr + i - 1 >= Size THEN rptr + i - 1 - Size ELSE rptr + i - 1
Contents == [i \in 1 .. Count |-> buffer[Slot(i)]]

Abstract == INSTANCE BoundedQueue WITH queue <- Contents

(* The ring is an honest bounded FIFO queue: no push lands on a slot that   *)
(* still holds an unread element, nothing is lost, duplicated or reordered  *)
(* across the wrap of either pointer, and full and empty are never          *)
(* confused (fifo.h push, pop, is_full, is_empty).                          *)
ImplementsQueue == Abstract!Spec

(* The types of the fields; the proofs' arithmetic rests on it.             *)
TypeOK == /\ buffer \in [Ptr -> Elem]
          /\ wptr \in Ptr /\ wstage \in Bit
          /\ rptr \in Ptr /\ rstage \in Bit
          /\ rptr_saved \in Ptr /\ rstage_saved \in Bit
          /\ phase \in {"pop", "push", "flushed"}

(* The stage bits order the pointers: the write pointer is never behind the *)
(* read pointer nor more than one lap ahead of it, and until a flush the    *)
(* same holds of the saved read pointer, which never overtakes the real     *)
(* one.  This is what makes the full test on the stale copy sound.          *)
PointersOrdered ==
    /\ 0 <= Count /\ Count <= Size
    /\ (PopStatusSave /\ phase # "flushed") =>
           Count <= SavedCount /\ SavedCount <= Size

(* What the queue's readers return.  get_size counts exactly the occupied   *)
(* slots; with pop_status_save it counts the slots that were occupied when  *)
(* the cycle began or were filled since, so that get_remain_space never     *)
(* promises a slot freed in this cycle (the modulo at full and at the       *)
(* wrap).  get_front and get_tail read the oldest and the newest element.   *)
ReadsExact ==
    /\ phase # "flushed" => get_size = IF PopStatusSave THEN SavedCount ELSE Count
    /\ ~ is_empty => get_front = Contents[1] /\ get_tail = Contents[Count]
=============================================================================
