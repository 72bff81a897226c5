----------------------------- MODULE QueueProofs -----------------------------
(***************************************************************************)
(* component::fifo, for every capacity and every set of packs: the stage   *)
(* bits keep the pointers ordered, and the ring implements the bounded     *)
(* queue, with and without pop_status_save.                                *)
(*                                                                         *)
(* component::issue_queue, for every size of the ring and every issue      *)
(* width: the window test names exactly the occupied slots, and compress   *)
(* with the queued updates leaves exactly the entries that were not        *)
(* listed, in order.                                                       *)
(***************************************************************************)
EXTENDS IssueQueue, Induction, SequenceTheorems, TLAPS

(* The inductive invariant: an ordered ring of well-typed fields.  The      *)
(* typing is needed for the arithmetic, the order for push and pop to keep  *)
(* the distance of the pointers between 0 and Size.                         *)
IInv == TypeOK /\ PointersOrdered

USE DEF Bit, Ptr

(* Advancing a pointer keeps it in the ring and flips the stage at a wrap.  *)
LEMMA NextInRange ==
    ASSUME NEW p \in Ptr, NEW s \in Bit
    PROVE  NextPtr(p) \in Ptr /\ NextStage(p, s) \in Bit
  BY SizeAssumption DEF NextPtr, NextStage

(* A fresh queue satisfies the invariant.                                   *)
LEMMA InitIInv == Init => IInv
  BY SizeAssumption DEF Init, IInv, TypeOK, PointersOrdered, Count, SavedCount, Dist

(* push keeps the ring typed and its pointers at most one lap apart: with   *)
(* pop_status_save because the saved distance is below Size and bounds the  *)
(* real one.                                                                *)
LEMMA PushIInv ==
    ASSUME IInv, NEW e \in Elem, push(e)
    PROVE  IInv' /\ Count < Size /\ Count' = Count + 1
  <1>1. TypeOK'
    BY NextInRange DEF IInv, TypeOK, push
  <1>2. Count < Size
    BY SizeAssumption, SaveAssumption
    DEF IInv, TypeOK, push, PointersOrdered, Count, SavedCount, Dist, is_full
  <1>3. Count' = Count + 1
    BY <1>2, SizeAssumption
    DEF IInv, TypeOK, push, PointersOrdered, Count, Dist, NextPtr, NextStage
  <1>4. PopStatusSave => SavedCount < Size /\ SavedCount' = SavedCount + 1
    BY SizeAssumption, SaveAssumption
    DEF IInv, TypeOK, push, PointersOrdered, SavedCount, Count, Dist, is_full,
        NextPtr, NextStage
  <1>5. Count \in Int /\ SavedCount \in Int
    BY SizeAssumption DEF IInv, TypeOK, Count, SavedCount, Dist
  <1>6. PopStatusSave => Count <= SavedCount
    BY DEF IInv, PointersOrdered, push
  <1>7. PointersOrdered'
    BY <1>2, <1>3, <1>4, <1>5, <1>6, SizeAssumption, SaveAssumption
    DEF IInv, PointersOrdered
  <1>8. QED
    BY <1>1, <1>2, <1>3, <1>7 DEF IInv

(* pop shortens the queue by one and moves the read pointer away from its   *)
(* saved copy.                                                              *)
LEMMA PopIInv ==
    ASSUME IInv, pop
    PROVE  IInv' /\ Count > 0 /\ Count' = Count - 1
  <1>1. TypeOK'
    BY NextInRange DEF IInv, TypeOK, pop
  <1>2. Count > 0
    BY SizeAssumption
    DEF IInv, TypeOK, pop, PointersOrdered, Count, Dist, is_empty
  <1>3. Count' = Count - 1
    BY <1>2, SizeAssumption
    DEF IInv, TypeOK, pop, PointersOrdered, Count, Dist, NextPtr, NextStage
  <1>4. SavedCount' = SavedCount /\ phase' = phase
    BY DEF pop, SavedCount, Dist
  <1>5. Count \in Int /\ SavedCount \in Int
    BY SizeAssumption DEF IInv, TypeOK, Count, SavedCount, Dist
  <1>6. PointersOrdered'
    BY <1>2, <1>3, <1>4, <1>5, SizeAssumption, SaveAssumption
    DEF IInv, PointersOrdered
  <1>7. QED
    BY <1>1, <1>2, <1>3, <1>6 DEF IInv

(* flush empties the ring; the stale copy is not used again in this cycle.  *)
LEMMA FlushIInv ==
    ASSUME IInv, flush
    PROVE  IInv' /\ Count' = 0
  BY SizeAssumption, SaveAssumption
  DEF IInv, TypeOK, flush, PointersOrdered, Count, SavedCount, Dist

(* reset_pop_status makes the copy exact.                                   *)
LEMMA ResetIInv ==
    ASSUME IInv, reset_pop_status
    PROVE  IInv'
  BY SizeAssumption, SaveAssumption
  DEF IInv, TypeOK, reset_pop_status, PointersOrdered, Count, SavedCount, Dist

(* Every step of the queue keeps the invariant.                             *)
LEMMA NextIInv == IInv /\ [Next]_vars => IInv'
  <1> SUFFICES ASSUME IInv, [Next]_vars PROVE IInv'
    OBVIOUS
  <1>1. ASSUME NEW e \in Elem, push(e) PROVE IInv'
    BY <1>1, PushIInv
  <1>2. CASE pop
    BY <1>2, PopIInv
  <1>3. CASE flush
    BY <1>3, FlushIInv
  <1>4. CASE reset_pop_status
    BY <1>4, ResetIInv
  <1>5. CASE UNCHANGED vars
    BY <1>5 DEF vars, IInv, TypeOK, PointersOrdered, Count, SavedCount, Dist
  <1>6. QED
    BY <1>1, <1>2, <1>3, <1>4, <1>5 DEF Next

(* Type correctness and the pointer order of component::fifo, for every     *)
(* capacity: is_full, is_empty and get_size can rely on them.               *)
THEOREM RingSafe == Spec => [](TypeOK /\ PointersOrdered)
  <1>1. Init => IInv
    BY InitIInv
  <1>2. IInv /\ [Next]_vars => IInv'
    BY NextIInv
  <1>3. IInv => TypeOK /\ PointersOrdered
    BY DEF IInv
  <1>4. QED
    BY <1>1, <1>2, <1>3, PTL DEF Spec

-----------------------------------------------------------------------------
(* The modulo of get_size and get_tail removes one lap or none.             *)
LEMMA ModOneLap ==
    ASSUME NEW w \in 0 .. Size - 1, NEW r \in 0 .. Size
    PROVE  (w + Size - r) % Size = IF w < r THEN w + Size - r ELSE w - r
  <1>1. CASE w < r
    <2>1. w + Size - r \in 0 .. Size - 1
      BY <1>1, SizeAssumption
    <2>2. QED
      BY <1>1, <2>1, SizeAssumption
  <1>2. CASE w >= r
    <2>1. w - r \in 0 .. Size - 1 /\ w + Size - r = (w - r) + Size
      BY <1>2, SizeAssumption
    <2>2. ((w - r) + Size) % Size = w - r
      BY <2>1, SizeAssumption
    <2>3. QED
      BY <1>2, <2>1, <2>2
  <1>3. QED
    BY <1>1, <1>2, SizeAssumption

(* In an ordered ring the modulo of get_size only removes a whole lap.      *)
LEMMA SizeReads ==
    ASSUME IInv, phase # "flushed"
    PROVE  get_size = IF PopStatusSave THEN SavedCount ELSE Count
  <1>1. CASE PopStatusSave
    <2>1. (wptr + Size - rptr_saved) % Size =
             IF wptr < rptr_saved THEN wptr + Size - rptr_saved ELSE wptr - rptr_saved
      <3>1. wptr \in 0 .. Size - 1 /\ rptr_saved \in 0 .. Size
        BY SizeAssumption DEF IInv, TypeOK
      <3>2. QED
        BY <3>1, ModOneLap, Zenon
    <2>2. SavedCount <= Size /\ 0 <= SavedCount
      BY <1>1, SizeAssumption DEF IInv, TypeOK, PointersOrdered, Count, SavedCount, Dist
    <2>3. QED
      BY <1>1, <2>1, <2>2, SizeAssumption
      DEF IInv, TypeOK, SavedCount, Dist, get_size, is_full
  <1>2. CASE ~ PopStatusSave
    <2>1. (wptr + Size - rptr) % Size = IF wptr < rptr THEN wptr + Size - rptr ELSE wptr - rptr
      <3>1. wptr \in 0 .. Size - 1 /\ rptr \in 0 .. Size
        BY SizeAssumption DEF IInv, TypeOK
      <3>2. QED
        BY <3>1, ModOneLap, Zenon
    <2>2. QED
      BY <1>2, <2>1, SizeAssumption
      DEF IInv, TypeOK, PointersOrdered, Count, Dist, get_size, is_full
  <1>3. QED
    BY <1>1, <1>2, SaveAssumption

(* A queue that is not empty has a first and a last element, in the slots   *)
(* get_front and get_tail read.                                             *)
LEMMA EndsRead ==
    ASSUME IInv, ~ is_empty
    PROVE  get_front = Contents[1] /\ get_tail = Contents[Count]
  <1>1. Count \in 1 .. Size
    BY SizeAssumption DEF IInv, TypeOK, PointersOrdered, Count, Dist, is_empty
  <1>2. Slot(1) = rptr
    BY SizeAssumption DEF IInv, TypeOK, Slot
  <1>3. (wptr + Size - 1) % Size = IF wptr = 0 THEN Size - 1 ELSE wptr - 1
    <2>1. wptr \in 0 .. Size - 1 /\ 1 \in 0 .. Size
      BY SizeAssumption DEF IInv, TypeOK
    <2>2. (wptr + Size - 1) % Size = IF wptr < 1 THEN wptr + Size - 1 ELSE wptr - 1
      BY <2>1, ModOneLap, Zenon
    <2>3. QED
      BY <2>1, <2>2, SizeAssumption
  <1>4. Slot(Count) = IF wptr = 0 THEN Size - 1 ELSE wptr - 1
    BY <1>1, SizeAssumption DEF IInv, TypeOK, Slot, Count, Dist
  <1>5. Contents[1] = buffer[Slot(1)] /\ Contents[Count] = buffer[Slot(Count)]
    BY <1>1, SizeAssumption DEF Contents
  <1>6. QED
    BY <1>2, <1>3, <1>4, <1>5 DEF get_front, get_tail

(* What get_size, get_front and get_tail return is exact for every          *)
(* capacity, in both modes, across every wrap of the pointers.              *)
THEOREM ReadsSafe == Spec => []ReadsExact
  <1>1. IInv => ReadsExact
    BY SizeReads, EndsRead DEF ReadsExact
  <1>2. Init => IInv
    BY InitIInv
  <1>3. IInv /\ [Next]_vars => IInv'
    BY NextIInv
  <1>4. QED
    BY <1>1, <1>2, <1>3, PTL DEF Spec

-----------------------------------------------------------------------------
(* The abstract queue is a sequence of packs.                               *)
LEMMA ContentsSeq ==
    ASSUME IInv
    PROVE  Contents \in Seq(Elem) /\ Len(Contents) = Count /\ Count \in Nat
  <1>1. Count \in Nat
    BY SizeAssumption DEF IInv, TypeOK, PointersOrdered, Count, Dist
  <1>2. ASSUME NEW i \in 1 .. Count PROVE buffer[Slot(i)] \in Elem
    BY <1>1, <1>2, SizeAssumption DEF IInv, TypeOK, PointersOrdered, Slot
  <1>3. QED
    BY <1>1, <1>2 DEF Contents

(* A push appends to the abstract queue: the written slot is the one after  *)
(* the newest element and is not the slot of any element still queued.      *)
LEMMA PushRefines ==
    ASSUME IInv, NEW e \in Elem, push(e)
    PROVE  Abstract!Push(e)
  <1>1. Count < Size /\ Count' = Count + 1
    BY PushIInv
  <1>2. Contents \in Seq(Elem) /\ Len(Contents) = Count /\ Count \in Nat
    BY ContentsSeq
  <1>3. Slot(Count + 1) = wptr
    BY <1>1, <1>2, SizeAssumption
    DEF IInv, TypeOK, PointersOrdered, Slot, Count, Dist
  <1>4. ASSUME NEW i \in 1 .. Count PROVE Slot(i) # wptr /\ Slot(i) \in Ptr
    BY <1>1, <1>2, <1>4, SizeAssumption
    DEF IInv, TypeOK, PointersOrdered, Slot, Count, Dist
  <1>5. \A i : Slot(i)' = Slot(i)
    BY DEF push, Slot
  <1>6. Contents' = [i \in 1 .. Count + 1 |-> buffer'[Slot(i)]]
    BY <1>1, <1>5 DEF Contents
  <1>7. buffer' = [buffer EXCEPT ![wptr] = e] /\ buffer \in [Ptr -> Elem] /\ wptr \in Ptr
    BY DEF push, IInv, TypeOK
  <1>8. Contents' = Append(Contents, e)
    <2>1. ASSUME NEW i \in 1 .. Count + 1
          PROVE  buffer'[Slot(i)] = IF i <= Count THEN Contents[i] ELSE e
      <3>1. CASE i <= Count
        <4>1. i \in 1 .. Count
          BY <1>2, <3>1
        <4>2. Slot(i) # wptr /\ Slot(i) \in Ptr
          BY <1>4, <4>1
        <4>3. buffer'[Slot(i)] = buffer[Slot(i)]
          BY <1>7, <4>2
        <4>4. Contents[i] = buffer[Slot(i)]
          BY <4>1 DEF Contents
        <4>5. QED
          BY <3>1, <4>3, <4>4
      <3>2. CASE i = Count + 1
        BY <1>2, <1>3, <1>7, <3>2
      <3>3. QED
        BY <1>2, <3>1, <3>2
    <2>2. Contents' = [i \in 1 .. Count + 1 |-> IF i <= Count THEN Contents[i] ELSE e]
      BY <1>6, <2>1
    <2>3. Contents' \in Seq(Elem) /\ Len(Contents') = Count + 1
      <3>1. \A i \in 1 .. Count + 1 : (IF i <= Count THEN Contents[i] ELSE e) \in Elem
        BY <1>2
      <3>2. QED
        BY <1>2, <2>2, <3>1
    <2>4. /\ Append(Contents, e) \in Seq(Elem)
          /\ Len(Append(Contents, e)) = Count + 1
          /\ \A i \in 1 .. Count + 1 :
                Append(Contents, e)[i] = IF i <= Count THEN Contents[i] ELSE e
      BY <1>2, AppendProperties
    <2>5. \A i \in 1 .. Len(Contents') : Contents'[i] = Append(Contents, e)[i]
      BY <2>2, <2>3, <2>4
    <2>6. QED
      BY <2>3, <2>4, <2>5, SeqEqual
  <1>9. QED
    BY <1>1, <1>2, <1>8 DEF Abstract!Push

(* A pop removes the oldest element: the slots of the others are read from  *)
(* the same places, one position earlier.                                   *)
LEMMA PopRefines ==
    ASSUME IInv, pop
    PROVE  Abstract!Pop
  <1>1. Count > 0 /\ Count' = Count - 1
    BY PopIInv
  <1>2. Contents \in Seq(Elem) /\ Len(Contents) = Count /\ Count \in Nat
    BY ContentsSeq
  <1>3. ASSUME NEW i \in 1 .. Count - 1 PROVE Slot(i)' = Slot(i + 1)
    BY <1>1, <1>2, <1>3, SizeAssumption
    DEF IInv, TypeOK, PointersOrdered, Slot, pop, NextPtr
  <1>4. Contents' = [i \in 1 .. Count - 1 |-> buffer[Slot(i + 1)]]
    BY <1>1, <1>3 DEF Contents, pop
  <1>5. ASSUME NEW i \in 1 .. Count - 1
        PROVE  buffer[Slot(i + 1)] = Contents[i + 1]
    <2>1. i + 1 \in 1 .. Count
      BY <1>2, <1>5
    <2>2. QED
      BY <2>1 DEF Contents
  <1>6. Contents' = [i \in 1 .. Count - 1 |-> Contents[i + 1]]
    BY <1>4, <1>5
  <1>7. Contents # << >>
    BY <1>1, <1>2
  <1>8. Contents' = Tail(Contents)
    <2>1. /\ Tail(Contents) \in Seq(Elem)
          /\ Len(Tail(Contents)) = Count - 1
          /\ \A i \in 1 .. Count - 1 : Tail(Contents)[i] = Contents[i + 1]
      BY <1>2, <1>7, HeadTailProperties
    <2>2. Contents' \in Seq(Elem) /\ Len(Contents') = Count - 1
      BY <1>1, <1>2, <1>6
    <2>3. \A i \in 1 .. Len(Contents') : Contents'[i] = Tail(Contents)[i]
      BY <1>6, <2>1, <2>2
    <2>4. QED
      BY <2>1, <2>2, <2>3, SeqEqual
  <1>9. QED
    BY <1>7, <1>8 DEF Abstract!Pop

(* An empty ring is the empty queue.                                        *)
LEMMA EmptyContents ==
    ASSUME Count = 0
    PROVE  Contents = << >>
  BY DEF Contents

(* component::fifo implements the bounded queue for every capacity, with    *)
(* and without pop_status_save: elements leave in the order they came, none *)
(* is overwritten, lost or read twice, whatever wraps happen in between.    *)
THEOREM Refinement == Spec => ImplementsQueue
  <1>1. Init => Abstract!Init
    <2> SUFFICES ASSUME Init PROVE Abstract!Init
      OBVIOUS
    <2>1. Count = 0
      BY DEF Init, Count, Dist
    <2>2. QED
      BY <2>1, EmptyContents DEF Abstract!Init
  <1>2. IInv /\ [Next]_vars => [Abstract!Next]_Contents
    <2> SUFFICES ASSUME IInv, [Next]_vars PROVE [Abstract!Next]_Contents
      OBVIOUS
    <2>1. ASSUME NEW e \in Elem, push(e) PROVE Abstract!Next
      BY <2>1, PushRefines DEF Abstract!Next
    <2>2. CASE pop
      BY <2>2, PopRefines DEF Abstract!Next
    <2>3. CASE flush
      <3>1. Count' = 0
        BY <2>3, FlushIInv
      <3>2. Contents' = << >>
        BY <3>1 DEF Contents
      <3>3. QED
        BY <3>2 DEF Abstract!Next, Abstract!Flush
    <2>4. CASE reset_pop_status
      BY <2>4 DEF reset_pop_status, Contents, Count, Dist, Slot
    <2>5. CASE UNCHANGED vars
      BY <2>5 DEF vars, Contents, Count, Dist, Slot
    <2>6. QED
      BY <2>1, <2>2, <2>3, <2>4, <2>5 DEF Next
  <1>3. Spec => []IInv
    BY InitIInv, NextIInv, PTL DEF Spec
  <1>4. QED
    BY <1>1, <1>2, <1>3, PTL DEF Spec, ImplementsQueue, Abstract!Spec

-----------------------------------------------------------------------------
(* The slots of the first Size positions are different.                     *)
LEMMA SlotTyped ==
    ASSUME rptr \in Ptr, NEW k \in 1 .. Size
    PROVE  Slot(k) \in Ptr
  BY SizeAssumption DEF Slot

LEMMA SlotInjective ==
    ASSUME rptr \in Ptr, NEW j \in 1 .. Size, NEW k \in 1 .. Size, Slot(j) = Slot(k)
    PROVE  j = k
  BY SizeAssumption DEF Slot

(* The modulo of get_next_id removes one lap or none.                       *)
LEMMA NextSlot ==
    ASSUME rptr \in Ptr, NEW k \in 0 .. Size
    PROVE  (rptr + k) % Size = IF k = Size THEN rptr ELSE Slot(k + 1)
  <1>1. CASE rptr + k < Size
    <2>1. rptr + k \in 0 .. Size - 1 /\ k # Size
      BY <1>1, SizeAssumption
    <2>2. (rptr + k) % Size = rptr + k
      BY <2>1, SizeAssumption
    <2>3. QED
      BY <1>1, <2>1, <2>2, SizeAssumption DEF Slot
  <1>2. CASE rptr + k >= Size
    <2> DEFINE d == rptr + k - Size
    <2>1. d \in 0 .. Size - 1 /\ rptr + k = d + Size
      BY <1>2, SizeAssumption
    <2> HIDE DEF d
    <2>2. (d + Size) % Size = d
      BY <2>1, SizeAssumption
    <2>3. k # Size => Slot(k + 1) = d
      BY <1>2, SizeAssumption DEF Slot, d
    <2>4. k = Size => d = rptr
      BY SizeAssumption DEF d
    <2>5. QED
      BY <2>1, <2>2, <2>3, <2>4
  <1>3. QED
    BY <1>1, <1>2, SizeAssumption

(* check_id_valid holds of the slots of the first Count positions only.     *)
LEMMA WindowTest ==
    ASSUME IInv, NEW k \in 1 .. Size
    PROVE  check_id_valid(Slot(k)) <=> k <= Count
  BY SizeAssumption DEF IInv, TypeOK, PointersOrdered, Count, Dist, check_id_valid, is_empty, Slot

LEMMA EmptyRing ==
    ASSUME IInv
    PROVE  is_empty <=> Count = 0
  BY SizeAssumption DEF IInv, TypeOK, PointersOrdered, Count, Dist, is_empty

(* A loop over the queue visits the occupied slots in order.                *)
LEMMA Visits ==
    ASSUME IInv
    PROVE  WindowExact
  <1> DEFINE Stops(n) == /\ \A k \in 1 .. n - 1 : check_id_valid((rptr + k) % Size)
                         /\ n = Size \/ ~ check_id_valid((rptr + n) % Size)
  <1>1. rptr \in Ptr /\ Count \in 0 .. Size
    BY SizeAssumption DEF IInv, TypeOK, PointersOrdered, Count, Dist
  <1>2. CASE is_empty
    <2>1. Count = 0
      BY <1>2, EmptyRing
    <2>2. VisitedIds = << >>
      BY <1>2 DEF VisitedIds
    <2>3. QED
      BY <2>1, <2>2 DEF WindowExact
  <1>3. CASE ~ is_empty
    <2>1. Count \in 1 .. Size
      BY <1>1, <1>3, EmptyRing
    <2>2. ASSUME NEW k \in 1 .. Size - 1
          PROVE  check_id_valid((rptr + k) % Size) <=> k + 1 <= Count
      <3>1. (rptr + k) % Size = Slot(k + 1)
        <4>1. k \in 0 .. Size /\ k # Size
          BY SizeAssumption
        <4>2. QED
          BY <4>1, <1>1, NextSlot
      <3>2. k + 1 \in 1 .. Size
        BY SizeAssumption
      <3>3. QED
        BY <3>1, <3>2, WindowTest
    <2>3. ASSUME NEW n \in 1 .. Size PROVE Stops(n) <=> n = Count
      <3>1. \A k \in 1 .. n - 1 : k \in 1 .. Size - 1
        BY SizeAssumption
      <3>2. (\A k \in 1 .. n - 1 : check_id_valid((rptr + k) % Size)) <=> n <= Count
        <4>1. (\A k \in 1 .. n - 1 : check_id_valid((rptr + k) % Size))
                 <=> \A k \in 1 .. n - 1 : k + 1 <= Count
          BY <2>2, <3>1
        <4>2. n > 1 => n - 1 \in 1 .. n - 1
          OBVIOUS
        <4>3. (\A k \in 1 .. n - 1 : k + 1 <= Count) <=> n <= Count
          BY <4>2, <2>1, SizeAssumption
        <4>4. QED
          BY <4>1, <4>3
      <3>3. n # Size => n \in 1 .. Size - 1
        BY SizeAssumption
      <3>4. (n = Size \/ ~ check_id_valid((rptr + n) % Size)) <=> (n = Size \/ n + 1 > Count)
        BY <2>1, <2>2, <3>3, SizeAssumption
      <3>5. QED
        BY <3>2, <3>4, <2>1, SizeAssumption
    <2>4. (CHOOSE n \in 1 .. Size : Stops(n)) = Count
      <3> HIDE DEF Stops
      <3>1. QED
        BY <2>1, <2>3
    <2>5. VisitedIds = [k \in 1 .. Count |-> (rptr + k - 1) % Size]
      BY <1>3, <2>4 DEF VisitedIds
    <2>6. ASSUME NEW k \in 1 .. Count PROVE (rptr + k - 1) % Size = Slot(k)
      <3>1. k - 1 \in 0 .. Size /\ k - 1 # Size /\ rptr + k - 1 = rptr + (k - 1) /\ (k - 1) + 1 = k
        BY <1>1, SizeAssumption
      <3>2. (rptr + (k - 1)) % Size = Slot((k - 1) + 1)
        BY <1>1, <3>1, NextSlot
      <3>3. QED
        BY <3>1, <3>2
    <2>7. QED
      BY <2>5, <2>6 DEF WindowExact
  <1>4. QED
    BY <1>2, <1>3

-----------------------------------------------------------------------------
(* The loop of compress.  `list' holds the slots of the positions pos, in   *)
(* order, as the selection loop of the issue stage makes it.                *)
Acc == [buffer : [Ptr -> Elem], wptr : Ptr, wstage : Bit, found : BOOLEAN, i : Nat]
Start(buf) == [buffer |-> buf, wptr |-> rptr, wstage |-> rstage, found |-> FALSE, i |-> 1]
Listing(list, pos) ==
    /\ list = [j \in 1 .. Len(list) |-> Slot(pos[j])] /\ Len(list) \in Nat
    /\ pos \in [1 .. Len(list) -> 1 .. Count]
    /\ Increasing(pos, Len(list))

(* The recursive function that stands for the loop exists.                  *)
LEMMA LoopDefined ==
    ASSUME NEW buf, NEW list, Len(VisitedIds) \in Nat
    PROVE  CompressLoop(buf, list) =
             [n \in 0 .. Len(VisitedIds) |->
                 IF n = 0 THEN Start(buf)
                 ELSE CompressStep(CompressLoop(buf, list)[n - 1], VisitedIds[n], list)]
  <1> DEFINE N == Len(VisitedIds)
             Iterates(g, m) == g = [n \in 0 .. m |-> IF n = 0 THEN Start(buf)
                                       ELSE CompressStep(g[n - 1], VisitedIds[n], list)]
             T == {m \in Nat : \E g : Iterates(g, m)}
  <1>1. 0 \in T
    <2>1. Iterates([n \in 0 .. 0 |-> Start(buf)], 0)
      OBVIOUS
    <2>2. QED
      BY <2>1, Zenon
  <1>2. ASSUME NEW m \in Nat, m \in T PROVE m + 1 \in T
    <2>1. PICK g : Iterates(g, m)
      BY <1>2
    <2> DEFINE h == [n \in 0 .. m + 1 |-> IF n <= m THEN g[n]
                                          ELSE CompressStep(g[m], VisitedIds[m + 1], list)]
    <2>2. ASSUME NEW n \in 0 .. m + 1
          PROVE  h[n] = IF n = 0 THEN Start(buf) ELSE CompressStep(h[n - 1], VisitedIds[n], list)
      <3>1. CASE n = 0
        <4>1. g[0] = Start(buf)
          BY <2>1
        <4>2. QED
          BY <3>1, <4>1
      <3>2. CASE n # 0 /\ n <= m
        <4>1. g[n] = CompressStep(g[n - 1], VisitedIds[n], list)
          BY <2>1, <3>2
        <4>2. h[n] = g[n] /\ h[n - 1] = g[n - 1]
          BY <3>2
        <4>3. QED
          BY <3>2, <4>1, <4>2
      <3>3. CASE n = m + 1
        <4>1. h[n - 1] = g[m] /\ n # 0
          BY <3>3
        <4>2. h[n] = CompressStep(g[m], VisitedIds[m + 1], list)
          BY <3>3
        <4>3. QED
          BY <3>3, <4>1, <4>2
      <3>4. QED
        BY <3>1, <3>2, <3>3
    <2>3. Iterates(h, m + 1)
      BY <2>2
    <2>4. m + 1 \in Nat
      OBVIOUS
    <2> HIDE DEF h, Iterates
    <2>5. QED
      BY <2>3, <2>4
  <1>3. N \in T
    <2> HIDE DEF T
    <2>1. QED
      BY <1>1, <1>2, NatInductionSet
  <1>4. PICK g : Iterates(g, N)
    BY <1>3
  <1>5. CompressLoop(buf, list) = CHOOSE loop : Iterates(loop, N)
    BY DEF CompressLoop, Start
  <1> HIDE DEF Iterates
  <1>6. Iterates(CompressLoop(buf, list), N)
    BY <1>4, <1>5
  <1>7. QED
    BY <1>6 DEF Iterates

(* What one iteration does to the fields.                                   *)
LEMMA StepHole ==
    ASSUME NEW acc \in Acc, NEW id \in Ptr, NEW list, rptr \in Ptr, rstage \in Bit,
           acc.i <= Len(list), id = list[acc.i], ~ acc.found
    PROVE  /\ CompressStep(acc, id, list) \in Acc
           /\ CompressStep(acc, id, list).buffer = acc.buffer
           /\ CompressStep(acc, id, list).wptr = id
           /\ CompressStep(acc, id, list).wstage = StageOf(id)
           /\ CompressStep(acc, id, list).found
           /\ CompressStep(acc, id, list).i = acc.i + 1
  <1>1. CompressStep(acc, id, list) =
          [acc EXCEPT !.found = TRUE, !.i = @ + 1, !.wptr = id, !.wstage = StageOf(id)]
    BY DEF CompressStep
  <1> DEFINE st == StageOf(id)
  <1>2. st \in Bit
    BY DEF StageOf
  <1> HIDE DEF st
  <1>3. CompressStep(acc, id, list) =
          [buffer |-> acc.buffer, wptr |-> id, wstage |-> st, found |-> TRUE, i |-> acc.i + 1]
    BY <1>1, <1>2 DEF Acc, st
  <1>4. acc.buffer \in [Ptr -> Elem] /\ acc.i + 1 \in Nat
    BY DEF Acc
  <1>5. CompressStep(acc, id, list) \in Acc
    BY <1>2, <1>3, <1>4 DEF Acc
  <1>6. QED
    BY <1>3, <1>5 DEF st

LEMMA StepSkip ==
    ASSUME NEW acc \in Acc, NEW id \in Ptr, NEW list,
           acc.i <= Len(list), id = list[acc.i], acc.found
    PROVE  /\ CompressStep(acc, id, list) \in Acc
           /\ CompressStep(acc, id, list).buffer = acc.buffer
           /\ CompressStep(acc, id, list).wptr = acc.wptr
           /\ CompressStep(acc, id, list).wstage = acc.wstage
           /\ CompressStep(acc, id, list).found
           /\ CompressStep(acc, id, list).i = acc.i + 1
  <1>1. CompressStep(acc, id, list) = [acc EXCEPT !.i = @ + 1]
    BY DEF CompressStep
  <1>2. QED
    BY <1>1 DEF Acc

LEMMA StepMove ==
    ASSUME NEW acc \in Acc, NEW id \in Ptr, NEW list,
           ~ (acc.i <= Len(list) /\ id = list[acc.i]), acc.found
    PROVE  /\ CompressStep(acc, id, list) \in Acc
           /\ CompressStep(acc, id, list).buffer = [acc.buffer EXCEPT ![acc.wptr] = acc.buffer[id]]
           /\ CompressStep(acc, id, list).wptr = NextPtr(acc.wptr)
           /\ CompressStep(acc, id, list).wstage = NextStage(acc.wptr, acc.wstage)
           /\ CompressStep(acc, id, list).found
           /\ CompressStep(acc, id, list).i = acc.i
  <1>1. CompressStep(acc, id, list) =
          [acc EXCEPT !.buffer[acc.wptr] = acc.buffer[id],
                      !.wptr = NextPtr(@), !.wstage = NextStage(acc.wptr, @)]
    BY DEF CompressStep
  <1>2. acc.wptr \in Ptr /\ acc.wstage \in Bit /\ acc.buffer \in [Ptr -> Elem]
    BY DEF Acc
  <1>3. NextPtr(acc.wptr) \in Ptr /\ NextStage(acc.wptr, acc.wstage) \in Bit
    BY <1>2, NextInRange
  <1>4. [acc.buffer EXCEPT ![acc.wptr] = acc.buffer[id]] \in [Ptr -> Elem]
    BY <1>2
  <1>5. QED
    BY <1>1, <1>2, <1>3, <1>4 DEF Acc

LEMMA StepStay ==
    ASSUME NEW acc \in Acc, NEW id, NEW list,
           ~ (acc.i <= Len(list) /\ id = list[acc.i]), ~ acc.found
    PROVE  CompressStep(acc, id, list) = acc
  BY DEF CompressStep

-----------------------------------------------------------------------------
(* What the loop has done to the ring after n iterations: the positions     *)
(* behind n are as they were, and the first c hold, in order, the entries   *)
(* of the positions up to n that are not listed.                            *)
Gathers(at, B, buf, n, c, pos, L) ==
    /\ Increasing(at, c)
    /\ \A k \in 1 .. n : (\E m \in 1 .. c : at[m] = k) <=> (\A j \in 1 .. L : pos[j] # k)
    /\ \A m \in 1 .. c : B[Slot(m)] = buf[Slot(at[m])]
Compacted(B, buf, n, c, pos, L) ==
    /\ \A m \in n + 1 .. Count : B[Slot(m)] = buf[Slot(m)]
    /\ \E at \in [1 .. c -> 1 .. n] : Gathers(at, B, buf, n, c, pos, L)

LEMMA CompactSkip ==
    ASSUME NEW B, NEW buf, NEW n \in Nat, NEW c \in Nat, NEW pos, NEW L, Count \in Nat,
           Compacted(B, buf, n, c, pos, L), NEW j \in 1 .. L, pos[j] = n + 1
    PROVE  Compacted(B, buf, n + 1, c, pos, L)
  <1>1. PICK at \in [1 .. c -> 1 .. n] : Gathers(at, B, buf, n, c, pos, L)
    BY DEF Compacted
  <1>2. at \in [1 .. c -> 1 .. n + 1]
    OBVIOUS
  <1>3. ASSUME NEW k \in 1 .. n + 1
        PROVE  (\E m \in 1 .. c : at[m] = k) <=> (\A i \in 1 .. L : pos[i] # k)
    <2>1. CASE k = n + 1
      <3>1. \A m \in 1 .. c : at[m] # n + 1
        OBVIOUS
      <3>2. QED
        BY <2>1, <3>1
    <2>2. CASE k \in 1 .. n
      BY <1>1, <2>2 DEF Gathers
    <2>3. QED
      BY <2>1, <2>2
  <1>4. Gathers(at, B, buf, n + 1, c, pos, L)
    BY <1>1, <1>3 DEF Gathers
  <1>5. \A m \in n + 2 .. Count : B[Slot(m)] = buf[Slot(m)]
    BY DEF Compacted
  <1>6. (n + 1) + 1 = n + 2
    OBVIOUS
  <1>7. QED
    BY <1>2, <1>4, <1>5, <1>6 DEF Compacted

LEMMA CompactMove ==
    ASSUME NEW B, NEW C, NEW buf, NEW n \in Nat, NEW c \in 0 .. n, NEW pos, NEW L,
           Count \in Nat, n < Count,
           Compacted(B, buf, n, c, pos, L), \A j \in 1 .. L : pos[j] # n + 1,
           C[Slot(c + 1)] = buf[Slot(n + 1)],
           \A m \in 1 .. Count : m # c + 1 => C[Slot(m)] = B[Slot(m)]
    PROVE  Compacted(C, buf, n + 1, c + 1, pos, L)
  <1>1. PICK at \in [1 .. c -> 1 .. n] : Gathers(at, B, buf, n, c, pos, L)
    BY DEF Compacted
  <1> DEFINE to == [m \in 1 .. c + 1 |-> IF m = c + 1 THEN n + 1 ELSE at[m]]
  <1>2. /\ to \in [1 .. c + 1 -> 1 .. n + 1]
        /\ to[c + 1] = n + 1
        /\ \A m \in 1 .. c : to[m] = at[m] /\ to[m] \in 1 .. n
    OBVIOUS
  <1> HIDE DEF to
  <1>3. Increasing(to, c + 1)
    <2> SUFFICES ASSUME NEW i \in 1 .. c + 1, NEW j \in 1 .. c + 1, i < j PROVE to[i] < to[j]
      BY DEF Increasing
    <2>1. CASE j = c + 1
      BY <1>2, <2>1
    <2>2. CASE j # c + 1
      <3>1. i \in 1 .. c /\ j \in 1 .. c
        BY <2>2
      <3>2. QED
        BY <3>1, <1>1, <1>2 DEF Gathers, Increasing
    <2>3. QED
      BY <2>1, <2>2
  <1>4. ASSUME NEW k \in 1 .. n + 1
        PROVE  (\E m \in 1 .. c + 1 : to[m] = k) <=> (\A i \in 1 .. L : pos[i] # k)
    <2>1. CASE k = n + 1
      BY <1>2, <2>1
    <2>2. CASE k # n + 1
      <3>1. k \in 1 .. n
        BY <2>2
      <3>2. (\E m \in 1 .. c + 1 : to[m] = k) <=> (\E m \in 1 .. c : at[m] = k)
        BY <1>2, <2>2
      <3>3. QED
        BY <3>1, <3>2, <1>1 DEF Gathers
    <2>3. QED
      BY <2>1, <2>2
  <1>5. ASSUME NEW m \in 1 .. c + 1 PROVE C[Slot(m)] = buf[Slot(to[m])]
    <2>1. CASE m = c + 1
      BY <1>2, <2>1
    <2>2. CASE m # c + 1
      <3>1. m \in 1 .. c /\ m \in 1 .. Count
        BY <2>2
      <3>2. C[Slot(m)] = B[Slot(m)]
        BY <3>1, <2>2
      <3>3. B[Slot(m)] = buf[Slot(at[m])]
        BY <3>1, <1>1 DEF Gathers
      <3>4. QED
        BY <3>1, <3>2, <3>3, <1>2
    <2>3. QED
      BY <2>1, <2>2
  <1>6. Gathers(to, C, buf, n + 1, c + 1, pos, L)
    BY <1>3, <1>4, <1>5 DEF Gathers
  <1>7. ASSUME NEW m \in n + 2 .. Count PROVE C[Slot(m)] = buf[Slot(m)]
    <2>1. m \in 1 .. Count /\ m # c + 1 /\ m \in n + 1 .. Count
      OBVIOUS
    <2>2. QED
      BY <2>1 DEF Compacted
  <1>8. (n + 1) + 1 = n + 2
    OBVIOUS
  <1>9. QED
    BY <1>2, <1>6, <1>7, <1>8 DEF Compacted

(* The loop invariant of compress: i - 1 ids of the list have been met, and *)
(* once one has, the new write pointer is behind the entries that stay.     *)
Met(i, n, pos, L) == \A j \in 1 .. L : pos[j] <= n <=> j < i
Progress(acc, n, pos, L) ==
    /\ acc \in Acc
    /\ acc.i \in 1 .. L + 1 /\ acc.i - 1 <= n
    /\ acc.found <=> acc.i > 1
    /\ Met(acc.i, n, pos, L)
    /\ acc.found => acc.wptr = Slot(n - acc.i + 2) /\ acc.wstage = StageOf(acc.wptr)
LoopInv(acc, n, buf, pos, L) ==
    /\ Progress(acc, n, pos, L)
    /\ Compacted(acc.buffer, buf, n, n - acc.i + 1, pos, L)

LEMMA StartInv ==
    ASSUME IInv, NEW buf \in [Ptr -> Elem], NEW list, NEW pos, Listing(list, pos)
    PROVE  LoopInv(Start(buf), 0, buf, pos, Len(list))
  <1> DEFINE L == Len(list)
  <1>1. L \in Nat /\ pos \in [1 .. L -> 1 .. Count] /\ Count \in 0 .. Size
    BY SizeAssumption DEF Listing, IInv, TypeOK, PointersOrdered, Count, Dist
  <1>2. Start(buf) \in Acc /\ Start(buf).i = 1 /\ Start(buf).found = FALSE /\ Start(buf).buffer = buf
    BY DEF Start, Acc, IInv, TypeOK
  <1> HIDE DEF L
  <1>3. Progress(Start(buf), 0, pos, L)
    BY <1>1, <1>2 DEF Progress, Met
  <1>4. Compacted(buf, buf, 0, 0, pos, L)
    <2>1. Gathers([m \in 1 .. 0 |-> m], buf, buf, 0, 0, pos, L)
      BY DEF Gathers, Increasing
    <2>2. [m \in 1 .. 0 |-> m] \in [1 .. 0 -> 1 .. 0]
      OBVIOUS
    <2>3. QED
      BY <2>1, <2>2 DEF Compacted
  <1>5. 0 - Start(buf).i + 1 = 0
    BY <1>2
  <1>6. QED
    BY <1>2, <1>3, <1>4, <1>5 DEF LoopInv, L

(* Moving on by one slot.                                                   *)
LEMMA AdvanceSlot ==
    ASSUME rptr \in Ptr, rstage \in Bit, NEW m \in 1 .. Size - 1
    PROVE  /\ NextPtr(Slot(m)) = Slot(m + 1)
           /\ NextStage(Slot(m), StageOf(Slot(m))) = StageOf(Slot(m + 1))
  BY SizeAssumption DEF NextPtr, NextStage, Slot, StageOf

(* The next position is the next listed one, or not listed at all.          *)
LEMMA ListedNext ==
    ASSUME rptr \in Ptr, Count \in 0 .. Size, NEW n \in 0 .. Count - 1,
           NEW list, NEW pos, Listing(list, pos), NEW i \in 1 .. Len(list) + 1,
           Met(i, n, pos, Len(list))
    PROVE  /\ i <= Len(list) /\ Slot(n + 1) = list[i] =>
                 pos[i] = n + 1 /\ Met(i + 1, n + 1, pos, Len(list))
           /\ ~ (i <= Len(list) /\ Slot(n + 1) = list[i]) =>
                 (\A j \in 1 .. Len(list) : pos[j] # n + 1) /\ Met(i, n + 1, pos, Len(list))
  <1> DEFINE L == Len(list)
  <1>1. /\ L \in Nat /\ pos \in [1 .. L -> 1 .. Count] /\ Increasing(pos, L)
        /\ \A j \in 1 .. L : pos[j] <= n <=> j < i
    BY DEF Listing, Met
  <1>2. \A j \in 1 .. L : list[j] = Slot(pos[j])
    BY DEF Listing
  <1>3. \A j \in 1 .. L : pos[j] \in 1 .. Size
    BY <1>1, SizeAssumption
  <1>4. n + 1 \in 1 .. Size
    BY SizeAssumption
  <1>5. \A j \in 1 .. L : list[j] = Slot(n + 1) <=> pos[j] = n + 1
    BY <1>2, <1>3, <1>4, SlotInjective
  <1>6. ASSUME i <= L, Slot(n + 1) = list[i]
        PROVE  pos[i] = n + 1 /\ \A j \in 1 .. L : pos[j] <= n + 1 <=> j < i + 1
    <2>1. i \in 1 .. L /\ pos[i] = n + 1
      BY <1>1, <1>5, <1>6
    <2>2. ASSUME NEW j \in 1 .. L PROVE pos[j] <= n + 1 <=> j < i + 1
      <3>1. i < j => pos[i] < pos[j]
        BY <1>1, <2>1 DEF Increasing
      <3>2. QED
        BY <1>1, <2>1, <3>1
    <2>3. QED
      BY <2>1, <2>2
  <1>7. ASSUME ~ (i <= L /\ Slot(n + 1) = list[i])
        PROVE  /\ \A j \in 1 .. L : pos[j] # n + 1
               /\ \A j \in 1 .. L : pos[j] <= n + 1 <=> j < i
    <2>1. ASSUME NEW j \in 1 .. L PROVE pos[j] # n + 1
      <3> SUFFICES ASSUME pos[j] = n + 1 PROVE FALSE
        OBVIOUS
      <3>1. i <= j /\ i \in 1 .. L
        BY <1>1
      <3>2. i < j => pos[i] < n + 1
        BY <1>1, <3>1 DEF Increasing
      <3>3. ~ (pos[i] <= n)
        BY <1>1, <3>1
      <3>4. i = j
        BY <1>1, <3>1, <3>2, <3>3, SMTT(30)
      <3>5. QED
        BY <1>5, <1>7, <3>1, <3>4
    <2>2. QED
      BY <1>1, <2>1
  <1>8. QED
    BY <1>6, <1>7 DEF Met

LEMMA IterationInv ==
    ASSUME IInv, NEW buf \in [Ptr -> Elem], NEW list, NEW pos, Listing(list, pos),
           NEW n \in 0 .. Count - 1, NEW acc, LoopInv(acc, n, buf, pos, Len(list))
    PROVE  LoopInv(CompressStep(acc, Slot(n + 1), list), n + 1, buf, pos, Len(list))
  <1> DEFINE L == Len(list)
             id == Slot(n + 1)
             next == CompressStep(acc, id, list)
             c == n - acc.i + 1
             listed == acc.i <= L /\ id = list[acc.i]
  <1>1. rptr \in Ptr /\ rstage \in Bit /\ Count \in 0 .. Size
    BY SizeAssumption DEF IInv, TypeOK, PointersOrdered, Count, Dist
  <1>2. /\ acc \in Acc /\ acc.i \in 1 .. L + 1 /\ acc.i - 1 <= n
        /\ acc.found <=> acc.i > 1
        /\ Met(acc.i, n, pos, L)
        /\ acc.found => acc.wptr = Slot(n - acc.i + 2) /\ acc.wstage = StageOf(acc.wptr)
        /\ Compacted(acc.buffer, buf, n, c, pos, L)
    BY DEF LoopInv, Progress
  <1>3. L \in Nat
    BY DEF Listing
  <1>4. /\ listed => pos[acc.i] = n + 1 /\ Met(acc.i + 1, n + 1, pos, L)
        /\ ~ listed => (\A j \in 1 .. L : pos[j] # n + 1) /\ Met(acc.i, n + 1, pos, L)
    BY <1>1, <1>2, ListedNext
  <1>5. id \in Ptr /\ n + 1 \in 1 .. Size
    <2>1. n + 1 \in 1 .. Size
      BY <1>1, SizeAssumption
    <2>2. QED
      BY <1>1, <2>1, SlotTyped
  <1>6. c \in 0 .. n /\ n \in Nat /\ n < Count /\ Count \in Nat
    BY <1>1, <1>2, <1>3, SizeAssumption
  <1> HIDE DEF L, id
  <1>7. CASE listed
    <2>1. acc.i \in 1 .. L /\ pos[acc.i] = n + 1
      BY <1>2, <1>3, <1>4, <1>7
    <2>2. Compacted(acc.buffer, buf, n + 1, c, pos, L)
      <3> HIDE DEF c
      <3>1. c \in Nat
        BY <1>6
      <3>2. QED
        BY <1>2, <1>6, <2>1, <3>1, CompactSkip
    <2>3. /\ next \in Acc /\ next.buffer = acc.buffer /\ next.found = TRUE /\ next.i = acc.i + 1
          /\ next.wptr = Slot(n - acc.i + 2) /\ next.wstage = StageOf(next.wptr)
      <3>1. CASE ~ acc.found
        <4>1. acc.i = 1
          BY <1>2, <1>3, <3>1
        <4>2. n + 1 = n - acc.i + 2
          BY <4>1, <1>6
        <4>3. next \in Acc /\ next.buffer = acc.buffer /\ next.found = TRUE /\ next.i = acc.i + 1
              /\ next.wptr = id /\ next.wstage = StageOf(id)
          <5>1. next \in Acc /\ next.buffer = acc.buffer /\ next.found /\ next.i = acc.i + 1
                /\ next.wptr = id /\ next.wstage = StageOf(id)
            BY <1>1, <1>2, <1>5, <1>7, <3>1, StepHole, SMTT(30) DEF L
          <5>2. next \in Acc /\ next.found => next.found = TRUE
            BY DEF Acc
          <5>3. QED
            BY <5>1, <5>2
        <4>4. QED
          BY <4>2, <4>3 DEF id
      <3>2. CASE acc.found
        <4>1. next \in Acc /\ next.buffer = acc.buffer /\ next.found /\ next.i = acc.i + 1
              /\ next.wptr = acc.wptr /\ next.wstage = acc.wstage
          BY <1>2, <1>5, <1>7, <3>2, StepSkip DEF L
        <4>2. next \in Acc /\ next.found => next.found = TRUE
          BY DEF Acc
        <4>3. QED
          BY <4>1, <4>2, <1>2, <3>2
      <3>3. QED
        BY <3>1, <3>2
    <2> HIDE DEF next, c
    <2>4. acc.i \in Nat /\ acc.i >= 1 /\ (n + 1) - next.i + 2 = n - acc.i + 2 /\ next.i > 1
      BY <2>1, <2>3, <1>3, <1>6
    <2>5. (n + 1) - next.i + 1 = c
      BY <2>1, <2>3, <1>3, <1>6 DEF c
    <2>6. Met(next.i, n + 1, pos, L)
      BY <1>4, <1>7, <2>3
    <2>7. next.i \in 1 .. L + 1 /\ next.i - 1 <= n + 1
      BY <1>2, <1>3, <1>6, <2>1, <2>3
    <2>8. Progress(next, n + 1, pos, L)
      BY <2>3, <2>4, <2>6, <2>7 DEF Progress
    <2>9. Compacted(next.buffer, buf, n + 1, (n + 1) - next.i + 1, pos, L)
      BY <2>2, <2>3, <2>5
    <2>10. QED
      BY <2>8, <2>9 DEF LoopInv, next, L, id
  <1>8. CASE ~ listed
    <2>1. /\ next \in Acc /\ next.found = acc.found /\ next.i = acc.i
          /\ next.buffer[Slot(c + 1)] = buf[Slot(n + 1)]
          /\ \A m \in 1 .. Count : m # c + 1 => next.buffer[Slot(m)] = acc.buffer[Slot(m)]
          /\ acc.found => next.wptr = Slot(n - acc.i + 3) /\ next.wstage = StageOf(next.wptr)
      <3>1. acc.buffer[id] = buf[id]
        <4>1. n + 1 \in n + 1 .. Count
          BY <1>6
        <4>2. QED
          BY <4>1, <1>2 DEF Compacted, id
      <3>2. CASE ~ acc.found
        <4>1. next = acc
          BY <1>2, <1>8, <3>2, StepStay DEF L
        <4>2. acc.i = 1 /\ c + 1 = n + 1
          BY <1>2, <1>3, <1>6, <3>2
        <4>3. QED
          BY <4>1, <4>2, <3>1, <3>2, <1>2 DEF id
      <3>3. CASE acc.found
        <4>1. /\ next \in Acc /\ next.found /\ next.i = acc.i
              /\ next.buffer = [acc.buffer EXCEPT ![acc.wptr] = acc.buffer[id]]
              /\ next.wptr = NextPtr(acc.wptr) /\ next.wstage = NextStage(acc.wptr, acc.wstage)
          BY <1>2, <1>5, <1>8, <3>3, StepMove DEF L
        <4>2. acc.i > 1 /\ c + 1 = n - acc.i + 2 /\ c + 1 \in 1 .. Size - 1 /\ c + 2 = n - acc.i + 3
          BY <1>1, <1>2, <1>3, <1>6, <3>3, SizeAssumption, SMTT(30)
        <4>3. acc.wptr = Slot(c + 1) /\ acc.wstage = StageOf(acc.wptr) /\ acc.buffer \in [Ptr -> Elem]
          BY <1>2, <3>3, <4>2 DEF Acc
        <4> HIDE DEF next, c
        <4>4. (c + 1) + 1 = c + 2
          BY <1>6
        <4>5. next.wptr = Slot(c + 2) /\ next.wstage = StageOf(next.wptr)
          BY <4>1, <4>2, <4>3, <4>4, <1>1, AdvanceSlot
        <4>6. Slot(c + 1) \in Ptr
          BY <1>2, <4>3 DEF Acc
        <4>7. next.buffer[Slot(c + 1)] = buf[Slot(n + 1)]
          BY <4>1, <4>3, <4>6, <3>1 DEF id
        <4>8. ASSUME NEW m \in 1 .. Count, m # c + 1 PROVE next.buffer[Slot(m)] = acc.buffer[Slot(m)]
          <5>1. m \in 1 .. Size /\ c + 1 \in 1 .. Size
            BY <1>1, <4>2, SizeAssumption
          <5>2. Slot(m) \in Ptr /\ Slot(m) # Slot(c + 1)
            BY <5>1, <1>1, <4>8, SlotTyped, SlotInjective
          <5>3. QED
            BY <4>1, <4>3, <5>2
        <4>9. next.found = acc.found
          BY <4>1, <3>3, <1>2 DEF Acc
        <4>10. QED
          BY <4>1, <4>2, <4>5, <4>7, <4>8, <4>9
      <3>4. QED
        BY <3>2, <3>3
    <2>2. \A j \in 1 .. L : pos[j] # n + 1
      BY <1>4, <1>8
    <2> HIDE DEF next
    <2>3. Compacted(next.buffer, buf, n + 1, c + 1, pos, L)
      <3> HIDE DEF c
      <3>1. QED
        BY <1>2, <1>6, <2>1, <2>2, CompactMove
    <2>4. acc.i \in Nat /\ (n + 1) - next.i + 2 = n - acc.i + 3 /\ (n + 1) - next.i + 1 = c + 1
      BY <2>1, <1>2, <1>3, <1>6, SMTT(30)
    <2>5. Met(next.i, n + 1, pos, L)
      BY <1>4, <1>8, <2>1
    <2>6. next.i \in 1 .. L + 1 /\ next.i - 1 <= n + 1
      BY <1>2, <1>3, <1>6, <2>1
    <2>7. Progress(next, n + 1, pos, L)
      BY <1>2, <2>1, <2>4, <2>5, <2>6 DEF Progress
    <2>8. Compacted(next.buffer, buf, n + 1, (n + 1) - next.i + 1, pos, L)
      BY <2>3, <2>4
    <2>9. QED
      BY <2>7, <2>8 DEF LoopInv, next, L, id
  <1>9. QED
    BY <1>7, <1>8

(* The invariant holds after every iteration, so at the end of the loop.    *)
LEMMA LoopOK ==
    ASSUME IInv, NEW buf \in [Ptr -> Elem], NEW list, NEW pos, Listing(list, pos)
    PROVE  LoopInv(CompressLoop(buf, list)[Count], Count, buf, pos, Len(list))
  <1> DEFINE loop == CompressLoop(buf, list)
             T == {n \in Nat : n <= Count => LoopInv(loop[n], n, buf, pos, Len(list))}
  <1>1. Count \in 0 .. Size
    BY SizeAssumption DEF IInv, TypeOK, PointersOrdered, Count, Dist
  <1>2. VisitedIds = [k \in 1 .. Count |-> Slot(k)]
    BY Visits DEF WindowExact
  <1>3. Len(VisitedIds) = Count
    <2>1. Count \in Nat
      BY <1>1, SizeAssumption
    <2> DEFINE n == Count
    <2> HIDE DEF n
    <2>2. n \in Nat => Len([k \in 1 .. n |-> Slot(k)]) = n
      OBVIOUS
    <2>3. QED
      BY <1>2, <2>1, <2>2 DEF n
  <1>4. loop = [n \in 0 .. Count |-> IF n = 0 THEN Start(buf)
                                     ELSE CompressStep(loop[n - 1], VisitedIds[n], list)]
    <2>1. Len(VisitedIds) \in Nat
      BY <1>1, <1>3, SizeAssumption
    <2>2. QED
      BY <1>3, <2>1, LoopDefined
  <1> HIDE DEF loop
  <1>5. 0 \in T
    <2>1. loop[0] = Start(buf)
      BY <1>1, <1>4, SizeAssumption
    <2>2. QED
      BY <2>1, StartInv
  <1>6. ASSUME NEW n \in Nat, n \in T PROVE n + 1 \in T
    <2> SUFFICES ASSUME n + 1 <= Count PROVE LoopInv(loop[n + 1], n + 1, buf, pos, Len(list))
      OBVIOUS
    <2>1. n \in 0 .. Count - 1 /\ n + 1 \in 1 .. Count /\ n + 1 \in 0 .. Count /\ n + 1 # 0
          /\ (n + 1) - 1 = n
      BY <1>1, SizeAssumption
    <2>2. LoopInv(loop[n], n, buf, pos, Len(list))
      <3>1. n <= Count
        BY <1>1, <2>1, SizeAssumption
      <3>2. QED
        BY <1>6, <3>1
    <2>3. loop[n + 1] = CompressStep(loop[n], Slot(n + 1), list)
      <3>1. loop[n + 1] = CompressStep(loop[(n + 1) - 1], VisitedIds[n + 1], list)
        BY <1>4, <2>1
      <3>2. VisitedIds[n + 1] = Slot(n + 1)
        BY <1>2, <2>1
      <3>3. QED
        BY <2>1, <3>1, <3>2
    <2>4. QED
      BY <2>1, <2>2, <2>3, IterationInv
  <1>7. Count \in T
    <2> HIDE DEF T
    <2>1. Nat \subseteq T
      BY <1>5, <1>6, NatInductionSet
    <2>2. QED
      BY <1>1, <2>1, SizeAssumption
  <1>8. QED
    BY <1>1, <1>7, SizeAssumption DEF loop

(* compress closes the holes: the ring shrinks by the length of the list.   *)
CountOf(r) == IF rstage = r.wstage THEN r.wptr - rptr ELSE Size + r.wptr - rptr

LEMMA CompressOK ==
    ASSUME IInv, NEW buf \in [Ptr -> Elem], NEW list, NEW pos, Listing(list, pos)
    PROVE  LET r == compress(buf, list)
           IN  /\ r.buffer \in [Ptr -> Elem] /\ r.wptr \in Ptr /\ r.wstage \in Bit
               /\ CountOf(r) = Count - Len(list) /\ CountOf(r) \in 0 .. Count
               /\ Compacted(r.buffer, buf, Count, Count - Len(list), pos, Len(list))
  <1> DEFINE L == Len(list)
             r == compress(buf, list)
  <1>1. rptr \in Ptr /\ rstage \in Bit /\ wptr \in Ptr /\ wstage \in Bit /\ Count \in 0 .. Size
    BY SizeAssumption DEF IInv, TypeOK, PointersOrdered, Count, Dist
  <1>2. L \in Nat /\ pos \in [1 .. L -> 1 .. Count]
    BY DEF Listing
  <1>3. CASE L = 0
    <2>1. list = << >>
      BY <1>3 DEF Listing
    <2>2. r = [buffer |-> buf, wptr |-> wptr, wstage |-> wstage]
      BY <2>1 DEF compress
    <2>3. CountOf(r) = Count
      BY <2>2 DEF CountOf, Count, Dist
    <2>4. Compacted(buf, buf, Count, Count, pos, 0)
      <3> DEFINE n == Count
                 at == [m \in 1 .. n |-> m]
      <3>1. n \in Nat
        BY <1>1, SizeAssumption
      <3> HIDE DEF n
      <3>2. at \in [1 .. n -> 1 .. n] /\ \A m \in 1 .. n : at[m] = m
        OBVIOUS
      <3> HIDE DEF at
      <3>3. Gathers(at, buf, buf, n, n, pos, 0)
        BY <3>1, <3>2 DEF Gathers, Increasing
      <3>4. \A m \in n + 1 .. n : buf[Slot(m)] = buf[Slot(m)]
        OBVIOUS
      <3>5. QED
        BY <3>2, <3>3, <3>4 DEF Compacted, n
    <2>5. Count - L = Count /\ Count \in 0 .. Count
      BY <1>1, <1>3, SizeAssumption
    <2> HIDE DEF r
    <2>6. QED
      BY <1>1, <1>3, <2>2, <2>3, <2>4, <2>5 DEF r
  <1>4. CASE L > 0
    <2> DEFINE acc == CompressLoop(buf, list)[Count]
    <2>1. LoopInv(acc, Count, buf, pos, L)
      BY LoopOK
    <2>2. L \in 1 .. L /\ pos[L] \in 1 .. Count
      BY <1>2, <1>4
    <2>3. list # << >>
      BY <1>4
    <2>4. ~ is_empty
      BY <1>1, <2>2, EmptyRing, SizeAssumption
    <2>5. r = acc
      <3>1. Len(VisitedIds) = Count
        <4> DEFINE n == Count
        <4> HIDE DEF n
        <4>1. n \in Nat => Len([k \in 1 .. n |-> Slot(k)]) = n
          OBVIOUS
        <4>2. QED
          BY <1>1, <4>1, Visits, SizeAssumption DEF n, WindowExact
      <3>2. QED
        BY <2>3, <2>4, <3>1 DEF compress
    <2> HIDE DEF acc, r, L
    <2>6. /\ acc \in Acc /\ acc.i \in 1 .. L + 1 /\ acc.i - 1 <= Count
          /\ acc.found <=> acc.i > 1
          /\ pos[L] <= Count <=> L < acc.i
          /\ acc.found => acc.wptr = Slot(Count - acc.i + 2) /\ acc.wstage = StageOf(acc.wptr)
          /\ Compacted(acc.buffer, buf, Count, Count - acc.i + 1, pos, L)
      BY <2>1, <2>2 DEF LoopInv, Progress, Met
    <2>7. acc.i = L + 1 /\ acc.found /\ L <= Count
      BY <1>1, <1>2, <1>4, <2>2, <2>6, SizeAssumption
    <2>8. Count - acc.i + 2 = Count - L + 1 /\ Count - acc.i + 1 = Count - L
      BY <1>1, <1>2, <2>7, SizeAssumption
    <2>9. acc.wptr = Slot(Count - L + 1) /\ acc.wstage = StageOf(Slot(Count - L + 1))
      BY <2>6, <2>7, <2>8
    <2>10. CountOf(acc) = Count - L
      <3> DEFINE n == Count
      <3> HIDE DEF n
      <3>1. n \in 0 .. Size /\ L \in 1 .. n /\ acc.wptr = Slot(n - L + 1)
            /\ acc.wstage = StageOf(Slot(n - L + 1))
        BY <1>1, <1>2, <1>4, <2>7, <2>9, SizeAssumption DEF n
      <3>2. QED
        BY <1>1, <3>1, SizeAssumption DEF CountOf, Slot, StageOf, n
    <2>11. Compacted(acc.buffer, buf, Count, Count - L, pos, L)
      BY <2>6, <2>8
    <2>12. acc.buffer \in [Ptr -> Elem] /\ acc.wptr \in Ptr /\ acc.wstage \in Bit
      BY <2>6 DEF Acc
    <2>13. Count - L \in 0 .. Count
      BY <1>1, <1>2, <2>7, SizeAssumption
    <2>14. QED
      BY <2>5, <2>10, <2>11, <2>12, <2>13 DEF r, L
  <1>5. QED
    BY <1>2, <1>3, <1>4

-----------------------------------------------------------------------------
(* The inductive invariant: the ring in order and without saved pointers, a *)
(* list made of the slots of increasing positions, and at most one update   *)
(* for a slot.                                                              *)
Request == [id : Ptr, value : Elem]
Asked == /\ sync_request_q \in Seq(Request)
         /\ \A i, j \in 1 .. Len(sync_request_q) :
               sync_request_q[i].id = sync_request_q[j].id => i = j
QueueInv == /\ IInv /\ PopStatusSave = FALSE
            /\ \E pos : Listing(item_id_list, pos)
            /\ Asked

(* The updates reach their slots.                                           *)
LEMMA UpdatesReach ==
    ASSUME IInv, Asked, NEW k \in 1 .. Count
    PROVE  set_items[Slot(k)] = Updated(k)
  <1> DEFINE q == sync_request_q
             R == Requests(Slot(k))
  <1>1. Slot(k) \in Ptr
    <2>1. rptr \in Ptr /\ k \in 1 .. Size
      BY SizeAssumption DEF IInv, TypeOK, PointersOrdered, Count, Dist
    <2>2. QED
      BY <2>1, SlotTyped
  <1>2. set_items[Slot(k)] = IF R = {} THEN buffer[Slot(k)]
                             ELSE q[CHOOSE j \in R : \A i \in R : i <= j].value
    BY <1>1 DEF set_items
  <1>3. CASE R = {}
    <2>1. ~ \E j \in 1 .. Len(q) : q[j].id = Slot(k)
      BY <1>3 DEF Requests
    <2>2. Contents[k] = buffer[Slot(k)]
      BY DEF Contents
    <2>3. QED
      BY <1>2, <1>3, <2>1, <2>2 DEF Updated
  <1>4. ASSUME NEW r \in 1 .. Len(q), q[r].id = Slot(k)
        PROVE  set_items[Slot(k)] = Updated(k)
    <2>1. \A j \in 1 .. Len(q) : q[j].id = Slot(k) => j = r
      BY <1>4 DEF Asked
    <2>2. R = {r}
      BY <1>4, <2>1 DEF Requests
    <2>3. Len(q) \in Nat
      BY DEF Asked
    <2>4. (CHOOSE j \in R : \A i \in R : i <= j) = r
      <3>1. r <= r
        BY <2>3
      <3> HIDE DEF R
      <3>2. QED
        BY <2>2, <3>1
    <2>5. (CHOOSE j \in 1 .. Len(q) : q[j].id = Slot(k)) = r
      BY <1>4, <2>1
    <2>6. Updated(k) = q[r].value
      BY <1>4, <2>5 DEF Updated
    <2>7. R # {}
      BY <2>2
    <2> HIDE DEF R
    <2>8. QED
      BY <1>2, <2>4, <2>6, <2>7
  <1>5. QED
    BY <1>3, <1>4 DEF Requests

LEMMA UpdatesTyped ==
    ASSUME IInv, Asked
    PROVE  set_items \in [Ptr -> Elem]
  <1> DEFINE q == sync_request_q
  <1>1. ASSUME NEW id \in Ptr
        PROVE  (IF Requests(id) = {} THEN buffer[id]
                ELSE q[CHOOSE j \in Requests(id) : \A i \in Requests(id) : i <= j].value) \in Elem
    <2>1. CASE Requests(id) = {}
      BY <2>1 DEF IInv, TypeOK
    <2>2. ASSUME NEW r \in Requests(id)
          PROVE  q[CHOOSE j \in Requests(id) : \A i \in Requests(id) : i <= j].value \in Elem
      <3>1. r \in 1 .. Len(q) /\ q[r].id = id /\ Len(q) \in Nat
        BY <2>2 DEF Requests, Asked
      <3>2. \A j \in Requests(id) : j = r
        BY <3>1 DEF Requests, Asked
      <3>3. r <= r
        BY <3>1
      <3>4. (CHOOSE j \in Requests(id) : \A i \in Requests(id) : i <= j) = r
        BY <2>2, <3>2, <3>3
      <3>5. q[r] \in Request
        BY <3>1 DEF Asked
      <3>6. q[r].value \in Elem
        BY <3>5 DEF Request
      <3>7. QED
        BY <3>4, <3>6
    <2>3. QED
      BY <2>1, <2>2
  <1>2. QED
    BY <1>1 DEF set_items

(* Sync leaves an ordered ring that holds the survivors.                    *)
LEMMA SyncOK ==
    ASSUME QueueInv, Sync
    PROVE  IInv' /\ Survivors(Contents')
  <1> DEFINE L == Len(item_id_list)
             r == compress(set_items, item_id_list)
  <1>1. IInv /\ Asked
    BY DEF QueueInv
  <1>2. PICK pos : Listing(item_id_list, pos)
    BY DEF QueueInv
  <1>3. set_items \in [Ptr -> Elem]
    BY <1>1, UpdatesTyped
  <1>4. /\ r.buffer \in [Ptr -> Elem] /\ r.wptr \in Ptr /\ r.wstage \in Bit
        /\ CountOf(r) = Count - L /\ CountOf(r) \in 0 .. Count
        /\ Compacted(r.buffer, set_items, Count, Count - L, pos, L)
    BY <1>1, <1>2, <1>3, CompressOK
  <1>5. /\ buffer' = r.buffer /\ wptr' = r.wptr /\ wstage' = r.wstage
        /\ UNCHANGED <<rptr, rstage, rptr_saved, rstage_saved, phase>>
    BY DEF Sync
  <1> HIDE DEF r
  <1>6. Count' = CountOf(r)
    BY <1>5 DEF Count, Dist, CountOf
  <1>7. Count \in 0 .. Size /\ rptr \in Ptr
    BY <1>1, SizeAssumption DEF IInv, TypeOK, PointersOrdered, Count, Dist
  <1>8. IInv'
    <2>1. TypeOK'
      BY <1>1, <1>4, <1>5 DEF IInv, TypeOK
    <2>2. 0 <= Count' /\ Count' <= Size
      BY <1>4, <1>6, <1>7, SizeAssumption
    <2>3. PointersOrdered'
      BY <2>2 DEF QueueInv, PointersOrdered
    <2>4. QED
      BY <2>1, <2>3 DEF IInv
  <1>9. PICK at \in [1 .. Count - L -> 1 .. Count] :
               Gathers(at, r.buffer, set_items, Count, Count - L, pos, L)
    BY <1>4 DEF Compacted
  <1> DEFINE c == Count - L
             new == Contents'
  <1>10. c \in Nat /\ c \in 0 .. Count /\ Count' = c
    BY <1>4, <1>6, <1>7, SizeAssumption
  <1>11. new = [m \in 1 .. c |-> r.buffer[Slot(m)]]
    <2>1. \A m : Slot(m)' = Slot(m)
      BY <1>5 DEF Slot
    <2>2. new = [m \in 1 .. Count' |-> buffer'[Slot(m)']]
      BY DEF Contents
    <2>3. QED
      BY <1>5, <1>10, <2>1, <2>2
  <1> HIDE DEF c, new
  <1>12. Len(new) = c
    BY <1>10, <1>11
  <1>13. ASSUME NEW m \in 1 .. c PROVE new[m] = Updated(at[m])
    <2>1. new[m] = r.buffer[Slot(m)]
      BY <1>11
    <2>2. r.buffer[Slot(m)] = set_items[Slot(at[m])]
      BY <1>9 DEF Gathers, c
    <2>3. at[m] \in 1 .. Count
      BY <1>9 DEF c
    <2>4. QED
      BY <1>1, <2>1, <2>2, <2>3, UpdatesReach
  <1>14. ASSUME NEW k \in 1 .. Count
         PROVE  (\E m \in 1 .. c : at[m] = k) <=> k \in Unlisted
    <2>1. (\E m \in 1 .. c : at[m] = k) <=> (\A j \in 1 .. L : pos[j] # k)
      BY <1>9 DEF Gathers, c
    <2>2. ASSUME NEW j \in 1 .. L PROVE item_id_list[j] = Slot(k) <=> pos[j] = k
      <3>1. item_id_list[j] = Slot(pos[j]) /\ pos[j] \in 1 .. Count
        BY <1>2 DEF Listing
      <3>2. pos[j] \in 1 .. Size /\ k \in 1 .. Size
        BY <1>7, <3>1, SizeAssumption
      <3>3. QED
        BY <1>7, <3>1, <3>2, SlotInjective
    <2>3. QED
      BY <2>1, <2>2 DEF Unlisted
  <1>15. {at[j] : j \in 1 .. c} = Unlisted
    <2>1. \A j \in 1 .. c : at[j] \in 1 .. Count
      BY <1>9 DEF c
    <2>2. Unlisted \subseteq 1 .. Count
      BY DEF Unlisted
    <2>3. QED
      BY <1>14, <2>1, <2>2
  <1>16. at \in [1 .. c -> 1 .. Count] /\ Increasing(at, c)
    BY <1>9 DEF Gathers, c
  <1>17. Survivors(new)
    BY <1>12, <1>13, <1>15, <1>16 DEF Survivors
  <1>18. QED
    BY <1>8, <1>17 DEF new

-----------------------------------------------------------------------------
(* The actions.                                                             *)
LEMMA EmptyListing ==
    ASSUME item_id_list = << >>
    PROVE  \E pos : Listing(item_id_list, pos)
  <1> DEFINE pos == [j \in 1 .. 0 |-> j]
  <1>1. Len(item_id_list) = 0 /\ item_id_list = [j \in 1 .. 0 |-> Slot(pos[j])]
    OBVIOUS
  <1>2. pos \in [1 .. 0 -> 1 .. Count] /\ Increasing(pos, 0)
    BY DEF Increasing
  <1> HIDE DEF pos
  <1>3. QED
    BY <1>1, <1>2 DEF Listing

LEMMA NothingAsked ==
    ASSUME sync_request_q = << >>
    PROVE  Asked
  BY DEF Asked

LEMMA Emptied ==
    ASSUME item_id_list' = << >>, sync_request_q' = << >>
    PROVE  (\E pos : Listing(item_id_list, pos))' /\ Asked'
  <1> DEFINE pos == [j \in 1 .. 0 |-> j]
             list == item_id_list'
  <1>1. Len(list) = 0 /\ list = [j \in 1 .. 0 |-> Slot(pos[j])']
    OBVIOUS
  <1>2. pos \in [1 .. 0 -> 1 .. Count'] /\ Increasing(pos, 0)
    BY DEF Increasing
  <1>3. Asked'
    BY DEF Asked
  <1>4. Listing(item_id_list, pos)'
    BY <1>1, <1>2 DEF Listing, Increasing
  <1>5. QED
    BY <1>3, <1>4

LEMMA InitQueue ==
    ASSUME QueueInit
    PROVE  QueueInv
  <1>1. IInv
    BY InitIInv DEF QueueInit
  <1>2. QED
    BY <1>1, EmptyListing, NothingAsked DEF QueueInit, QueueInv

LEMMA SelectInv ==
    ASSUME QueueInv, Select
    PROVE  QueueInv'
  <1>1. IInv /\ Asked /\ WindowExact
    BY Visits DEF QueueInv
  <1>2. UNCHANGED <<vars, sync_request_q>>
    BY DEF Select
  <1>3. IInv'
    BY <1>1, <1>2 DEF vars, IInv, TypeOK, PointersOrdered, Count, SavedCount, Dist
  <1>4. Asked'
    BY <1>1, <1>2 DEF Asked
  <1>5. Count \in Nat
    BY <1>1, SizeAssumption DEF IInv, TypeOK, PointersOrdered, Count, Dist
  <1>6. Len(VisitedIds) = Count /\ \A k \in 1 .. Count : VisitedIds[k] = Slot(k)
    <2> DEFINE n == Count
    <2> HIDE DEF n
    <2>1. n \in Nat => Len([k \in 1 .. n |-> Slot(k)]) = n
      OBVIOUS
    <2>2. QED
      BY <1>1, <1>5, <2>1 DEF n, WindowExact
  <1>7. PICK n \in 0 .. IssueWidth : \E at \in [1 .. n -> 1 .. Count] :
           Increasing(at, n) /\ item_id_list' = [j \in 1 .. n |-> VisitedIds[at[j]]]
    BY <1>6 DEF Select
  <1>8. PICK at \in [1 .. n -> 1 .. Count] :
           Increasing(at, n) /\ item_id_list' = [j \in 1 .. n |-> VisitedIds[at[j]]]
    BY <1>7
  <1>9. n \in Nat
    BY IssueWidthAssumption
  <1>10. item_id_list' = [j \in 1 .. n |-> Slot(at[j])]
    BY <1>6, <1>8
  <1>11. Len(item_id_list') = n
    BY <1>9, <1>10
  <1>12. Count' = Count /\ \A k : Slot(k)' = Slot(k)
    BY <1>2 DEF vars, Count, Dist, Slot
  <1>13. Listing(item_id_list, at)'
    BY <1>8, <1>9, <1>10, <1>11, <1>12 DEF Listing, Increasing
  <1>14. QED
    BY <1>3, <1>4, <1>13 DEF QueueInv

LEMMA UpdateInv ==
    ASSUME QueueInv, NEW k \in 1 .. Len(VisitedIds), NEW v \in Elem, Update(k, v)
    PROVE  QueueInv'
  <1> DEFINE q == sync_request_q
             e == [id |-> VisitedIds[k], value |-> v]
  <1>1. IInv /\ Asked /\ WindowExact
    BY Visits DEF QueueInv
  <1>2. UNCHANGED <<vars, item_id_list>>
    BY DEF Update
  <1>3. IInv'
    BY <1>1, <1>2 DEF vars, IInv, TypeOK, PointersOrdered, Count, SavedCount, Dist
  <1>4. Count \in 0 .. Size /\ rptr \in Ptr
    BY <1>1, SizeAssumption DEF IInv, TypeOK, PointersOrdered, Count, Dist
  <1>5. Len(VisitedIds) = Count /\ \A m \in 1 .. Count : VisitedIds[m] = Slot(m)
    <2> DEFINE n == Count
    <2> HIDE DEF n
    <2>1. n \in Nat => Len([m \in 1 .. n |-> Slot(m)]) = n
      OBVIOUS
    <2>2. QED
      BY <1>1, <1>4, <2>1, SizeAssumption DEF n, WindowExact
  <1>6. k \in 1 .. Count /\ k \in 1 .. Size
    BY <1>4, <1>5, SizeAssumption
  <1>7. VisitedIds[k] = Slot(k) /\ Slot(k) \in Ptr
    BY <1>4, <1>5, <1>6, SlotTyped
  <1>8. e \in Request /\ e.id = Slot(k)
    BY <1>7 DEF Request
  <1>9. q' = Append(q, e)
    BY DEF Update
  <1>10. ASSUME NEW j \in 1 .. Len(q) PROVE q[j].id # Slot(k)
    <2>1. PICK m \in 1 .. k - 1 : q[j].id = VisitedIds[m]
      BY DEF Update
    <2>2. m \in 1 .. Count /\ m \in 1 .. Size /\ m # k
      BY <1>4, <1>6, SizeAssumption
    <2>3. QED
      BY <1>4, <1>5, <1>6, <2>1, <2>2, SlotInjective
  <1>11. Asked'
    <2> HIDE DEF e
    <2>1. q \in Seq(Request) /\ Len(q) \in Nat
      BY <1>1 DEF Asked
    <2>2. q' \in Seq(Request) /\ Len(q') = Len(q) + 1
      BY <1>8, <1>9, <2>1
    <2>3. q'[Len(q) + 1] = e /\ \A j \in 1 .. Len(q) : q'[j] = q[j]
      BY <1>9, <2>1
    <2>4. ASSUME NEW i \in 1 .. Len(q) + 1, NEW j \in 1 .. Len(q) + 1, q'[i].id = q'[j].id
          PROVE  i = j
      <3>1. CASE i \in 1 .. Len(q) /\ j \in 1 .. Len(q)
        BY <1>1, <2>3, <2>4, <3>1 DEF Asked
      <3>2. CASE i = Len(q) + 1 /\ j \in 1 .. Len(q)
        BY <1>8, <1>10, <2>3, <2>4, <3>2
      <3>3. CASE j = Len(q) + 1 /\ i \in 1 .. Len(q)
        BY <1>8, <1>10, <2>3, <2>4, <3>3
      <3>4. QED
        BY <2>1, <3>1, <3>2, <3>3
    <2>5. QED
      BY <2>2, <2>4 DEF Asked
  <1>12. PICK pos : Listing(item_id_list, pos)
    BY DEF QueueInv
  <1>13. Count' = Count /\ \A m : Slot(m)' = Slot(m)
    BY <1>2 DEF vars, Count, Dist, Slot
  <1>14. Listing(item_id_list, pos)'
    BY <1>2, <1>12, <1>13 DEF Listing, Increasing
  <1>15. QED
    BY <1>3, <1>11, <1>14 DEF QueueInv

LEMMA InsertInv ==
    ASSUME QueueInv, NEW v \in Elem, Insert(v)
    PROVE  QueueInv'
  <1>1. IInv /\ Asked /\ push(v)
    BY DEF QueueInv, Insert
  <1>2. IInv' /\ Count' = Count + 1
    BY <1>1, PushIInv
  <1>3. Asked'
    BY <1>1 DEF Asked, Insert
  <1>4. PICK pos : Listing(item_id_list, pos)
    BY DEF QueueInv
  <1>5. \A m : Slot(m)' = Slot(m)
    BY <1>1 DEF push, Slot
  <1>6. Count \in Nat
    BY <1>1, SizeAssumption DEF IInv, TypeOK, PointersOrdered, Count, Dist
  <1>7. 1 .. Count \subseteq 1 .. Count'
    BY <1>2, <1>6
  <1>8. item_id_list' = item_id_list
    BY DEF Insert
  <1>9. Listing(item_id_list, pos)'
    BY <1>4, <1>5, <1>7, <1>8 DEF Listing, Increasing
  <1>10. QED
    BY <1>2, <1>3, <1>9 DEF QueueInv

(* Between two cycles nothing is listed or asked for.                       *)
Idle == step = "select" => item_id_list = << >> /\ sync_request_q = << >>

LEMMA QueueStep ==
    ASSUME QueueInv, Idle, [QueueNext]_queueVars
    PROVE  QueueInv' /\ Idle'
  <1>1. CASE Select
    BY <1>1, SelectInv DEF Idle, Select
  <1>2. CASE Sync
    BY <1>2, SyncOK, Emptied DEF Sync, QueueInv, Idle
  <1>3. CASE Flush
    <2>1. IInv'
      BY <1>3, FlushIInv DEF QueueInv, Flush
    <2>2. item_id_list' = << >> /\ sync_request_q' = << >>
      BY <1>3 DEF Idle, Flush
    <2>3. QED
      BY <2>1, <2>2, Emptied DEF QueueInv, Idle
  <1>4. CASE PopFront
    <2>1. IInv'
      BY <1>4, PopIInv DEF QueueInv, PopFront
    <2>2. item_id_list' = << >> /\ sync_request_q' = << >>
      BY <1>4 DEF Idle, PopFront
    <2>3. QED
      BY <2>1, <2>2, Emptied DEF QueueInv, Idle
  <1>5. ASSUME NEW k \in 1 .. Len(VisitedIds), NEW v \in Elem, Update(k, v)
        PROVE  QueueInv' /\ Idle'
    BY <1>5, UpdateInv DEF Update, Idle
  <1>6. ASSUME NEW v \in Elem, Insert(v) PROVE QueueInv' /\ Idle'
    BY <1>6, InsertInv DEF Insert, Idle
  <1>7. CASE UNCHANGED queueVars
    <2>1. PICK pos : Listing(item_id_list, pos)
      BY DEF QueueInv
    <2>2. Listing(item_id_list, pos)'
      BY <1>7, <2>1 DEF queueVars, vars, Listing, Increasing, Slot, Count, Dist
    <2>3. IInv'
      BY <1>7 DEF QueueInv, queueVars, vars, IInv, TypeOK, PointersOrdered, Count, SavedCount, Dist
    <2>4. Asked' /\ Idle'
      BY <1>7 DEF queueVars, QueueInv, Asked, Idle
    <2>5. QED
      BY <2>2, <2>3, <2>4 DEF QueueInv
  <1>8. QED
    BY <1>1, <1>2, <1>3, <1>4, <1>5, <1>6, <1>7 DEF QueueNext

(* The invariant in the form the temporal steps use.                        *)
LEMMA QueueSafe == QueueSpec => [](QueueInv /\ Idle)
  <1>1. QueueInit => QueueInv /\ Idle
    BY InitQueue DEF QueueInit, Idle
  <1>2. QueueInv /\ Idle /\ [QueueNext]_queueVars => (QueueInv /\ Idle)'
    BY QueueStep
  <1>3. QED
    BY <1>1, <1>2, PTL DEF QueueSpec

(* issue_queue::check_id_valid and the loops over ids: for every size they  *)
(* visit exactly the occupied slots, oldest first, also in a full and in a  *)
(* wrapped ring.                                                            *)
THEOREM WindowSafe == QueueSpec => []WindowExact
  <1>1. QueueInv => WindowExact
    BY Visits DEF QueueInv
  <1>2. QED
    BY <1>1, QueueSafe, PTL

(* The stage bits order the pointers for every size, although compress      *)
(* moves the write pointer back across the end of the ring.                 *)
THEOREM RingOrdered == QueueSpec => []RingSound
  <1>1. QueueInv => RingSound
    BY DEF QueueInv, IInv, PointersOrdered, RingSound
  <1>2. QED
    BY <1>1, QueueSafe, PTL

(* issue_queue::sync: for every size and issue width, what leaves the queue *)
(* is exactly what was listed, every update reaches the entry it was asked  *)
(* for and the rest stays in order.                                         *)
THEOREM SyncSafe == QueueSpec => SyncExact
  <1>1. QueueInv /\ [QueueNext]_queueVars => [Sync => Survivors(Contents')]_queueVars
    BY SyncOK
  <1>2. QED
    BY <1>1, QueueSafe, PTL DEF QueueSpec, SyncExact
=============================================================================
