--------------------------- MODULE FrontEndProofs ---------------------------
(***************************************************************************)
(* For every program, every size of the queues and every width:            *)
(* a fence.i that fetch lets in is the only instruction in the core, and   *)
(* no older store is left in the store buffer (FenceISafe);                *)
(* the instructions in flight are always the path fetch predicted from the *)
(* instruction the program executes next (PathSafe).                       *)
(***************************************************************************)
EXTENDS FrontEnd, SequenceTheorems, FiniteSetTheorems, TLAPS

(* FenceIOrdered by the place of the fence.i.                               *)
IsFence(q, k) == q[k].kind = "fence_i"
FenceInRob == \A k \in 1 .. Len(rob) : IsFence(rob, k) => k = 1 /\ stores = 0
FenceInDr == \A k \in 1 .. Len(dr) : IsFence(dr, k) => k = 1 /\ stores = 0 /\ rob = << >>
FenceInFd == \A k \in 1 .. Len(fd) : IsFence(fd, k) =>
                 k = 1 /\ stores = 0 /\ rob = << >> /\ dr = << >>

(* What the tests of fetch stand for when it looks at them: the three       *)
(* reports, each made at another moment of the pass, together say that the  *)
(* core is empty.                                                           *)
EmptyRob == stage \in {"input", "rename"} /\ ~feedback.enable => rob = << >>
EmptyDr == stage = "decode" /\ ~feedback.enable /\ idle.rename => rob = << >> /\ dr = << >>
EmptyCore == stage = "fetch" /\ slot = 0 /\ ~feedback.enable /\ idle.rename /\ idle.decode =>
                 rob = << >> /\ dr = << >> /\ fd = << >>

(* decode never finds less than no room: what rename took from its queue in *)
(* this pass still counts.                                                  *)
DrFits == /\ Len(dr) <= DecodeSize
          /\ stage = "decode" => Len(dr) + popped.dr <= DecodeSize

FenceInv == /\ TypeOK /\ DrFits
            /\ FenceInRob /\ FenceInDr /\ FenceInFd
            /\ EmptyRob /\ EmptyDr /\ EmptyCore

-----------------------------------------------------------------------------
LEMMA PcInRange ==
    /\ 0 \in PC
    /\ \A p \in PC : Plus4(p) \in PC
  BY SizesAssumption DEF PC, Plus4

LEMMA InitFence == Init => FenceInv
  <1> SUFFICES ASSUME Init PROVE FenceInv
    OBVIOUS
  <1>1. TypeOK
    BY PcInRange DEF Init, TypeOK, Feedback, NoFeedback, NotIdle, NonePopped
  <1>2. DrFits
    BY SizesAssumption, EmptySeq DEF Init, DrFits
  <1>3. QED
    BY <1>1, <1>2 DEF Init, FenceInv, FenceInRob, FenceInDr, FenceInFd, EmptyRob, EmptyDr, EmptyCore

(* Counting a removal keeps the four counters of a pass natural numbers.    *)
LEMMA PoppedTyped ==
    ASSUME NEW p \in [fd : Nat, dr : Nat, rob : Nat, cp : Nat], NEW n \in Nat
    PROVE  /\ [p EXCEPT !.fd = n] \in [fd : Nat, dr : Nat, rob : Nat, cp : Nat]
           /\ [p EXCEPT !.dr = n] \in [fd : Nat, dr : Nat, rob : Nat, cp : Nat]
           /\ [p EXCEPT !.dr = n].dr = n
           /\ [p EXCEPT !.rob = @ + 1] \in [fd : Nat, dr : Nat, rob : Nat, cp : Nat]
           /\ [p EXCEPT !.rob = @ + 1, !.cp = 1] \in [fd : Nat, dr : Nat, rob : Nat, cp : Nat]
  <1>1. [p EXCEPT !.fd = n] \in [fd : Nat, dr : Nat, rob : Nat, cp : Nat]
    OBVIOUS
  <1>2. [p EXCEPT !.dr = n] \in [fd : Nat, dr : Nat, rob : Nat, cp : Nat]
    BY Zenon
  <1>3. [p EXCEPT !.dr = n].dr = n
    OBVIOUS
  <1>4. p.rob + 1 \in Nat /\ 1 \in Nat
    OBVIOUS
  <1>5. [p EXCEPT !.rob = @ + 1] \in [fd : Nat, dr : Nat, rob : Nat, cp : Nat]
    BY <1>4, Zenon
  <1>6. [p EXCEPT !.rob = @ + 1, !.cp = 1] \in [fd : Nat, dr : Nat, rob : Nat, cp : Nat]
    BY <1>4
  <1>7. QED
    BY <1>1, <1>2, <1>3, <1>5, <1>6

(* The next instruction of the program is an address.                       *)
LEMMA NextPcInRange ==
    ASSUME NEW e \in Entry
    PROVE  NextPc(e) \in PC
  BY PcInRange DEF NextPc, Entry

(* With a fence.i behind the ROB, the ROB is empty: retirement never sees   *)
(* one it could overtake.                                                   *)
LEMMA RetireFence ==
    ASSUME FenceInv, RetireOther \/ RetireJump
    PROVE  FenceInv'
  <1>1. rob # << >> /\ rob \in Seq(Entry) /\ rob[1] \in Entry /\ NextPc(rob[1]) \in PC
    BY NextPcInRange DEF FenceInv, TypeOK, RetireOther, RetireJump, Committing
  <1>2. rob' = Tail(rob) \/ rob' = << >>
    BY DEF RetireOther, RetireJump
  <1>3. rob' \in Seq(Entry)
    BY <1>1, <1>2, HeadTailProperties, EmptySeq
  <1>4. feedback' \in Feedback /\ feedback'.enable
    <2>1. feedback \in Feedback /\ rob[1].jump \in BOOLEAN
      BY <1>1 DEF FenceInv, TypeOK, Entry
    <2>2. Redirected(rob[1]) \in Feedback /\ Redirected(rob[1]).enable
      BY <1>1, <2>1 DEF Redirected, Feedback
    <2>3. \/ feedback' = [feedback EXCEPT !.enable = TRUE]
          \/ feedback' = Redirected(rob[1])
          \/ feedback' = [Redirected(rob[1]) EXCEPT !.flush = TRUE]
      BY DEF RetireOther, RetireJump
    <2>4. QED
      BY <2>1, <2>2, <2>3 DEF Feedback
  <1>5. TypeOK'
    <2>1. popped' \in [fd : Nat, dr : Nat, rob : Nat, cp : Nat]
      <3>1. popped \in [fd : Nat, dr : Nat, rob : Nat, cp : Nat]
        BY DEF FenceInv, TypeOK
      <3>2. \/ popped' = popped
            \/ popped' = [popped EXCEPT !.rob = @ + 1]
            \/ popped' = [popped EXCEPT !.rob = @ + 1, !.cp = 1]
        BY DEF RetireOther, RetireJump
      <3>3. QED
        BY <3>1, <3>2, PoppedTyped
    <2>2. stage' \in {"commit", "input", "rename"} /\ slot' \in Nat /\ stores' \in Nat
      <3>1. slot \in Nat /\ stores \in Nat
        BY DEF FenceInv, TypeOK
      <3>2. \/ stage' = "commit" /\ slot' = slot + 1
            \/ stage' \in {"input", "rename"} /\ slot' = 0
        BY DEF RetireOther, RetireJump, EndCommit, Committing
      <3>3. stores' = stores \/ stores' = stores + 0 \/ stores' = stores + 1
        BY DEF RetireOther, RetireJump
      <3>4. QED
        BY <3>1, <3>2, <3>3
    <2>3. UNCHANGED <<code, idle, pc, dr, fd>>
      BY DEF RetireOther, RetireJump
    <2>4. QED
      BY <1>3, <1>4, <2>1, <2>2, <2>3 DEF FenceInv, TypeOK
  <1>6. FenceInRob'
    <2>1. \A k \in 1 .. Len(rob') : rob'[k] = rob[k + 1] /\ k + 1 \in 1 .. Len(rob)
      BY <1>1, <1>2
    <2>2. QED
      BY <1>1, <1>3, <2>1 DEF FenceInv, FenceInRob, IsFence
  <1>7. FenceInDr' /\ FenceInFd'
    BY <1>1 DEF FenceInv, FenceInDr, FenceInFd, RetireOther, RetireJump, IsFence
  <1>8. EmptyRob' /\ EmptyDr' /\ EmptyCore'
    BY <1>4 DEF EmptyRob, EmptyDr, EmptyCore
  <1>9. DrFits'
    BY DEF FenceInv, DrFits, RetireOther, RetireJump, Committing, EndCommit
  <1>10. QED
    BY <1>5, <1>6, <1>7, <1>8, <1>9 DEF FenceInv

(* A trap only removes instructions.                                        *)
LEMMA TrapFence ==
    ASSUME FenceInv, Trap \/ WalkBack
    PROVE  FenceInv'
  <1>1. rob' = rob \/ rob' = << >>
    BY DEF Trap, WalkBack
  <1>2. feedback' \in Feedback /\ feedback'.enable
    BY PcInRange DEF FenceInv, TypeOK, Trap, WalkBack, Feedback, NoFeedback, Mtvec
  <1>3. stage' = "rename" /\ UNCHANGED <<code, idle, pc, fd, dr, stores, popped>> /\ slot' \in Nat
    BY DEF FenceInv, TypeOK, Trap, WalkBack
  <1>4. TypeOK'
    BY <1>1, <1>2, <1>3, EmptySeq DEF FenceInv, TypeOK
  <1>5. FenceInRob' /\ FenceInDr' /\ FenceInFd'
    BY <1>1, <1>3 DEF FenceInv, FenceInRob, FenceInDr, FenceInFd, IsFence
  <1>6. EmptyRob' /\ EmptyDr' /\ EmptyCore'
    BY <1>2 DEF EmptyRob, EmptyDr, EmptyCore
  <1>7. QED
    BY <1>3, <1>4, <1>5, <1>6 DEF FenceInv, DrFits

(* Commit reports that it has nothing to do only when the ROB is empty.     *)
LEMMA RetireEndsFence ==
    ASSUME FenceInv, RetireEnds
    PROVE  FenceInv'
  <1>1. feedback' \in Feedback /\ (rob # << >> => feedback'.enable)
    BY DEF FenceInv, TypeOK, RetireEnds, Feedback
  <1>2. TypeOK'
    BY <1>1 DEF FenceInv, TypeOK, RetireEnds, EndCommit
  <1>3. FenceInRob' /\ FenceInDr' /\ FenceInFd'
    BY DEF FenceInv, FenceInRob, FenceInDr, FenceInFd, IsFence, RetireEnds
  <1>4. EmptyRob' /\ EmptyDr' /\ EmptyCore'
    BY <1>1 DEF RetireEnds, EndCommit, EmptyRob, EmptyDr, EmptyCore
  <1>5. QED
    BY <1>2, <1>3, <1>4 DEF FenceInv, DrFits, RetireEnds, EndCommit

(* A result changes no instruction's kind.                                  *)
LEMMA InputFence ==
    ASSUME FenceInv, HandleInput
    PROVE  FenceInv'
  <1> DEFINE SameKinds == /\ rob' \in Seq(Entry) /\ Len(rob') = Len(rob)
                          /\ \A k \in 1 .. Len(rob) : rob'[k].kind = rob[k].kind
  <1>1. SameKinds
    <2>1. CASE rob' = rob
      BY <2>1 DEF FenceInv, TypeOK
    <2>2. ASSUME NEW k \in 1 .. Len(rob), NEW jump \in BOOLEAN, NEW target \in PC,
                 Finish(k, jump, target)
          PROVE  SameKinds
      <3> DEFINE e == [rob[k] EXCEPT !.finish = TRUE, !.jump = jump, !.target = target]
      <3>1. rob[k] \in Entry /\ rob \in Seq(Entry)
        BY <2>2, ElementOfSeq DEF FenceInv, TypeOK
      <3>2. e \in Entry /\ e.kind = rob[k].kind
        BY <2>2, <3>1 DEF Entry
      <3>3. rob' = [rob EXCEPT ![k] = e]
        BY <2>2, <3>1 DEF Finish, Entry
      <3>4. QED
        BY <3>1, <3>2, <3>3, ExceptSeq
    <2>3. QED
      BY <2>1, <2>2 DEF HandleInput
  <1>2. TypeOK'
    BY <1>1 DEF FenceInv, TypeOK, HandleInput
  <1>3. rob = << >> <=> rob' = << >>
    BY <1>1 DEF FenceInv, TypeOK
  <1>4. FenceInRob' /\ FenceInDr' /\ FenceInFd'
    BY <1>1, <1>3 DEF FenceInv, FenceInRob, FenceInDr, FenceInFd, IsFence, HandleInput
  <1>5. EmptyRob' /\ EmptyDr' /\ EmptyCore'
    BY <1>3 DEF FenceInv, EmptyRob, EmptyDr, EmptyCore, HandleInput
  <1>6. QED
    BY <1>2, <1>4, <1>5 DEF FenceInv, DrFits, HandleInput

(* The two parts a queue is split into when its first n entries are taken.  *)
LEMMA Split ==
    ASSUME NEW q \in Seq(Entry), NEW n \in 0 .. Len(q)
    PROVE  /\ SubSeq(q, 1, n) \in Seq(Entry) /\ Len(SubSeq(q, 1, n)) = n
           /\ \A k \in 1 .. n : SubSeq(q, 1, n)[k] = q[k]
           /\ SubSeq(q, n + 1, Len(q)) \in Seq(Entry)
           /\ Len(SubSeq(q, n + 1, Len(q))) = Len(q) - n
           /\ \A k \in 1 .. Len(q) - n : SubSeq(q, n + 1, Len(q))[k] = q[n + k]
  <1>1. Len(q) \in Nat /\ \A k \in 1 .. Len(q) : q[k] \in Entry
    BY LenProperties, ElementOfSeq
  <1>2. QED
    BY <1>1, SubSeqProperties

(* Moving the first n entries of one queue behind another.                  *)
LEMMA Move ==
    ASSUME NEW p \in Seq(Entry), NEW q \in Seq(Entry), NEW n \in 0 .. Len(q)
    PROVE  LET moved == p \o SubSeq(q, 1, n) IN
           /\ moved \in Seq(Entry) /\ Len(moved) = Len(p) + n
           /\ \A k \in 1 .. Len(p) : moved[k] = p[k]
           /\ \A k \in 1 .. n : moved[Len(p) + k] = q[k]
           /\ n = 0 => moved = p
  <1>1. SubSeq(q, 1, n) \in Seq(Entry) /\ Len(SubSeq(q, 1, n)) = n
        /\ \A k \in 1 .. n : SubSeq(q, 1, n)[k] = q[k]
    BY Split
  <1>2. Len(p) \in Nat
    BY LenProperties
  <1>3. QED
    BY <1>1, <1>2, ConcatProperties, ConcatEmptySeq, SubSeqEmpty

(* Rename takes a fence.i only into an empty ROB, where it becomes first.   *)
LEMMA RenameFence ==
    ASSUME FenceInv, Rename
    PROVE  FenceInv'
  <1>1. PICK n \in 0 .. RenameWidth :
            /\ n <= Len(dr)
            /\ rob' = rob \o SubSeq(dr, 1, n)
            /\ dr' = SubSeq(dr, n + 1, Len(dr))
            /\ popped' = [popped EXCEPT !.dr = n]
    BY DEF Rename
  <1>2. n \in 0 .. Len(dr) /\ Len(dr) \in Nat /\ Len(rob) \in Nat /\ rob \in Seq(Entry) /\ dr \in Seq(Entry)
    BY <1>1, SizesAssumption, LenProperties DEF FenceInv, TypeOK
  <1>3. /\ rob' \in Seq(Entry) /\ Len(rob') = Len(rob) + n
        /\ \A k \in 1 .. Len(rob) : rob'[k] = rob[k]
        /\ \A k \in 1 .. n : rob'[Len(rob) + k] = dr[k]
        /\ n = 0 => rob' = rob
    BY <1>1, <1>2, Move
  <1>4. /\ dr' \in Seq(Entry) /\ Len(dr') = Len(dr) - n
        /\ \A k \in 1 .. Len(dr) - n : dr'[k] = dr[n + k]
    BY <1>1, <1>2, Split
  <1>5. UNCHANGED <<code, slot, stores, feedback, pc, fd>> /\ stage' = "decode"
        /\ idle' = [idle EXCEPT !.rename = (dr = << >>)]
    BY DEF Rename
  <1>6. TypeOK' /\ DrFits'
    <2>1. popped' \in [fd : Nat, dr : Nat, rob : Nat, cp : Nat] /\ popped'.dr = n
      <3>1. popped \in [fd : Nat, dr : Nat, rob : Nat, cp : Nat]
        BY DEF FenceInv, TypeOK
      <3>2. n \in Nat
        BY <1>2
      <3>3. QED
        BY <1>1, <3>1, <3>2, PoppedTyped
    <2>2. idle' \in [decode : BOOLEAN, rename : BOOLEAN]
      BY <1>5 DEF FenceInv, TypeOK
    <2>3. TypeOK'
      BY <1>3, <1>4, <1>5, <2>1, <2>2 DEF FenceInv, TypeOK
    <2>4. DrFits'
      BY <1>2, <1>4, <2>1, SizesAssumption, SMTT(30) DEF FenceInv, DrFits
    <2>5. QED
      BY <2>3, <2>4
  <1>7. dr = << >> => n = 0 /\ rob' = rob /\ dr' = << >>
    BY <1>2, <1>3, <1>4, EmptySeq
  <1>8. FenceInRob'
    <2> SUFFICES ASSUME NEW k \in 1 .. Len(rob'), IsFence(rob', k)
                 PROVE  k = 1 /\ stores = 0
      BY <1>5 DEF FenceInRob, IsFence
    <2>1. CASE k <= Len(rob)
      BY <2>1, <1>2, <1>3, SMTT(30) DEF FenceInv, FenceInRob, IsFence
    <2>2. CASE k > Len(rob)
      <3>1. k - Len(rob) \in 1 .. n /\ Len(rob) + (k - Len(rob)) = k
        BY <2>2, <1>2, <1>3
      <3>2. IsFence(dr, k - Len(rob)) /\ k - Len(rob) \in 1 .. Len(dr)
        BY <3>1, <1>2, <1>3 DEF IsFence
      <3>3. k - Len(rob) = 1 /\ stores = 0 /\ rob = << >>
        BY <3>2 DEF FenceInv, FenceInDr
      <3>4. QED
        BY <3>3, <1>2, EmptySeq
    <2>3. QED
      BY <2>1, <2>2, <1>2, <1>3
  <1>9. FenceInDr'
    <2> SUFFICES ASSUME NEW k \in 1 .. Len(dr'), IsFence(dr', k)
                 PROVE  k = 1 /\ stores = 0 /\ rob' = << >>
      BY <1>5 DEF FenceInDr, IsFence
    <2>1. n + k \in 1 .. Len(dr) /\ IsFence(dr, n + k)
      BY <1>2, <1>4 DEF IsFence
    <2>2. n + k = 1 /\ stores = 0 /\ rob = << >>
      BY <2>1 DEF FenceInv, FenceInDr
    <2>3. QED
      BY <2>2, <1>2, <1>3, <1>4
  <1>10. FenceInFd'
    BY <1>5, <1>7 DEF FenceInv, FenceInFd, IsFence
  <1>11. EmptyRob' /\ EmptyDr' /\ EmptyCore'
    BY <1>5, <1>7 DEF FenceInv, TypeOK, EmptyRob, EmptyDr, EmptyCore, Rename
  <1>12. QED
    BY <1>6, <1>8, <1>9, <1>10, <1>11 DEF FenceInv

(* Decode moves a fence.i only when ROB and queue before it are empty.      *)
LEMMA DecodeFence ==
    ASSUME FenceInv, Decode
    PROVE  FenceInv'
  <1>1. stage = "decode" /\ stage' = "fetch" /\ UNCHANGED <<code, slot, stores, feedback, pc, rob>>
        /\ idle' = [idle EXCEPT !.decode = (fd = << >>)]
    BY DEF Decode
  <1>2. rob \in Seq(Entry) /\ dr \in Seq(Entry) /\ fd \in Seq(Entry) /\ Len(dr) \in Nat /\ Len(fd) \in Nat
    BY LenProperties DEF FenceInv, TypeOK
  <1>3. CASE feedback.flush
    <2>1. dr' = << >> /\ UNCHANGED <<fd, popped>>
      BY <1>3 DEF Decode
    <2>2. TypeOK' /\ DrFits'
      <3>1. idle' \in [decode : BOOLEAN, rename : BOOLEAN]
        BY <1>1 DEF FenceInv, TypeOK
      <3>2. TypeOK'
        BY <1>1, <2>1, <3>1, EmptySeq DEF FenceInv, TypeOK
      <3>3. DrFits'
        BY <1>1, <2>1, EmptySeq, SizesAssumption DEF DrFits
      <3>4. QED
        BY <3>2, <3>3
    <2>3. FenceInRob' /\ FenceInDr' /\ FenceInFd'
      BY <1>1, <2>1 DEF FenceInv, FenceInRob, FenceInDr, FenceInFd, IsFence
    <2>4. EmptyRob' /\ EmptyDr' /\ EmptyCore'
      BY <1>1, <2>1 DEF FenceInv, TypeOK, EmptyRob, EmptyDr, EmptyCore
    <2>5. QED
      BY <2>2, <2>3, <2>4 DEF FenceInv
  <1>4. CASE ~feedback.flush
    <2> DEFINE n == Smallest(Smallest(DecodeWidth, Len(fd)), DecodeSize - (Len(dr) + popped.dr))
    <2>1. /\ dr' = dr \o SubSeq(fd, 1, n)
          /\ fd' = SubSeq(fd, n + 1, Len(fd))
          /\ popped' = [popped EXCEPT !.fd = n]
      BY <1>4 DEF Decode
    <2>2. n \in 0 .. Len(fd) /\ Len(dr) + n <= DecodeSize
      <3>1. popped.dr \in Nat /\ Len(dr) + popped.dr <= DecodeSize
        BY <1>1 DEF FenceInv, TypeOK, DrFits
      <3>2. DecodeWidth \in Nat /\ DecodeSize \in Nat
        BY SizesAssumption
      <3>3. QED
        BY <1>2, <3>1, <3>2 DEF Smallest
    <2> HIDE DEF n
    <2>3. /\ dr' \in Seq(Entry) /\ Len(dr') = Len(dr) + n
          /\ \A k \in 1 .. Len(dr) : dr'[k] = dr[k]
          /\ \A k \in 1 .. n : dr'[Len(dr) + k] = fd[k]
          /\ n = 0 => dr' = dr
      BY <1>2, <2>1, <2>2, Move
    <2>4. /\ fd' \in Seq(Entry) /\ Len(fd') = Len(fd) - n
          /\ \A k \in 1 .. Len(fd) - n : fd'[k] = fd[n + k]
      BY <1>2, <2>1, <2>2, Split
    <2>5. TypeOK' /\ DrFits'
      <3>1. idle' \in [decode : BOOLEAN, rename : BOOLEAN]
        BY <1>1 DEF FenceInv, TypeOK
      <3>2. popped' \in [fd : Nat, dr : Nat, rob : Nat, cp : Nat]
        <4>1. popped \in [fd : Nat, dr : Nat, rob : Nat, cp : Nat]
          BY DEF FenceInv, TypeOK
        <4>2. n \in Nat
          BY <1>2, <2>2
        <4>3. QED
          BY <2>1, <4>1, <4>2, PoppedTyped
      <3>3. TypeOK'
        BY <1>1, <2>3, <2>4, <3>1, <3>2 DEF FenceInv, TypeOK
      <3>4. DrFits'
        BY <1>1, <2>2, <2>3 DEF DrFits
      <3>5. QED
        BY <3>3, <3>4
    <2>6. fd = << >> => dr' = dr /\ fd' = << >>
      BY <1>2, <2>2, <2>3, <2>4, EmptySeq
    <2>7. FenceInRob'
      BY <1>1 DEF FenceInv, FenceInRob, IsFence
    <2>8. FenceInDr'
      <3> SUFFICES ASSUME NEW k \in 1 .. Len(dr'), IsFence(dr', k)
                   PROVE  k = 1 /\ stores = 0 /\ rob = << >>
        BY <1>1 DEF FenceInDr, IsFence
      <3>1. CASE k <= Len(dr)
        BY <3>1, <1>2, <2>3 DEF FenceInv, FenceInDr, IsFence
      <3>2. CASE k > Len(dr)
        <4>1. k - Len(dr) \in 1 .. n /\ Len(dr) + (k - Len(dr)) = k
          BY <3>2, <1>2, <2>2, <2>3
        <4>2. IsFence(fd, k - Len(dr)) /\ k - Len(dr) \in 1 .. Len(fd)
          BY <4>1, <2>2, <2>3 DEF IsFence
        <4>3. k - Len(dr) = 1 /\ stores = 0 /\ rob = << >> /\ dr = << >>
          BY <4>2 DEF FenceInv, FenceInFd
        <4>4. QED
          BY <4>3, <1>2, EmptySeq
      <3>3. QED
        BY <3>1, <3>2, <1>2, <2>2, <2>3
    <2>9. FenceInFd'
      <3> SUFFICES ASSUME NEW k \in 1 .. Len(fd'), IsFence(fd', k)
                   PROVE  k = 1 /\ stores = 0 /\ rob = << >> /\ dr' = << >>
        BY <1>1 DEF FenceInFd, IsFence
      <3>1. n + k \in 1 .. Len(fd) /\ IsFence(fd, n + k)
        BY <1>2, <2>2, <2>4 DEF IsFence
      <3>2. n + k = 1 /\ stores = 0 /\ rob = << >> /\ dr = << >>
        BY <3>1 DEF FenceInv, FenceInFd
      <3>3. QED
        BY <3>2, <2>2, <2>3, <2>4
    <2>10. EmptyRob' /\ EmptyDr' /\ EmptyCore'
      BY <1>1, <2>6 DEF FenceInv, TypeOK, EmptyRob, EmptyDr, EmptyCore
    <2>11. QED
      BY <2>5, <2>7, <2>8, <2>9, <2>10 DEF FenceInv
  <1>5. QED
    BY <1>3, <1>4 DEF FenceInv, TypeOK, Feedback

(* What a fetched instruction carries.                                      *)
LEMMA FetchedTyped ==
    ASSUME TypeOK, NEW jump \in BOOLEAN, NEW target \in PC
    PROVE  /\ Fetched \in Entry /\ Fetched.kind = code[pc]
           /\ LET e == [Fetched EXCEPT !.predicted = TRUE, !.predicted_jump = jump,
                                       !.predicted_target = target]
              IN  e \in Entry /\ e.kind = code[pc]
  <1>1. pc \in PC /\ code[pc] \in Kinds /\ 0 \in PC
    BY PcInRange DEF TypeOK
  <1>2. Fetched \in Entry /\ Fetched.kind = code[pc]
    BY <1>1 DEF Fetched, Entry
  <1> HIDE DEF Fetched
  <1>3. QED
    BY <1>2 DEF Entry

(* Fetch adds at most one entry, and a fence.i only to an empty core.       *)
LEMMA FetchFence ==
    ASSUME FenceInv, Fetch
    PROVE  FenceInv'
  <1>1. /\ UNCHANGED <<code, feedback, idle, dr, popped, rob, stores>>
        /\ stage = "fetch" /\ stage' \in {"fetch", "sync"}
        /\ slot' \in Nat /\ (stage' = "fetch" => slot' # 0)
    <2>1. slot \in Nat
      BY DEF FenceInv, TypeOK
    <2>2. /\ UNCHANGED <<code, feedback, idle, dr, popped, rob, stores>> /\ stage = "fetch"
          /\ \/ stage' = "fetch" /\ slot' = slot + 1
             \/ stage' = "sync" /\ slot' = 0
      BY DEF Fetch, FetchPlain, FetchPredicted, FetchUnpredicted, FenceIWaits, FetchEnds,
             FetchWaits, FetchFlush, Fetching, EndFetch
    <2>3. QED
      BY <2>1, <2>2
  <1>2. pc' \in PC
    <2>1. pc \in PC /\ feedback.next_pc \in PC /\ Plus4(pc) \in PC
      BY PcInRange DEF FenceInv, TypeOK, Feedback
    <2>2. QED
      BY <2>1 DEF Fetch, FetchPlain, FetchPredicted, FetchUnpredicted, FenceIWaits, FetchEnds,
                  FetchWaits, FetchFlush
  <1>3. TypeOK
    BY DEF FenceInv
  <1>4. fd \in Seq(Entry) /\ rob \in Seq(Entry) /\ stores \in Nat
    BY <1>3 DEF TypeOK
  <1>5. \/ fd' = fd
        \/ fd' = << >>
        \/ \E e \in Entry :
              /\ fd' = Append(fd, e)
              /\ e.kind = "fence_i" => ~FenceIBlocked
    <2>1. CASE FetchPlain
      BY <2>1, <1>3, FetchedTyped, PcInRange DEF FetchPlain
    <2>2. CASE FetchPredicted
      <3>1. PICK jump \in BOOLEAN, target \in PC :
               fd' = Append(fd, [Fetched EXCEPT !.predicted = TRUE, !.predicted_jump = jump,
                                                !.predicted_target = target])
        BY <2>2 DEF FetchPredicted
      <3>2. code[pc] = "jump"
        BY <2>2 DEF FetchPredicted
      <3> DEFINE e == [Fetched EXCEPT !.predicted = TRUE, !.predicted_jump = jump,
                                      !.predicted_target = target]
      <3>3. e \in Entry /\ e.kind = "jump"
        BY <3>2, <1>3, FetchedTyped
      <3> HIDE DEF e
      <3>4. fd' = Append(fd, e)
        BY <3>1 DEF e
      <3>5. QED
        BY <3>3, <3>4
    <2>3. CASE FetchUnpredicted
      <3>1. code[pc] = "jump" /\ fd' = Append(fd, Fetched)
        BY <2>3 DEF FetchUnpredicted
      <3>2. Fetched \in Entry /\ Fetched.kind = "jump"
        BY <3>1, <1>3, FetchedTyped, PcInRange
      <3>3. QED
        BY <3>1, <3>2
    <2>4. CASE FenceIWaits \/ FetchEnds \/ FetchWaits \/ FetchFlush
      BY <2>4 DEF FenceIWaits, FetchEnds, FetchWaits, FetchFlush
    <2>5. QED
      BY <2>1, <2>2, <2>3, <2>4 DEF Fetch
  <1>6. ~FenceIBlocked => rob = << >> /\ dr = << >> /\ fd = << >> /\ stores = 0
    <2> SUFFICES ASSUME ~FenceIBlocked
                 PROVE  rob = << >> /\ dr = << >> /\ fd = << >> /\ stores = 0
      OBVIOUS
    <2>1. rob = << >> /\ dr = << >> /\ fd = << >>
      BY <1>1 DEF FenceIBlocked, FenceInv, EmptyCore
    <2>2. {k \in 1 .. Len(rob) : rob[k].kind = "store" /\ rob[k].finish} = {}
      BY <2>1, EmptySeq
    <2>3. StoresBuffered = stores + 0
      BY <2>2, FS_EmptySet DEF StoresBuffered
    <2>4. QED
      BY <2>1, <2>3, <1>4 DEF FenceIBlocked
  <1>7. fd' \in Seq(Entry) /\ FenceInFd'
    <2>1. CASE fd' = fd
      BY <2>1, <1>1, <1>4 DEF FenceInv, FenceInFd, IsFence
    <2>2. CASE fd' = << >>
      BY <2>2, EmptySeq DEF FenceInFd, IsFence
    <2>3. ASSUME NEW e \in Entry, fd' = Append(fd, e), e.kind = "fence_i" => ~FenceIBlocked
          PROVE  fd' \in Seq(Entry) /\ FenceInFd'
      <3>1. /\ fd' \in Seq(Entry) /\ Len(fd') = Len(fd) + 1 /\ Len(fd) \in Nat
            /\ \A k \in 1 .. Len(fd) : fd'[k] = fd[k]
            /\ fd'[Len(fd) + 1] = e
        BY <2>3, <1>4, AppendProperties, LenProperties
      <3>2. ASSUME NEW k \in 1 .. Len(fd'), IsFence(fd', k)
            PROVE  k = 1 /\ stores = 0 /\ rob = << >> /\ dr = << >>
        <4>1. CASE k <= Len(fd)
          BY <4>1, <3>1, <3>2 DEF FenceInv, FenceInFd, IsFence
        <4>2. CASE k = Len(fd) + 1
          <5>1. rob = << >> /\ dr = << >> /\ fd = << >> /\ stores = 0
            BY <4>2, <3>1, <3>2, <2>3, <1>6 DEF IsFence
          <5>2. QED
            BY <4>2, <5>1, EmptySeq
        <4>3. QED
          BY <4>1, <4>2, <3>1
      <3>3. QED
        BY <3>1, <3>2, <1>1 DEF FenceInFd, IsFence
    <2>4. QED
      BY <1>5, <2>1, <2>2, <2>3
  <1>8. TypeOK'
    BY <1>1, <1>2, <1>7, <1>3 DEF TypeOK
  <1>9. FenceInRob' /\ FenceInDr'
    BY <1>1 DEF FenceInv, FenceInRob, FenceInDr, IsFence
  <1>10. EmptyRob' /\ EmptyDr' /\ EmptyCore' /\ DrFits'
    BY <1>1 DEF FenceInv, EmptyRob, EmptyDr, EmptyCore, DrFits
  <1>11. QED
    BY <1>7, <1>8, <1>9, <1>10 DEF FenceInv

(* The end of the pass writes at most one store.                            *)
LEMMA SyncFence ==
    ASSUME FenceInv, Sync
    PROVE  FenceInv'
  <1>1. UNCHANGED <<code, slot, pc, fd, dr, rob>> /\ stage' = "commit"
        /\ feedback' = NoFeedback /\ idle' = NotIdle /\ popped' = NonePopped
    BY DEF Sync
  <1>2. stores' \in Nat /\ (stores = 0 => stores' = 0)
    BY DEF FenceInv, TypeOK, Sync
  <1>3. TypeOK'
    <2>1. feedback' \in Feedback
      BY <1>1, PcInRange DEF NoFeedback, Feedback
    <2>2. idle' \in [decode : BOOLEAN, rename : BOOLEAN]
          /\ popped' \in [fd : Nat, dr : Nat, rob : Nat, cp : Nat]
      BY <1>1 DEF NotIdle, NonePopped
    <2>3. QED
      BY <1>1, <1>2, <2>1, <2>2 DEF FenceInv, TypeOK
  <1>4. FenceInRob' /\ FenceInDr' /\ FenceInFd'
    BY <1>1, <1>2 DEF FenceInv, FenceInRob, FenceInDr, FenceInFd, IsFence
  <1>5. EmptyRob' /\ EmptyDr' /\ EmptyCore' /\ DrFits'
    BY <1>1 DEF FenceInv, EmptyRob, EmptyDr, EmptyCore, DrFits
  <1>6. QED
    BY <1>3, <1>4, <1>5 DEF FenceInv

LEMMA StepFence == FenceInv /\ [Next]_vars => FenceInv'
  <1> SUFFICES ASSUME FenceInv, [Next]_vars PROVE FenceInv'
    OBVIOUS
  <1>1. CASE RetireOther \/ RetireJump
    BY <1>1, RetireFence
  <1>2. CASE Trap \/ WalkBack
    BY <1>2, TrapFence
  <1>3. CASE RetireEnds
    BY <1>3, RetireEndsFence
  <1>4. CASE HandleInput
    BY <1>4, InputFence
  <1>5. CASE Rename
    BY <1>5, RenameFence
  <1>6. CASE Decode
    BY <1>6, DecodeFence
  <1>7. CASE Fetch
    BY <1>7, FetchFence
  <1>8. CASE Sync
    BY <1>8, SyncFence
  <1>9. CASE UNCHANGED vars
    BY <1>9 DEF vars, FenceInv, TypeOK, DrFits, FenceInRob, FenceInDr, FenceInFd, IsFence,
                EmptyRob, EmptyDr, EmptyCore
  <1>10. QED
    BY <1>1, <1>2, <1>3, <1>4, <1>5, <1>6, <1>7, <1>8, <1>9 DEF Next

(* The three places a fence.i can be in, put together.                      *)
LEMMA FenceInvOrdered == FenceInv => FenceIOrdered
  <1> SUFFICES ASSUME FenceInv, NEW k \in 1 .. Len(InFlight), InFlight[k].kind = "fence_i"
               PROVE  k = 1 /\ stores = 0
    BY DEF FenceIOrdered
  <1>1. rob \in Seq(Entry) /\ dr \in Seq(Entry) /\ fd \in Seq(Entry)
    BY DEF FenceInv, TypeOK
  <1>2. Len(rob) \in Nat /\ Len(dr) \in Nat /\ Len(fd) \in Nat
    BY <1>1, LenProperties
  <1> DEFINE q == rob \o dr
  <1>3. /\ q \in Seq(Entry) /\ Len(q) = Len(rob) + Len(dr)
        /\ \A j \in 1 .. Len(rob) : q[j] = rob[j]
        /\ \A j \in 1 .. Len(dr) : q[Len(rob) + j] = dr[j]
    BY <1>1, <1>2, ConcatProperties
  <1>4. InFlight = q \o fd
    BY DEF InFlight
  <1> HIDE DEF q
  <1>5. /\ Len(InFlight) = Len(q) + Len(fd)
        /\ \A j \in 1 .. Len(q) : InFlight[j] = q[j]
        /\ \A j \in 1 .. Len(fd) : InFlight[Len(q) + j] = fd[j]
    <2>1. q \in Seq(Entry) /\ fd \in Seq(Entry) /\ Len(q) \in Nat /\ Len(fd) \in Nat
      BY <1>1, <1>2, <1>3
    <2>2. /\ Len(q \o fd) = Len(q) + Len(fd)
          /\ \A j \in 1 .. Len(q) : (q \o fd)[j] = q[j]
          /\ \A j \in 1 .. Len(fd) : (q \o fd)[Len(q) + j] = fd[j]
      BY <2>1, ConcatProperties
    <2>3. QED
      BY <1>4, <2>2, Zenon
  <1>6. CASE k <= Len(rob)
    BY <1>6, <1>2, <1>3, <1>5 DEF FenceInv, FenceInRob, IsFence
  <1>7. CASE k > Len(rob) /\ k <= Len(q)
    <2>1. k - Len(rob) \in 1 .. Len(dr) /\ Len(rob) + (k - Len(rob)) = k
      BY <1>7, <1>2, <1>3
    <2>2. IsFence(dr, k - Len(rob))
      BY <2>1, <1>2, <1>3, <1>5, <1>7 DEF IsFence
    <2>3. k - Len(rob) = 1 /\ stores = 0 /\ rob = << >>
      BY <2>1, <2>2 DEF FenceInv, FenceInDr
    <2>4. QED
      BY <2>3, EmptySeq
  <1>8. CASE k > Len(q)
    <2>1. k - Len(q) \in 1 .. Len(fd) /\ Len(q) + (k - Len(q)) = k
      BY <1>8, <1>2, <1>3, <1>5
    <2>2. IsFence(fd, k - Len(q))
      BY <2>1, <1>5 DEF IsFence
    <2>3. k - Len(q) = 1 /\ stores = 0 /\ rob = << >> /\ dr = << >>
      BY <2>1, <2>2 DEF FenceInv, FenceInFd
    <2>4. QED
      BY <2>3, <1>3, EmptySeq
  <1>9. QED
    BY <1>6, <1>7, <1>8, <1>2, <1>3, <1>5

(* A fence.i that fetch lets into the pipeline is the oldest instruction in *)
(* the core as long as it is there, and no retired store waits in the store *)
(* buffer: the three tests of fetch, made on reports from three moments of  *)
(* the pass, are enough for every program and every size.                   *)
THEOREM FenceISafe == Spec => []FenceIOrdered
  <1>1. FenceInv => FenceIOrdered
    BY FenceInvOrdered
  <1>2. QED
    BY <1>1, InitFence, StepFence, PTL DEF Spec

-----------------------------------------------------------------------------
(* PathExact of a sequence q of instructions behind which fetch goes on at  *)
(* p or waits (w), when the program executes a next; only a jump carries a  *)
(* prediction.                                                              *)
PathOf(q, p, w, a) ==
    /\ (IF Len(q) = 0 THEN p ELSE q[1].pc) = a
    /\ \A k \in 1 .. Len(q) : (IF k = Len(q) THEN p ELSE q[k + 1].pc) = FollowedBy(q[k])
    /\ \A k \in 1 .. Len(q) : q[k].kind = "jump" /\ ~q[k].predicted => k = Len(q) /\ w
    /\ \A k \in 1 .. Len(q) : q[k].kind # "jump" => ~q[k].predicted
    /\ w => Len(q) > 0 /\ q[Len(q)].kind = "jump" /\ ~q[Len(q)].predicted

(* No correction is under way: the path is exact after every step.          *)
Following == ~trap /\ ~feedback.flush /\ ~feedback.jump_enable
OnPath == Following => PathOf(InFlight, pc, jump_wait, arch)

(* The jump fetch waits for has retired and nothing is behind it: fetch     *)
(* goes on where the program does once it has seen the feedback.            *)
Resuming == ~trap /\ ~feedback.flush /\ feedback.jump_enable
AfterJump ==
    Resuming =>
       /\ rob = << >> /\ dr = << >> /\ fd = << >>
       /\ stage # "sync" => /\ jump_wait
                            /\ (IF feedback.jump THEN feedback.next_pc ELSE pc) = arch
       /\ stage = "sync" => ~jump_wait /\ pc = arch

(* A wrong prediction or a trap has emptied the ROB: the younger            *)
(* instructions disappear when decode and fetch see the flush, and fetch    *)
(* goes on where the program does.                                          *)
Flushing == ~trap /\ feedback.flush
AfterFlush ==
    Flushing =>
       /\ rob = << >>
       /\ feedback.has_exception \/ feedback.jump_enable
       /\ feedback.next_pc = arch
       /\ stage \in {"fetch", "sync"} => dr = << >>
       /\ stage = "sync" => fd = << >> /\ ~jump_wait /\ pc = arch

(* Feedback is what commit said in this pass, and a walk back flushes in    *)
(* every pass.                                                              *)
FeedbackOfPass ==
    /\ stage = "commit" => ~feedback.flush /\ ~feedback.jump_enable
    /\ feedback.flush => stage # "input"
    /\ trap /\ stage # "commit" => feedback.flush

PathInv == jump_wait \in BOOLEAN /\ OnPath /\ AfterJump /\ AfterFlush /\ FeedbackOfPass

-----------------------------------------------------------------------------
(* Paths.                                                                   *)
LEMMA PathEmpty ==
    ASSUME NEW p
    PROVE  PathOf(<< >>, p, FALSE, p)
  BY EmptySeq DEF PathOf

(* The first instruction leaves: the path goes on behind it.                *)
LEMMA PathTail ==
    ASSUME NEW q \in Seq(Entry), q # << >>, NEW p, NEW w \in BOOLEAN, NEW a,
           PathOf(q, p, w, a), ~(q[1].kind = "jump" /\ ~q[1].predicted)
    PROVE  PathOf(Tail(q), p, w, FollowedBy(q[1]))
  <1> DEFINE t == Tail(q)
  <1>1. /\ t \in Seq(Entry) /\ Len(t) = Len(q) - 1 /\ Len(q) \in Nat /\ Len(q) > 0
        /\ \A k \in 1 .. Len(t) : t[k] = q[k + 1]
    BY HeadTailProperties, LenProperties, EmptySeq
  <1> HIDE DEF t
  <1>2. (IF Len(t) = 0 THEN p ELSE t[1].pc) = FollowedBy(q[1])
    BY <1>1 DEF PathOf
  <1>3. ASSUME NEW k \in 1 .. Len(t)
        PROVE  /\ (IF k = Len(t) THEN p ELSE t[k + 1].pc) = FollowedBy(t[k])
               /\ t[k].kind = "jump" /\ ~t[k].predicted => k = Len(t) /\ w
               /\ t[k].kind # "jump" => ~t[k].predicted
    <2>1. k + 1 \in 1 .. Len(q) /\ t[k] = q[k + 1] /\ (k + 1 = Len(q) <=> k = Len(t))
          /\ (k # Len(t) => t[k + 1] = q[k + 2])
      BY <1>1
    <2>2. /\ (IF k + 1 = Len(q) THEN p ELSE q[(k + 1) + 1].pc) = FollowedBy(q[k + 1])
          /\ q[k + 1].kind = "jump" /\ ~q[k + 1].predicted => k + 1 = Len(q) /\ w
          /\ q[k + 1].kind # "jump" => ~q[k + 1].predicted
      BY <2>1 DEF PathOf
    <2>3. QED
      BY <2>1, <2>2
  <1>4. w => Len(t) > 0 /\ t[Len(t)].kind = "jump" /\ ~t[Len(t)].predicted
    BY <1>1 DEF PathOf
  <1>5. PathOf(t, p, w, FollowedBy(q[1]))
    BY <1>2, <1>3, <1>4 DEF PathOf
  <1>6. QED
    BY <1>5 DEF t

(* Fetch, which does not wait, adds the instruction at pc.                  *)
LEMMA PathAppend ==
    ASSUME NEW q \in Seq(Entry), NEW p, NEW a, NEW e \in Entry,
           PathOf(q, p, FALSE, a), e.pc = p, e.kind # "jump" => ~e.predicted
    PROVE  PathOf(Append(q, e), FollowedBy(e), e.kind = "jump" /\ ~e.predicted, a)
  <1> DEFINE t == Append(q, e)
             w == e.kind = "jump" /\ ~e.predicted
  <1>1. /\ t \in Seq(Entry) /\ Len(t) = Len(q) + 1 /\ Len(q) \in Nat
        /\ \A k \in 1 .. Len(q) : t[k] = q[k]
        /\ t[Len(q) + 1] = e
    BY AppendProperties, LenProperties
  <1> HIDE DEF t
  <1>2. (IF Len(t) = 0 THEN FollowedBy(e) ELSE t[1].pc) = a
    BY <1>1 DEF PathOf
  <1>3. ASSUME NEW k \in 1 .. Len(t)
        PROVE  /\ (IF k = Len(t) THEN FollowedBy(e) ELSE t[k + 1].pc) = FollowedBy(t[k])
               /\ t[k].kind = "jump" /\ ~t[k].predicted => k = Len(t) /\ w
               /\ t[k].kind # "jump" => ~t[k].predicted
    <2>1. CASE k = Len(q) + 1
      BY <2>1, <1>1
    <2>2. CASE k \in 1 .. Len(q)
      <3>1. /\ (IF k = Len(q) THEN p ELSE q[k + 1].pc) = FollowedBy(q[k])
            /\ ~(q[k].kind = "jump" /\ ~q[k].predicted)
            /\ q[k].kind # "jump" => ~q[k].predicted
        BY <2>2 DEF PathOf
      <3>2. t[k + 1].pc = FollowedBy(q[k]) /\ k # Len(t) /\ t[k] = q[k]
        BY <3>1, <2>2, <1>1
      <3>3. QED
        BY <3>1, <3>2
    <2>3. QED
      BY <2>1, <2>2, <1>1
  <1>4. w => Len(t) > 0 /\ t[Len(t)].kind = "jump" /\ ~t[Len(t)].predicted
    BY <1>1
  <1>5. PathOf(t, FollowedBy(e), w, a)
    BY <1>2, <1>3, <1>4 DEF PathOf
  <1>6. QED
    BY <1>5 DEF t

(* A path depends on addresses, kinds and predictions, not on results.      *)
SameFetch(e, f) == /\ e.pc = f.pc /\ e.kind = f.kind /\ e.predicted = f.predicted
                   /\ e.predicted_jump = f.predicted_jump
                   /\ e.predicted_target = f.predicted_target
LEMMA PathSame ==
    ASSUME NEW q \in Seq(Entry), NEW r \in Seq(Entry), Len(r) = Len(q),
           \A k \in 1 .. Len(q) : SameFetch(r[k], q[k]),
           NEW p, NEW w, NEW a, PathOf(q, p, w, a)
    PROVE  PathOf(r, p, w, a)
  <1>1. Len(q) \in Nat
    BY LenProperties
  <1>2. \A k \in 1 .. Len(q) : FollowedBy(r[k]) = FollowedBy(q[k])
    BY DEF SameFetch, FollowedBy
  <1>3. \A k \in 1 .. Len(q) : k # Len(q) => r[k + 1].pc = q[k + 1].pc
    BY <1>1 DEF SameFetch
  <1>4. Len(q) > 0 => r[1].pc = q[1].pc /\ SameFetch(r[Len(q)], q[Len(q)])
    BY <1>1 DEF SameFetch
  <1>5. QED
    BY <1>1, <1>2, <1>3, <1>4 DEF PathOf, SameFetch

-----------------------------------------------------------------------------
(* The queues in a row: what moving, removing and adding an instruction do  *)
(* to the sequence of those in flight.                                      *)
LEMMA RowTyped ==
    ASSUME NEW r \in Seq(Entry), NEW d \in Seq(Entry), NEW f \in Seq(Entry)
    PROVE  /\ r \o d \o f \in Seq(Entry)
           /\ Len(r \o d \o f) = Len(r) + Len(d) + Len(f)
           /\ \A k \in 1 .. Len(r) : (r \o d \o f)[k] = r[k]
           /\ \A k \in Len(r) + 1 .. Len(r) + Len(d) + Len(f) :
                 (r \o d \o f)[k] = (d \o f)[k - Len(r)]
           /\ r \o d \o f = << >> <=> r = << >> /\ d = << >> /\ f = << >>
  <1>1. d \o f \in Seq(Entry) /\ Len(d \o f) = Len(d) + Len(f)
    BY ConcatProperties
  <1>2. r \o d \o f = r \o (d \o f)
    BY ConcatAssociative
  <1>3. Len(r) \in Nat /\ Len(d) \in Nat /\ Len(f) \in Nat
    BY LenProperties
  <1> DEFINE df == d \o f
  <1>4. /\ r \o df \in Seq(Entry) /\ Len(r \o df) = Len(r) + Len(df)
        /\ \A k \in 1 .. Len(r) + Len(df) : (r \o df)[k] = IF k <= Len(r) THEN r[k] ELSE df[k - Len(r)]
    <2> HIDE DEF df
    <2>1. df \in Seq(Entry)
      BY <1>1 DEF df
    <2>2. QED
      BY <2>1, ConcatProperties
  <1>5. r \o df = << >> <=> r = << >> /\ d = << >> /\ f = << >>
    <2>1. df \in Seq(Entry) /\ (df = << >> <=> d = << >> /\ f = << >>)
      BY <1>1, ConcatEqualIffEmpty
    <2> HIDE DEF df
    <2>2. r \o df = << >> <=> r = << >> /\ df = << >>
      BY <2>1, ConcatEqualIffEmpty
    <2>3. QED
      BY <2>1, <2>2
  <1>6. Len(df) = Len(d) + Len(f) /\ r \o d \o f = r \o df
    BY <1>1, <1>2
  <1> HIDE DEF df
  <1>7. QED
    BY <1>3, <1>4, <1>5, <1>6 DEF df

LEMMA RowTail ==
    ASSUME NEW r \in Seq(Entry), NEW d \in Seq(Entry), NEW f \in Seq(Entry), r # << >>
    PROVE  Tail(r) \o d \o f = Tail(r \o d \o f)
  <1> DEFINE row == r \o d \o f
             t == Tail(r)
             left == t \o d \o f
  <1>1. /\ t \in Seq(Entry) /\ Len(t) = Len(r) - 1 /\ Len(r) \in Nat /\ Len(r) > 0
        /\ Len(d) \in Nat /\ Len(f) \in Nat
        /\ \A k \in 1 .. Len(t) : t[k] = r[k + 1]
    BY HeadTailProperties, LenProperties, EmptySeq
  <1> HIDE DEF t
  <1>2. /\ row \in Seq(Entry) /\ Len(row) = Len(r) + Len(d) + Len(f) /\ row # << >>
        /\ \A k \in 1 .. Len(r) : row[k] = r[k]
        /\ \A k \in Len(r) + 1 .. Len(r) + Len(d) + Len(f) : row[k] = (d \o f)[k - Len(r)]
    BY RowTyped
  <1>3. /\ left \in Seq(Entry) /\ Len(left) = Len(t) + Len(d) + Len(f)
        /\ \A k \in 1 .. Len(t) : left[k] = t[k]
        /\ \A k \in Len(t) + 1 .. Len(t) + Len(d) + Len(f) : left[k] = (d \o f)[k - Len(t)]
    <2>1. t \in Seq(Entry)
      BY <1>1
    <2>2. QED
      BY <2>1, RowTyped
  <1> HIDE DEF row, left
  <1>4. /\ Tail(row) \in Seq(Entry) /\ Len(Tail(row)) = Len(row) - 1
        /\ \A k \in 1 .. Len(Tail(row)) : Tail(row)[k] = row[k + 1]
    BY <1>2, HeadTailProperties
  <1>5. ASSUME NEW k \in 1 .. Len(left)
        PROVE  left[k] = Tail(row)[k]
    <2>1. CASE k <= Len(t)
      <3>1. k \in 1 .. Len(t) /\ k + 1 \in 1 .. Len(r) /\ k \in 1 .. Len(row) - 1
        BY <2>1, <1>1, <1>2, <1>3
      <3>2. left[k] = r[k + 1] /\ row[k + 1] = r[k + 1]
        BY <3>1, <1>1, <1>2, <1>3
      <3>3. k \in 1 .. Len(Tail(row))
        BY <3>1, <1>4
      <3>4. QED
        BY <3>2, <3>3, <1>4, Zenon
    <2>2. CASE k > Len(t)
      <3>1. left[k] = (d \o f)[k - Len(t)]
        BY <2>2, <1>1, <1>3
      <3>2. row[k + 1] = (d \o f)[(k + 1) - Len(r)] /\ k \in 1 .. Len(Tail(row))
        BY <2>2, <1>1, <1>2, <1>3, <1>4
      <3>3. (k + 1) - Len(r) = k - Len(t)
        BY <1>1, <1>3
      <3>4. QED
        BY <3>1, <3>2, <3>3, <1>4
    <2>3. k <= Len(t) \/ k > Len(t)
      BY <1>1, <1>3
    <2>4. QED
      BY <2>1, <2>2, <2>3, Zenon
  <1>6. left = Tail(row)
    BY <1>1, <1>2, <1>3, <1>4, <1>5, SeqEqual
  <1>7. QED
    BY <1>6 DEF left, row, t

LEMMA RowAppend ==
    ASSUME NEW r \in Seq(Entry), NEW d \in Seq(Entry), NEW f \in Seq(Entry), NEW e \in Entry
    PROVE  r \o d \o Append(f, e) = Append(r \o d \o f, e)
  <1> DEFINE rd == r \o d
             one == << e >>
  <1>1. rd \in Seq(Entry) /\ one \in Seq(Entry)
    BY ConcatProperties
  <1>2. Append(f, e) = f \o one
    BY AppendIsConcat
  <1> HIDE DEF rd
  <1>3. rd \o f \in Seq(Entry)
    BY <1>1, ConcatProperties
  <1>4. Append(rd \o f, e) = (rd \o f) \o one
    BY <1>3, AppendIsConcat
  <1>5. (rd \o f) \o one = rd \o (f \o one)
    BY <1>1, ConcatAssociative, SMTT(30)
  <1>6. QED
    BY <1>2, <1>4, <1>5 DEF rd

(* What rename and decode do: the first n of one queue go behind another.   *)
LEMMA Moved ==
    ASSUME NEW p \in Seq(Entry), NEW q \in Seq(Entry), NEW n \in 0 .. Len(q)
    PROVE  (p \o SubSeq(q, 1, n)) \o SubSeq(q, n + 1, Len(q)) = p \o q
  <1> DEFINE x == SubSeq(q, 1, n)
             y == SubSeq(q, n + 1, Len(q))
  <1>1. x \in Seq(Entry) /\ y \in Seq(Entry) /\ Len(q) \in Nat
    BY Split, LenProperties
  <1>2. x \o y = q
    <2>1. 1 \in 1 .. Len(q) + 1 /\ n \in 1 - 1 .. Len(q) /\ Len(q) \in n .. Len(q)
      BY <1>1
    <2>2. x \o y = SubSeq(q, 1, Len(q))
      BY <2>1, ConcatAdjacentSubSeq
    <2>3. QED
      BY <2>2, SubSeqFull
  <1> HIDE DEF x, y
  <1>3. (p \o x) \o y = p \o (x \o y)
    BY <1>1, ConcatAssociative, SMTT(30)
  <1>4. QED
    BY <1>2, <1>3 DEF x, y

-----------------------------------------------------------------------------
(* The steps.                                                               *)
LEMMA InitPath == Init => PathInv
  <1> SUFFICES ASSUME Init PROVE PathInv
    OBVIOUS
  <1>1. InFlight = << >>
    BY EmptySeq, ConcatEmptySeq DEF Init, InFlight
  <1>2. PathOf(InFlight, pc, jump_wait, arch)
    BY <1>1, PathEmpty DEF Init
  <1>3. QED
    BY <1>2 DEF Init, PathInv, OnPath, AfterJump, Resuming, AfterFlush, Flushing, FeedbackOfPass,
                NoFeedback

(* What the invariants say of the state before a step.                      *)
LEMMA Typed ==
    ASSUME TypeOK
    PROVE  /\ rob \in Seq(Entry) /\ dr \in Seq(Entry) /\ fd \in Seq(Entry)
           /\ InFlight \in Seq(Entry)
           /\ InFlight = << >> <=> rob = << >> /\ dr = << >> /\ fd = << >>
           /\ rob # << >> => rob[1] \in Entry /\ InFlight[1] = rob[1]
  <1>1. rob \in Seq(Entry) /\ dr \in Seq(Entry) /\ fd \in Seq(Entry)
    BY DEF TypeOK
  <1>2. /\ InFlight \in Seq(Entry)
        /\ InFlight = << >> <=> rob = << >> /\ dr = << >> /\ fd = << >>
        /\ \A k \in 1 .. Len(rob) : InFlight[k] = rob[k]
    BY <1>1, RowTyped DEF InFlight
  <1>3. rob # << >> => 1 \in 1 .. Len(rob) /\ rob[1] \in Entry
    BY <1>1, EmptySeq, LenProperties, ElementOfSeq
  <1>4. QED
    BY <1>1, <1>2, <1>3

(* An instruction retires and the path goes on behind it; behind a jump     *)
(* fetch waits for there is nothing; a wrong prediction empties the ROB.    *)
LEMMA RetirePath ==
    ASSUME TypeOK, PathInv, RetireOther \/ RetireJump
    PROVE  PathInv'
  <1> DEFINE e == rob[1]
  <1>1. /\ stage = "commit" /\ ~trap /\ rob # << >> /\ UNCHANGED <<pc, jump_wait, fd, dr, trap>>
        /\ arch' = NextPc(e)
    BY DEF RetireOther, RetireJump, Committing
  <1>2. ~feedback.flush /\ ~feedback.jump_enable
    BY <1>1 DEF PathInv, FeedbackOfPass
  <1>3. PathOf(InFlight, pc, jump_wait, arch)
    BY <1>1, <1>2 DEF PathInv, OnPath, Following
  <1>4. InFlight \in Seq(Entry) /\ InFlight # << >> /\ InFlight[1] = e /\ e \in Entry
    BY <1>1, Typed
  <1>5. Len(InFlight) \in Nat /\ Len(InFlight) > 0 /\ 1 \in 1 .. Len(InFlight)
    BY <1>4, LenProperties, EmptySeq
  <1>6. feedback \in Feedback /\ jump_wait \in BOOLEAN
    BY DEF TypeOK, PathInv
  <1>7. rob' = Tail(rob) => InFlight' = Tail(InFlight)
    <2>1. InFlight' = rob' \o dr \o fd
      BY <1>1 DEF InFlight
    <2>2. rob \in Seq(Entry) /\ dr \in Seq(Entry) /\ fd \in Seq(Entry)
      BY Typed
    <2>3. Tail(rob) \o dr \o fd = Tail(rob \o dr \o fd)
      BY <1>1, <2>2, RowTail
    <2>4. QED
      BY <2>1, <2>3 DEF InFlight
  <1>8. CASE RetireOther \/ (RetireJump /\ e.predicted /\ Hit(e))
    <2>1. /\ rob' = Tail(rob) /\ feedback' = [feedback EXCEPT !.enable = TRUE]
          /\ stage' \in {"commit", "input"}
      BY <1>8 DEF RetireOther, RetireJump, EndCommit, Committing
    <2>2. ~feedback'.flush /\ ~feedback'.jump_enable
      BY <2>1, <1>2, <1>6 DEF Feedback
    <2>3. NextPc(e) = FollowedBy(e) /\ ~(e.kind = "jump" /\ ~e.predicted)
      <3>1. CASE RetireOther
        <4>1. e.kind # "jump" /\ ~e.predicted
          BY <3>1, <1>3, <1>4, <1>5 DEF RetireOther, PathOf
        <4>2. QED
          BY <4>1 DEF NextPc, FollowedBy
      <3>2. CASE RetireJump /\ e.predicted /\ Hit(e)
        <4>1. e.kind = "jump"
          BY <3>2 DEF RetireJump
        <4>2. QED
          BY <3>2, <4>1, <1>4 DEF Hit, NextPc, FollowedBy, Entry
      <3>3. QED
        BY <3>1, <3>2, <1>8
    <2>4. PathOf(Tail(InFlight), pc, jump_wait, FollowedBy(e))
      BY <1>3, <1>4, <1>6, <2>3, PathTail
    <2>5. OnPath'
      BY <1>1, <1>7, <2>1, <2>3, <2>4 DEF OnPath
    <2>6. QED
      BY <1>1, <1>6, <2>1, <2>2, <2>5 DEF PathInv, AfterJump, Resuming, AfterFlush, Flushing, FeedbackOfPass
  <1>9. CASE RetireJump /\ e.predicted /\ ~Hit(e)
    <2>1. rob' = << >> /\ feedback' = [Redirected(e) EXCEPT !.flush = TRUE] /\ stage' = "rename"
      BY <1>9 DEF RetireJump
    <2>2. feedback'.flush /\ feedback'.jump_enable /\ feedback'.next_pc = NextPc(e)
      BY <2>1, <1>6 DEF Redirected, Feedback
    <2>3. QED
      BY <1>1, <1>6, <2>1, <2>2 DEF PathInv, OnPath, Following, AfterJump, Resuming, AfterFlush, Flushing,
                              FeedbackOfPass
  <1>10. CASE RetireJump /\ ~e.predicted
    <2>1. rob' = Tail(rob) /\ feedback' = Redirected(e) /\ stage' = "input" /\ e.kind = "jump"
      BY <1>10 DEF RetireJump, EndCommit
    <2>2. /\ ~feedback'.flush /\ feedback'.jump_enable /\ feedback'.next_pc = NextPc(e)
          /\ feedback'.jump = e.jump
      BY <2>1, <1>2, <1>6 DEF Redirected, Feedback
    <2>3. Len(InFlight) = 1 /\ jump_wait /\ pc = FollowedBy(e)
      BY <1>10, <2>1, <1>3, <1>4, <1>5 DEF PathOf
    <2>4. rob' = << >> /\ dr = << >> /\ fd = << >>
      <3>1. rob \in Seq(Entry) /\ dr \in Seq(Entry) /\ fd \in Seq(Entry)
        BY Typed
      <3>2. Tail(rob) \in Seq(Entry) /\ Len(Tail(rob)) = Len(rob) - 1
        BY <1>1, <3>1, HeadTailProperties
      <3>3. Len(rob) + Len(dr) + Len(fd) = 1
        BY <3>1, <2>3, RowTyped DEF InFlight
      <3>4. Len(rob) \in Nat /\ Len(rob) > 0 /\ Len(dr) \in Nat /\ Len(fd) \in Nat
        BY <1>1, <3>1, LenProperties, EmptySeq
      <3>5. Len(Tail(rob)) = 0 /\ Len(dr) = 0 /\ Len(fd) = 0
        BY <3>2, <3>3, <3>4
      <3>6. QED
        BY <3>1, <3>2, <3>5, <2>1, EmptySeq
    <2>5. (IF feedback'.jump THEN feedback'.next_pc ELSE pc) = NextPc(e)
      BY <1>10, <2>1, <2>2, <2>3 DEF NextPc, FollowedBy
    <2>6. QED
      BY <1>1, <1>6, <2>1, <2>2, <2>3, <2>4, <2>5
         DEF PathInv, OnPath, Following, AfterJump, Resuming, AfterFlush, Flushing, FeedbackOfPass
  <1>11. QED
    BY <1>8, <1>9, <1>10

(* A trap: every pass flushes, the last one goes on at the handler.         *)
LEMMA TrapPath ==
    ASSUME TypeOK, PathInv, Trap \/ WalkBack
    PROVE  PathInv'
  <1>1. feedback \in Feedback
    BY DEF TypeOK
  <1>2. /\ stage' = "rename" /\ feedback'.flush
        /\ \/ trap'
           \/ rob' = << >> /\ feedback'.has_exception /\ feedback'.next_pc = arch'
    BY <1>1 DEF Trap, WalkBack, NoFeedback, Feedback
  <1>3. UNCHANGED jump_wait
    BY DEF Trap, WalkBack
  <1>4. QED
    BY <1>2, <1>3 DEF PathInv, OnPath, Following, AfterJump, Resuming, AfterFlush, Flushing,
                      FeedbackOfPass

LEMMA RetireEndsPath ==
    ASSUME TypeOK, PathInv, RetireEnds
    PROVE  PathInv'
  <1>1. feedback \in Feedback
    BY DEF TypeOK
  <1>2. /\ stage = "commit" /\ stage' = "input" /\ ~trap
        /\ UNCHANGED <<pc, jump_wait, fd, dr, rob, trap, arch>>
        /\ feedback' = [feedback EXCEPT !.enable = @ \/ rob # << >>]
    BY DEF RetireEnds, EndCommit
  <1>3. ~feedback.flush /\ ~feedback.jump_enable /\ ~feedback'.flush /\ ~feedback'.jump_enable
    BY <1>1, <1>2 DEF PathInv, FeedbackOfPass, Feedback
  <1>4. QED
    BY <1>2, <1>3 DEF PathInv, OnPath, Following, InFlight, AfterJump, Resuming, AfterFlush, Flushing,
                      FeedbackOfPass

(* A result changes no address and no prediction.                           *)
LEMMA InputPath ==
    ASSUME TypeOK, PathInv, HandleInput
    PROVE  PathInv'
  <1>1. /\ UNCHANGED <<feedback, pc, jump_wait, fd, dr, trap, arch>>
        /\ stage = "input" /\ stage' \in {"input", "rename"}
    BY DEF HandleInput
  <1>2. rob \in Seq(Entry) /\ dr \in Seq(Entry) /\ fd \in Seq(Entry) /\ Len(rob) \in Nat
    BY Typed, LenProperties
  <1> DEFINE Same == /\ rob' \in Seq(Entry) /\ Len(rob') = Len(rob)
                     /\ \A k \in 1 .. Len(rob) : SameFetch(rob'[k], rob[k])
  <1>3. Same
    <2>1. CASE rob' = rob
      BY <2>1, <1>2 DEF SameFetch
    <2>2. ASSUME NEW k \in 1 .. Len(rob), NEW jump \in BOOLEAN, NEW target \in PC,
                 Finish(k, jump, target)
          PROVE  Same
      <3> DEFINE e == [rob[k] EXCEPT !.finish = TRUE, !.jump = jump, !.target = target]
      <3>1. rob[k] \in Entry
        BY <1>2, ElementOfSeq
      <3>2. e \in Entry /\ SameFetch(e, rob[k])
        BY <3>1 DEF Entry, SameFetch
      <3>3. rob' = [rob EXCEPT ![k] = e]
        BY <2>2, <3>1, <1>2 DEF Finish, Entry
      <3> HIDE DEF e
      <3>4. /\ rob' \in Seq(Entry) /\ Len(rob') = Len(rob)
            /\ \A j \in 1 .. Len(rob) : rob'[j] = IF j = k THEN e ELSE rob[j]
        BY <1>2, <3>2, <3>3, ExceptSeq
      <3>5. QED
        BY <3>2, <3>4 DEF SameFetch
    <2>3. QED
      BY <2>1, <2>2 DEF HandleInput
  <1>4. rob = << >> <=> rob' = << >>
    BY <1>2, <1>3, EmptySeq
  <1>5. OnPath'
    <2> SUFFICES ASSUME Following PROVE PathOf(InFlight', pc, jump_wait, arch)
      BY <1>1 DEF OnPath, Following
    <2>1. PathOf(InFlight, pc, jump_wait, arch)
      BY DEF PathInv, OnPath
    <2> DEFINE new == rob' \o dr \o fd
    <2>2. /\ InFlight \in Seq(Entry) /\ Len(InFlight) = Len(rob) + Len(dr) + Len(fd)
          /\ \A k \in 1 .. Len(rob) : InFlight[k] = rob[k]
          /\ \A k \in Len(rob) + 1 .. Len(rob) + Len(dr) + Len(fd) :
                InFlight[k] = (dr \o fd)[k - Len(rob)]
      BY <1>2, RowTyped DEF InFlight
    <2>3. /\ new \in Seq(Entry) /\ Len(new) = Len(rob') + Len(dr) + Len(fd)
          /\ \A k \in 1 .. Len(rob') : new[k] = rob'[k]
          /\ \A k \in Len(rob') + 1 .. Len(rob') + Len(dr) + Len(fd) :
                new[k] = (dr \o fd)[k - Len(rob')]
      <3>1. rob' \in Seq(Entry)
        BY <1>3
      <3>2. QED
        BY <1>2, <3>1, RowTyped
    <2> HIDE DEF new
    <2>4. Len(dr) \in Nat /\ Len(fd) \in Nat /\ Len(rob') = Len(rob)
      BY <1>2, <1>3, LenProperties
    <2>5. ASSUME NEW k \in 1 .. Len(InFlight)
          PROVE  SameFetch(new[k], InFlight[k])
      <3>1. CASE k \in 1 .. Len(rob)
        <4>1. new[k] = rob'[k] /\ InFlight[k] = rob[k]
          BY <3>1, <2>2, <2>3, <2>4
        <4>2. QED
          BY <3>1, <4>1, <1>3
      <3>2. CASE k \in Len(rob) + 1 .. Len(rob) + Len(dr) + Len(fd)
        <4>1. new[k] = InFlight[k]
          BY <3>2, <2>2, <2>3, <2>4
        <4>2. QED
          BY <4>1 DEF SameFetch
      <3>3. \/ k \in 1 .. Len(rob)
            \/ k \in Len(rob) + 1 .. Len(rob) + Len(dr) + Len(fd)
        BY <1>2, <2>2, <2>4
      <3>4. QED
        BY <3>1, <3>2, <3>3, Zenon
    <2>6. PathOf(new, pc, jump_wait, arch)
      BY <2>1, <2>2, <2>3, <2>4, <2>5, PathSame
    <2>7. QED
      BY <2>6, <1>1 DEF new, InFlight
  <1>6. QED
    BY <1>1, <1>4, <1>5 DEF PathInv, AfterJump, Resuming, AfterFlush, Flushing, FeedbackOfPass

(* Rename moves instructions on without a gap.                              *)
LEMMA RenamePath ==
    ASSUME TypeOK, PathInv, Rename
    PROVE  PathInv'
  <1>1. PICK n \in 0 .. RenameWidth :
            /\ n <= Len(dr) /\ (feedback.flush => n = 0)
            /\ rob' = rob \o SubSeq(dr, 1, n)
            /\ dr' = SubSeq(dr, n + 1, Len(dr))
    BY DEF Rename
  <1>2. /\ UNCHANGED <<feedback, pc, jump_wait, fd, trap, arch>>
        /\ stage = "rename" /\ stage' = "decode"
    BY DEF Rename
  <1>3. rob \in Seq(Entry) /\ dr \in Seq(Entry) /\ fd \in Seq(Entry) /\ Len(dr) \in Nat
    BY Typed, LenProperties
  <1>4. n \in 0 .. Len(dr)
    BY <1>1, <1>3, SizesAssumption
  <1>5. rob' \o dr' = rob \o dr
    BY <1>1, <1>3, <1>4, Moved
  <1>6. InFlight' = InFlight
    BY <1>2, <1>5 DEF InFlight
  <1>7. n = 0 => rob' = rob
    BY <1>1, <1>3, <1>4, Move
  <1>8. rob = << >> /\ dr = << >> => rob' = << >> /\ dr' = << >>
    <2>1. rob' \in Seq(Entry) /\ dr' \in Seq(Entry)
      BY <1>1, <1>3, <1>4, Move, Split
    <2>2. rob = << >> /\ dr = << >> => rob \o dr = << >>
      BY <1>3, ConcatEqualIffEmpty
    <2>3. rob' \o dr' = << >> => rob' = << >> /\ dr' = << >>
      BY <2>1, ConcatEqualIffEmpty
    <2>4. QED
      BY <2>2, <2>3, <1>5
  <1>9. OnPath'
    BY <1>2, <1>6 DEF PathInv, OnPath, Following
  <1>10. QED
    BY <1>1, <1>2, <1>7, <1>8, <1>9
       DEF PathInv, AfterJump, Resuming, AfterFlush, Flushing, FeedbackOfPass

(* Decode moves instructions on without a gap, or drops what a flush has    *)
(* made stale.                                                              *)
LEMMA DecodePath ==
    ASSUME FenceInv, PathInv, Decode
    PROVE  PathInv'
  <1>1. /\ UNCHANGED <<feedback, pc, jump_wait, rob, trap, arch>>
        /\ stage = "decode" /\ stage' = "fetch"
    BY DEF Decode
  <1>2. TypeOK /\ feedback \in Feedback
    BY DEF FenceInv, TypeOK
  <1>3. rob \in Seq(Entry) /\ dr \in Seq(Entry) /\ fd \in Seq(Entry)
        /\ Len(dr) \in Nat /\ Len(fd) \in Nat
    BY <1>2, Typed, LenProperties
  <1>4. CASE feedback.flush
    <2>1. dr' = << >>
      BY <1>4 DEF Decode
    <2>2. QED
      BY <1>1, <1>4, <2>1 DEF PathInv, OnPath, Following, AfterJump, Resuming, AfterFlush, Flushing,
                              FeedbackOfPass
  <1>5. CASE ~feedback.flush
    <2> DEFINE n == Smallest(Smallest(DecodeWidth, Len(fd)), DecodeSize - (Len(dr) + popped.dr))
    <2>1. dr' = dr \o SubSeq(fd, 1, n) /\ fd' = SubSeq(fd, n + 1, Len(fd))
      BY <1>5 DEF Decode
    <2>2. n \in 0 .. Len(fd)
      <3>1. popped.dr \in Nat /\ Len(dr) + popped.dr <= DecodeSize
        BY <1>1 DEF FenceInv, TypeOK, DrFits
      <3>2. DecodeWidth \in Nat /\ DecodeSize \in Nat
        BY SizesAssumption
      <3>3. QED
        BY <1>3, <3>1, <3>2 DEF Smallest
    <2> HIDE DEF n
    <2>3. dr' \o fd' = dr \o fd /\ dr' \in Seq(Entry) /\ fd' \in Seq(Entry)
      BY <1>3, <2>1, <2>2, Move, Split, Moved
    <2>4. InFlight' = InFlight
      <3>1. InFlight = rob \o (dr \o fd)
        BY <1>3, ConcatAssociative DEF InFlight
      <3>2. (rob \o dr') \o fd' = rob \o (dr' \o fd')
        <4>1. rob \in Seq(Entry) /\ dr' \in Seq(Entry) /\ fd' \in Seq(Entry)
          BY <1>3, <2>3
        <4>2. QED
          BY <4>1, ConcatAssociative
      <3>3. InFlight' = (rob \o dr') \o fd'
        BY <1>1 DEF InFlight
      <3>4. QED
        BY <3>1, <3>2, <3>3, <2>3
    <2>5. dr = << >> /\ fd = << >> => dr' = << >> /\ fd' = << >>
      BY <1>3, <2>3, ConcatEqualIffEmpty
    <2>6. QED
      BY <1>1, <1>5, <2>4, <2>5
         DEF PathInv, OnPath, Following, AfterJump, Resuming, AfterFlush, Flushing, FeedbackOfPass
  <1>6. QED
    BY <1>2, <1>4, <1>5 DEF Feedback

(* The end of a pass takes no instruction and forgets the feedback.         *)
LEMMA SyncPath ==
    ASSUME TypeOK, PathInv, Sync
    PROVE  PathInv'
  <1>1. /\ UNCHANGED <<pc, jump_wait, fd, dr, rob, trap, arch>>
        /\ stage = "sync" /\ stage' = "commit" /\ feedback' = NoFeedback
    BY DEF Sync
  <1>2. ~feedback'.flush /\ ~feedback'.jump_enable
    BY <1>1 DEF NoFeedback
  <1>3. feedback.flush \in BOOLEAN /\ feedback.jump_enable \in BOOLEAN
    BY DEF TypeOK, Feedback
  <1>4. ~trap => PathOf(InFlight, pc, jump_wait, arch)
    <2> SUFFICES ASSUME ~trap PROVE PathOf(InFlight, pc, jump_wait, arch)
      OBVIOUS
    <2>1. CASE Following
      BY <2>1 DEF PathInv, OnPath
    <2>2. CASE Resuming \/ Flushing
      <3>1. rob = << >> /\ dr = << >> /\ fd = << >> /\ jump_wait = FALSE /\ pc = arch
        BY <2>2, <1>1 DEF PathInv, AfterJump, AfterFlush
      <3>2. InFlight = << >>
        BY <3>1, Typed
      <3>3. QED
        BY <3>1, <3>2, PathEmpty
    <2>3. QED
      BY <2>1, <2>2, <1>3 DEF Following, Resuming, Flushing
  <1>5. QED
    BY <1>1, <1>2, <1>4 DEF PathInv, OnPath, Following, InFlight, AfterJump, Resuming, AfterFlush,
                            Flushing, FeedbackOfPass

(* What fetch knows of the instruction it appends.                          *)
LEMMA FetchedNext ==
    ASSUME TypeOK, NEW jump \in BOOLEAN, NEW target \in PC
    PROVE  LET e == [Fetched EXCEPT !.predicted = TRUE, !.predicted_jump = jump,
                                    !.predicted_target = target]
           IN  /\ Fetched.pc = pc /\ ~Fetched.predicted /\ FollowedBy(Fetched) = Plus4(pc)
               /\ e.pc = pc /\ e.predicted /\ FollowedBy(e) = IF jump THEN target ELSE Plus4(pc)
  <1>1. Fetched.pc = pc /\ ~Fetched.predicted /\ FollowedBy(Fetched) = Plus4(pc)
    BY DEF Fetched, FollowedBy
  <1>2. Fetched \in Entry
    BY FetchedTyped
  <1> HIDE DEF Fetched
  <1>3. QED
    BY <1>1, <1>2 DEF Entry, FollowedBy

(* Fetch extends the path by the instruction at pc, waits, resumes behind   *)
(* the jump it waited for, or starts over at the program's place.           *)
LEMMA FetchPath ==
    ASSUME TypeOK, PathInv, Fetch
    PROVE  PathInv'
  <1>1. /\ UNCHANGED <<feedback, dr, rob, trap, arch>> /\ stage = "fetch"
        /\ stage' \in {"fetch", "sync"}
    BY DEF Fetch, FetchPlain, FetchPredicted, FetchUnpredicted, FenceIWaits, FetchEnds,
           FetchWaits, FetchFlush, Fetching, EndFetch
  <1>2. feedback \in Feedback /\ jump_wait \in BOOLEAN /\ (trap => feedback.flush)
    BY <1>1 DEF TypeOK, PathInv, FeedbackOfPass
  <1>3. rob \in Seq(Entry) /\ dr \in Seq(Entry) /\ fd \in Seq(Entry) /\ InFlight \in Seq(Entry)
    BY Typed
  <1>4. FeedbackOfPass'
    BY <1>1 DEF PathInv, FeedbackOfPass
  <1> DEFINE Extended(e) == /\ e \in Entry /\ e.pc = pc /\ (e.kind # "jump" => ~e.predicted)
                            /\ fd' = Append(fd, e) /\ pc' = FollowedBy(e)
                            /\ jump_wait' = (e.kind = "jump" /\ ~e.predicted)
  <1>5. CASE FetchFlush
    <2>1. /\ feedback.flush /\ fd' = << >> /\ jump_wait' = FALSE /\ stage' = "sync"
          /\ feedback.has_exception \/ feedback.jump_enable => pc' = feedback.next_pc
      BY <1>5 DEF FetchFlush, EndFetch
    <2>2. QED
      BY <1>1, <1>4, <2>1 DEF PathInv, OnPath, Following, AfterJump, Resuming, AfterFlush, Flushing
  <1>6. ASSUME ~feedback.flush, ~jump_wait, NEW e, Extended(e)
        PROVE  PathInv'
    <2>1. ~trap /\ ~feedback.jump_enable
      BY <1>1, <1>2, <1>6 DEF PathInv, AfterJump, Resuming
    <2>2. PathOf(InFlight, pc, FALSE, arch)
      <3>1. jump_wait = FALSE
        BY <1>2, <1>6
      <3>2. PathOf(InFlight, pc, jump_wait, arch)
        BY <1>6, <2>1 DEF PathInv, OnPath, Following
      <3>3. QED
        BY <3>1, <3>2
    <2>3. PathOf(Append(InFlight, e), FollowedBy(e), e.kind = "jump" /\ ~e.predicted, arch)
      BY <1>3, <1>6, <2>2, PathAppend
    <2>4. InFlight' = Append(InFlight, e)
      <3>1. rob \o dr \o Append(fd, e) = Append(rob \o dr \o fd, e)
        BY <1>3, <1>6, RowAppend
      <3>2. InFlight' = rob \o dr \o Append(fd, e)
        BY <1>1, <1>6 DEF InFlight
      <3>3. QED
        BY <3>1, <3>2 DEF InFlight
    <2>5. PathOf(InFlight', pc', jump_wait', arch')
      BY <1>1, <1>6, <2>3, <2>4
    <2>6. jump_wait' \in BOOLEAN
      BY <1>6
    <2>7. QED
      BY <1>1, <1>4, <1>6, <2>1, <2>5, <2>6
         DEF PathInv, OnPath, AfterJump, Resuming, AfterFlush, Flushing
  <1>7. CASE FetchPlain \/ FetchUnpredicted
    <2>1. /\ ~feedback.flush /\ ~jump_wait /\ fd' = Append(fd, Fetched) /\ pc' = Plus4(pc)
          /\ jump_wait' = (code[pc] = "jump")
      BY <1>2, <1>7 DEF FetchPlain, FetchUnpredicted, Fetching
    <2>2. /\ Fetched \in Entry /\ Fetched.kind = code[pc] /\ Fetched.pc = pc /\ ~Fetched.predicted
          /\ FollowedBy(Fetched) = Plus4(pc)
      BY FetchedTyped, FetchedNext, PcInRange
    <2>3. Extended(Fetched)
      BY <2>1, <2>2
    <2>4. QED
      BY <1>6, <2>1, <2>3
  <1>8. CASE FetchPredicted
    <2>1. PICK jump \in BOOLEAN, target \in PC :
             /\ fd' = Append(fd, [Fetched EXCEPT !.predicted = TRUE, !.predicted_jump = jump,
                                                 !.predicted_target = target])
             /\ pc' = IF jump THEN target ELSE Plus4(pc)
      BY <1>8 DEF FetchPredicted
    <2>2. ~feedback.flush /\ ~jump_wait /\ jump_wait' = jump_wait /\ code[pc] = "jump"
      BY <1>8 DEF FetchPredicted, Fetching
    <2> DEFINE e == [Fetched EXCEPT !.predicted = TRUE, !.predicted_jump = jump,
                                    !.predicted_target = target]
    <2>3. /\ e \in Entry /\ e.kind = "jump" /\ e.pc = pc /\ e.predicted
          /\ FollowedBy(e) = IF jump THEN target ELSE Plus4(pc)
      BY <2>2, FetchedTyped, FetchedNext
    <2>4. fd' = Append(fd, e)
      BY <2>1
    <2> HIDE DEF e
    <2>5. Extended(e)
      BY <1>2, <2>1, <2>2, <2>3, <2>4
    <2>6. QED
      BY <1>6, <2>2, <2>5
  <1>9. CASE FenceIWaits \/ FetchEnds
    <2>1. UNCHANGED <<fd, pc, jump_wait>> /\ ~feedback.flush /\ ~jump_wait /\ stage' = "sync"
      BY <1>9 DEF FenceIWaits, FetchEnds, Fetching, EndFetch
    <2>2. ~trap /\ ~feedback.jump_enable
      BY <1>1, <1>2, <2>1 DEF PathInv, AfterJump, Resuming
    <2>3. QED
      BY <1>1, <1>4, <2>1, <2>2
         DEF PathInv, OnPath, Following, InFlight, AfterJump, Resuming, AfterFlush, Flushing
  <1>10. CASE FetchWaits
    <2>1. fd' = fd /\ ~feedback.flush /\ jump_wait /\ stage' = "sync"
      BY <1>10 DEF FetchWaits, EndFetch
    <2>2. CASE feedback.jump_enable
      <3>1. jump_wait' = FALSE /\ pc' = IF feedback.jump THEN feedback.next_pc ELSE pc
        BY <1>10, <2>2 DEF FetchWaits
      <3>2. QED
        BY <1>1, <1>2, <1>4, <2>1, <2>2, <3>1
           DEF PathInv, OnPath, Following, AfterJump, Resuming, AfterFlush, Flushing
    <2>3. CASE ~feedback.jump_enable
      <3>1. UNCHANGED <<pc, jump_wait>>
        BY <1>10, <2>3 DEF FetchWaits
      <3>2. QED
        BY <1>1, <1>2, <1>4, <2>1, <2>3, <3>1
           DEF PathInv, OnPath, Following, InFlight, AfterJump, Resuming, AfterFlush, Flushing
    <2>4. QED
      BY <1>2, <2>2, <2>3 DEF Feedback
  <1>11. QED
    BY <1>5, <1>7, <1>8, <1>9, <1>10 DEF Fetch

LEMMA StepPath == FenceInv /\ PathInv /\ [Next]_vars => PathInv'
  <1> SUFFICES ASSUME FenceInv, PathInv, [Next]_vars PROVE PathInv'
    OBVIOUS
  <1>1. TypeOK
    BY DEF FenceInv
  <1>2. CASE RetireOther \/ RetireJump
    BY <1>1, <1>2, RetirePath
  <1>3. CASE Trap \/ WalkBack
    BY <1>1, <1>3, TrapPath
  <1>4. CASE RetireEnds
    BY <1>1, <1>4, RetireEndsPath
  <1>5. CASE HandleInput
    BY <1>1, <1>5, InputPath
  <1>6. CASE Rename
    BY <1>1, <1>6, RenamePath
  <1>7. CASE Decode
    BY <1>7, DecodePath
  <1>8. CASE Fetch
    BY <1>1, <1>8, FetchPath
  <1>9. CASE Sync
    BY <1>1, <1>9, SyncPath
  <1>10. CASE UNCHANGED vars
    BY <1>10 DEF vars, PathInv, OnPath, Following, InFlight, AfterJump, Resuming, AfterFlush,
                 Flushing, FeedbackOfPass
  <1>11. QED
    BY <1>2, <1>3, <1>4, <1>5, <1>6, <1>7, <1>8, <1>9, <1>10 DEF Next

LEMMA PathInvExact == TypeOK /\ PathInv => PathExact
  <1> SUFFICES ASSUME TypeOK, PathInv, Settled PROVE PathExact
    BY DEF PathExact
  <1>1. Following
    BY DEF PathInv, FeedbackOfPass, Settled, Following
  <1>2. PathOf(InFlight, pc, jump_wait, arch)
    BY <1>1 DEF PathInv, OnPath
  <1>3. QED
    BY <1>2 DEF PathExact, PathOf

(* The instructions in flight are the predicted path from the instruction   *)
(* the program executes next, for every program, every prediction, every    *)
(* interrupt and every size: no instruction is lost, repeated or fetched    *)
(* from an address that a jump or a trap has overtaken.                     *)
THEOREM PathSafe == Spec => []PathExact
  <1>1. FenceInv /\ PathInv => PathExact
    BY PathInvExact DEF FenceInv
  <1>2. QED
    BY <1>1, InitFence, StepFence, InitPath, StepPath, PTL DEF Spec
=============================================================================
