----------------------------- MODULE TrapProofs -----------------------------
(***************************************************************************)
(* For every program, every width and every size: the pipeline of Trap     *)
(* implements the sequential machine of Hart, its assertions hold, and mip *)
(* and the timer request follow the clint.                                 *)
(***************************************************************************)
EXTENDS Trap, SequenceTheorems, TLAPS

PC == 0 .. CodeLen - 1
AllBits == {"MIE", "MPIE"} \cup Cause
Values == {i.to : i \in Instr} \cup {Combine(i, s) : i \in Instr, s \in SUBSET AllBits}
RobEntry == [pc : PC, ins : Instr, status : {"waiting", "issued", "executed", "finished"},
             exception : BOOLEAN, write : {<< >>} \cup {<<v>> : v \in Values}, target : PC]
RequestValue == UNION {Values, SUBSET AllBits, PC, Cause \cup {"exception", "none"}}
Request == [sys : BOOLEAN, addr : Mapped \ {"readonly"}, val : RequestValue]

(* A csr file: what each CSR keeps is what its filter lets through.         *)
CsrTyped(c) == /\ c = [a \in Mapped |-> c[a]]
               /\ c["mstatus"] \in SUBSET {"MIE", "MPIE"}
               /\ c["mie"] \in SUBSET Cause /\ c["mip"] \in SUBSET Cause
               /\ c["readonly"] = {}
               /\ c["mepc"] \in PC /\ c["mtvec"] \in PC

TypeOK == /\ stage \in {"clint", "commit", "units", "front", "sync"}
          /\ slot \in Nat
          /\ lines \in SUBSET Cause
          /\ rob \in Seq(RobEntry)
          /\ csr_q \in Seq(Request)
          /\ CsrTyped(csr) /\ CsrTyped(PendingCsr)
          /\ pc \in PC /\ jump_wait \in BOOLEAN
          /\ state \in {"normal", "flush", "interrupt_flush"}
          /\ cause \in Cause \cup {"none"} /\ cause_pc \in PC

(* csr_file has applied every request before commit begins, and commit      *)
(* walks back in passes of its own.                                         *)
Drained == /\ stage \in {"clint", "commit"} /\ slot = 0 => csr_q = << >>
           /\ stage = "clint" => slot = 0
Walking == state # "normal" => /\ stage \in {"clint", "commit", "sync"}
                               /\ stage = "commit" => slot = 0
                               /\ restore \in 1 .. Len(rob)
FlushOf == /\ state = "flush" => rob[1].exception
           /\ state = "interrupt_flush" => csr_q = << >> /\ "MIE" \in csr["mstatus"]

(* A csr or mret instruction leaves the issue queue only as the oldest, and *)
(* when it executes nothing that retired before it is still queued.         *)
SerialAlone == \A k \in 1 .. Len(rob) : Serial(rob[k].ins) /\ rob[k].status # "waiting" =>
                  /\ k = 1
                  /\ csr_q = << >> \/ (rob[k].status = "issued" /\ stage = "sync")
OnlySerialIssued == \A k \in 1 .. Len(rob) :
                       rob[k].status \in {"issued", "executed"} => Serial(rob[k].ins)

(* What an entry holds: nothing before it has executed; then what its       *)
(* instruction makes of the csr file, which has not changed since, but for  *)
(* mip.                                                                     *)
Writes(c, e) ==
    CASE e.ins.k = "csrw" -> e.write = <<e.ins.to>>
      [] e.ins.k = "csr" /\ ~Illegal(e.ins) /\ e.ins.op # "r" ->
            /\ e.write # << >>
            /\ e.ins.addr # "mip" => e.write = <<Combine(e.ins, c[e.ins.addr])>>
      [] OTHER -> e.write = << >>
Raises(i) == i.k = "fault" \/ (i.k = "csr" /\ Illegal(i))
Result(c, e) == IF e.status \in {"waiting", "issued"} THEN e.write = << >> /\ ~e.exception
             ELSE /\ Writes(c, e)
                  /\ e.exception <=> Raises(e.ins)
                  /\ e.ins.k = "mret" => e.target = c["mepc"]
Results == \A k \in 1 .. Len(rob) : Result(csr, rob[k])

(* The ROB holds consecutive instructions, and an mret only as the last.    *)
Path == /\ \A k \in 1 .. Len(rob) - 1 : /\ rob[k].ins.k # "mret"
                                        /\ rob[k + 1].pc = Next_pc(rob[k].pc)
        /\ rob # << >> => IF rob[Len(rob)].ins.k = "mret" THEN jump_wait
                          ELSE pc = Next_pc(rob[Len(rob)].pc)

Inv == /\ Drained /\ Walking /\ FlushOf /\ SerialAlone /\ OnlySerialIssued
       /\ Results /\ Path
TrapInv == TypeOK /\ Inv

-----------------------------------------------------------------------------
(* The csr file after one more request.                                     *)
Write(c, w) == [a \in DOMAIN c |-> IF w.addr = a THEN Filter(a, w.val) ELSE c[a]]

LEMMA AppliedEmpty ==
    ASSUME NEW c, c = [a \in Mapped |-> c[a]]
    PROVE  Applied(c, << >>) = c
  <1>1. \A a : LastWrites(<< >>, a) = {}
    BY DEF LastWrites
  <1>2. Applied(c, << >>) = [a \in DOMAIN c |-> c[a]]
    BY <1>1 DEF Applied
  <1>3. QED
    BY <1>2

(* The last request decides about its CSR and no other.                     *)
LEMMA AppliedAppend ==
    ASSUME NEW c, NEW S, NEW q \in Seq(S), NEW w \in S
    PROVE  Applied(c, Append(q, w)) = Write(Applied(c, q), w)
  <1> DEFINE n == Append(q, w)
  <1>1. /\ Len(n) = Len(q) + 1 /\ Len(q) \in Nat /\ n[Len(q) + 1] = w
        /\ \A k \in 1 .. Len(q) : n[k] = q[k]
    BY AppendProperties, LenProperties
  <1> HIDE DEF n
  <1>2. ASSUME NEW a, w.addr = a
        PROVE  LastWrites(n, a) = {Len(q) + 1}
    <2>1. Len(q) + 1 \in LastWrites(n, a)
      BY <1>1, <1>2 DEF LastWrites
    <2>2. ASSUME NEW k \in LastWrites(n, a) PROVE k = Len(q) + 1
      BY <1>1, <1>2, <2>2 DEF LastWrites
    <2>3. QED
      BY <2>1, <2>2
  <1>3. ASSUME NEW a, w.addr # a
        PROVE  LastWrites(n, a) = LastWrites(q, a)
    <2>1. ASSUME NEW k PROVE k \in LastWrites(n, a) => k \in LastWrites(q, a)
      <3>1. SUFFICES ASSUME k \in LastWrites(n, a) PROVE k \in LastWrites(q, a)
        OBVIOUS
      <3>2. k \in 1 .. Len(q) /\ q[k].addr = a
        BY <1>1, <1>3, <3>1 DEF LastWrites
      <3>3. \A j \in k + 1 .. Len(q) : q[j].addr # a
        BY <1>1, <3>1, <3>2 DEF LastWrites
      <3>4. QED
        BY <3>2, <3>3 DEF LastWrites
    <2>2. ASSUME NEW k PROVE k \in LastWrites(q, a) => k \in LastWrites(n, a)
      <3>1. SUFFICES ASSUME k \in LastWrites(q, a) PROVE k \in LastWrites(n, a)
        OBVIOUS
      <3>2. k \in 1 .. Len(n) /\ n[k].addr = a /\ k \in 1 .. Len(q)
        BY <1>1, <3>1 DEF LastWrites
      <3>3. ASSUME NEW j \in k + 1 .. Len(n) PROVE n[j].addr # a
        <4>1. CASE j = Len(q) + 1
          BY <1>1, <1>3, <4>1
        <4>2. CASE j # Len(q) + 1
          <5>1. j \in 1 .. Len(q) /\ j \in k + 1 .. Len(q)
            BY <1>1, <3>2, <3>3, <4>2
          <5>2. QED
            BY <1>1, <3>1, <5>1 DEF LastWrites
        <4>3. QED
          BY <4>1, <4>2
      <3>4. QED
        BY <3>2, <3>3 DEF LastWrites
    <2>3. QED
      BY <2>1, <2>2
  <1>4. ASSUME NEW a \in DOMAIN c
        PROVE  Applied(c, n)[a] = IF w.addr = a THEN Filter(a, w.val) ELSE Applied(c, q)[a]
    <2>1. CASE w.addr = a
      <3>1. LastWrites(n, a) = {Len(q) + 1}
        BY <1>2, <2>1
      <3>2. n[CHOOSE k \in LastWrites(n, a) : TRUE] = w
        BY <1>1, <3>1
      <3>3. QED
        BY <2>1, <3>1, <3>2 DEF Applied
    <2>2. CASE w.addr # a
      <3> DEFINE k == CHOOSE k \in LastWrites(q, a) : TRUE
      <3>1. LastWrites(n, a) = LastWrites(q, a)
        BY <1>3, <2>2
      <3>2. LastWrites(q, a) # {} => k \in 1 .. Len(q)
        BY DEF LastWrites
      <3>3. LastWrites(q, a) # {} => n[k] = q[k]
        BY <1>1, <3>2
      <3>4. QED
        BY <2>2, <3>1, <3>3 DEF Applied
    <2>3. QED
      BY <2>1, <2>2
  <1>5. DOMAIN Applied(c, n) = DOMAIN c /\ DOMAIN Applied(c, q) = DOMAIN c
    BY DEF Applied
  <1>6. Applied(c, n) = [a \in DOMAIN c |-> Applied(c, n)[a]]
    BY DEF Applied
  <1>7. QED
    BY <1>4, <1>5, <1>6 DEF Write, n

(* A request of one CSR keeps a csr file typed.                             *)
LEMMA WriteTyped ==
    ASSUME NEW c, CsrTyped(c), NEW w, w.addr \in Mapped \ {"readonly"},
           w.addr \in {"mepc", "mtvec"} => w.val \in PC
    PROVE  /\ CsrTyped(Write(c, w))
           /\ \A a \in Mapped : Write(c, w)[a] = IF a = w.addr THEN Filter(a, w.val) ELSE c[a]
  <1>1. DOMAIN c = Mapped
    BY DEF CsrTyped
  <1>2. \A a \in Mapped : Write(c, w)[a] = IF a = w.addr THEN Filter(a, w.val) ELSE c[a]
    BY <1>1 DEF Write
  <1>3. Write(c, w) = [a \in Mapped |-> Write(c, w)[a]]
    BY <1>1 DEF Write
  <1> HIDE DEF Write
  <1>4. Filter("mstatus", w.val) \in SUBSET {"MIE", "MPIE"}
    BY DEF Filter
  <1>5. Filter("mie", w.val) \in SUBSET Cause /\ Filter("mip", w.val) \in SUBSET Cause
    BY DEF Filter
  <1>6. Filter("mepc", w.val) = w.val /\ Filter("mtvec", w.val) = w.val
    BY DEF Filter
  <1>7. {"mstatus", "mie", "mip", "mepc", "mtvec", "readonly"} \subseteq Mapped
    BY DEF Mapped
  <1>8. QED
    BY <1>2, <1>3, <1>4, <1>5, <1>6, <1>7 DEF CsrTyped
-----------------------------------------------------------------------------
LEMMA NextPcTyped == 0 \in PC /\ \A p \in PC : Next_pc(p) \in PC
  BY SizesAssumption DEF PC, Next_pc

LEMMA InitInv == Init => TrapInv
  <1> SUFFICES ASSUME Init PROVE TrapInv
    OBVIOUS
  <1>1. csr = [a \in Mapped |-> csr[a]]
    BY DEF Init, Mapped
  <1>2. CsrTyped(csr)
    BY <1>1, NextPcTyped DEF Init, CsrTyped
  <1>3. PendingCsr = csr
    BY <1>1, AppliedEmpty DEF Init, PendingCsr
  <1>4. TypeOK
    BY <1>2, <1>3, NextPcTyped, EmptySeq DEF Init, TypeOK
  <1>5. Len(rob) = 0
    BY DEF Init
  <1>6. Inv
    BY <1>5 DEF Init, Inv, Drained, Walking, FlushOf, SerialAlone, OnlySerialIssued, Results, Path
  <1>7. QED
    BY <1>4, <1>6 DEF TrapInv

(* The first entry of a ROB that is not empty.                              *)
LEMMA RobHead ==
    ASSUME NEW q \in Seq(RobEntry), q # << >>
    PROVE  Len(q) \in Nat \ {0} /\ 1 \in 1 .. Len(q) /\ q[1] \in RobEntry
  <1>1. Len(q) \in Nat \ {0}
    BY EmptySeq
  <1>2. QED
    BY <1>1, ElementOfSeq

(* clint.run_pre and the steps of commit that only begin or continue a walk *)
(* back or end the pass.                                                    *)
LEMMA QuietInv ==
    ASSUME TrapInv, RunPre \/ TakeInterrupt \/ RaiseException \/ RetireEnds \/ WalkBack
    PROVE  TrapInv' /\ PendingCsr' = PendingCsr
  <1>1. UNCHANGED <<rob, csr, csr_q, pc, jump_wait>> /\ stage \in {"clint", "commit"}
    BY DEF RunPre, TakeInterrupt, RaiseException, RetireEnds, WalkBack, Committing, frontvars
  <1>2. PendingCsr' = PendingCsr
    BY <1>1 DEF PendingCsr
  <1>3. rob \in Seq(RobEntry) /\ Len(rob) \in Nat
    BY LenProperties DEF TrapInv, TypeOK
  <1>4. cause' \in Cause \cup {"none"} /\ cause_pc' \in PC
    <2>1. rob # << >> => rob[1].pc \in PC
      BY <1>3, RobHead DEF RobEntry
    <2>2. GetCause \in Cause \cup {"none"}
      BY DEF GetCause, Cause
    <2>3. QED
      BY <2>1, <2>2 DEF TrapInv, TypeOK, RunPre, TakeInterrupt, RaiseException, RetireEnds, WalkBack, commitvars
  <1>5. /\ stage' \in {"clint", "commit", "units", "front", "sync"}
        /\ slot' \in Nat /\ lines' \in SUBSET Cause
        /\ state' \in {"normal", "flush", "interrupt_flush"}
    BY DEF TrapInv, TypeOK, RunPre, TakeInterrupt, RaiseException, RetireEnds, WalkBack, commitvars
  <1>6. TypeOK'
    BY <1>1, <1>2, <1>4, <1>5 DEF TrapInv, TypeOK
  <1>7. Results' /\ Path' /\ OnlySerialIssued'
    BY <1>1 DEF TrapInv, Inv, Results, Result, Writes, Path, OnlySerialIssued
  <1>8. SerialAlone'
    BY <1>1 DEF TrapInv, Inv, SerialAlone
  <1>9. Drained'
    BY <1>1 DEF TrapInv, Inv, Drained, RunPre, TakeInterrupt, RaiseException, RetireEnds, WalkBack
  <1>10. Walking'
    <2>1. rob # << >> => Len(rob) \in 1 .. Len(rob)
      BY <1>3, RobHead
    <2>2. QED
      BY <1>1, <1>3, <2>1 DEF TrapInv, Inv, Walking, Drained, RunPre, TakeInterrupt, RaiseException,
                   RetireEnds, WalkBack, Committing, commitvars
  <1>11. FlushOf'
    <2>1. TakeInterrupt => csr_q = << >> /\ "MIE" \in csr["mstatus"]
      BY DEF TrapInv, Inv, Drained, TakeInterrupt, Committing, GetCause, Enabled
    <2>2. QED
      BY <1>1, <2>1 DEF TrapInv, Inv, FlushOf, RunPre, TakeInterrupt, RaiseException,
                   RetireEnds, WalkBack, Committing, commitvars
  <1>12. QED
    BY <1>2, <1>6, <1>7, <1>8, <1>9, <1>10, <1>11 DEF TrapInv, Inv

-----------------------------------------------------------------------------
(* An entry whose result has reached the ROB.                               *)
LEMMA FinishEntry ==
    ASSUME NEW e \in RobEntry, Result(csr, e),
           e.status = "executed" \/ (e.status = "waiting" /\ ~Serial(e.ins))
    PROVE  /\ Finish(e) \in RobEntry
           /\ Finish(e).pc = e.pc /\ Finish(e).ins = e.ins /\ Finish(e).status = "finished"
           /\ Result(csr, Finish(e))
  <1> DEFINE f == Finish(e)
  <1>1. /\ f.pc = e.pc /\ f.ins = e.ins /\ f.status = "finished"
        /\ f.write = e.write /\ f.target = e.target
        /\ f.exception = (e.exception \/ e.ins.k = "fault")
    BY DEF Finish, RobEntry
  <1>2. f \in RobEntry
    BY DEF Finish, RobEntry
  <1> HIDE DEF f
  <1>3. Result(csr, f)
    <2>1. CASE e.status = "executed"
      BY <1>1, <2>1 DEF Result, Writes, Raises
    <2>2. CASE e.status = "waiting" /\ ~Serial(e.ins)
      BY <1>1, <2>2 DEF Result, Writes, Raises, Serial
    <2>3. QED
      BY <2>1, <2>2
  <1>4. QED
    BY <1>1, <1>2, <1>3 DEF f

(* The csr unit or the bru executes an entry.                               *)
LEMMA ExecutedEntry ==
    ASSUME CsrTyped(csr), NEW e \in RobEntry, Result(csr, e), e.status = "issued", Serial(e.ins)
    PROVE  /\ Executed(e) \in RobEntry
           /\ Executed(e).pc = e.pc /\ Executed(e).ins = e.ins /\ Executed(e).status = "executed"
           /\ Result(csr, Executed(e))
  <1> DEFINE f == Executed(e)
             i == e.ins
             v == Combine(i, csr[i.addr])
  <1>1. /\ e.write = << >> /\ ~e.exception /\ i \in Instr /\ csr["mepc"] \in PC
        /\ e.exception \in BOOLEAN
    BY DEF Result, RobEntry, CsrTyped
  <1>2. CASE i.k = "csrw"
    <2>1. f = [e EXCEPT !.status = "executed", !.write = <<i.to>>]
      BY <1>2 DEF Executed
    <2>2. i.to \in Values
      BY <1>1 DEF Values
    <2>3. QED
      BY <1>1, <1>2, <2>1, <2>2, ZenonT(30) DEF RobEntry, Result, Writes, Raises
  <1>3. CASE i.k = "mret"
    <2>1. f = [e EXCEPT !.status = "executed", !.target = csr["mepc"]]
      BY <1>3 DEF Executed
    <2>2. QED
      BY <1>1, <1>3, <2>1 DEF RobEntry, Result, Writes, Raises
  <1>4. CASE i.k = "csr" /\ Illegal(i)
    <2>1. f = [e EXCEPT !.status = "executed", !.exception = TRUE]
      BY <1>4 DEF Executed
    <2>2. QED
      BY <1>1, <1>4, <2>1 DEF RobEntry, Result, Writes, Raises
  <1>5. CASE i.k = "csr" /\ ~Illegal(i) /\ i.op = "r"
    <2>1. f = [e EXCEPT !.status = "executed"]
      BY <1>5 DEF Executed
    <2>2. QED
      BY <1>1, <1>5, <2>1 DEF RobEntry, Result, Writes, Raises
  <1>6. CASE i.k = "csr" /\ ~Illegal(i) /\ i.op # "r"
    <2>1. f = [e EXCEPT !.status = "executed", !.write = <<v>>]
      BY <1>6 DEF Executed
    <2>2. csr[i.addr] \in SUBSET AllBits
      BY <1>1, <1>6, InstrAssumption DEF Illegal, Mapped, CsrTyped, AllBits
    <2>3. v \in Values
      BY <1>1, <2>2 DEF Values
    <2> HIDE DEF f, v
    <2>4. /\ f \in RobEntry /\ f.pc = e.pc /\ f.ins = i /\ f.status = "executed"
          /\ f.write = <<v>> /\ f.exception = FALSE
      BY <1>1, <2>1, <2>3 DEF RobEntry
    <2>5. Writes(csr, f)
      BY <1>6, <2>4 DEF Writes, v
    <2>6. Result(csr, f)
      BY <1>6, <2>4, <2>5 DEF Result, Raises
    <2>7. QED
      BY <2>4, <2>6 DEF f
  <1>7. QED
    BY <1>2, <1>3, <1>4, <1>5, <1>6 DEF Serial
(* The ROB after an operation that changes entries but neither their        *)
(* number, nor their instructions.                                          *)
LEMMA SameRob ==
    ASSUME TrapInv, NEW r, r = [k \in 1 .. Len(rob) |-> r[k]],
           \A k \in 1 .. Len(rob) : r[k] \in RobEntry /\ r[k].pc = rob[k].pc
                                                      /\ r[k].ins = rob[k].ins
    PROVE  r \in Seq(RobEntry) /\ Len(r) = Len(rob) /\ Len(rob) \in Nat
           /\ (r = << >> <=> rob = << >>)
  <1>1. rob \in Seq(RobEntry) /\ Len(rob) \in Nat
    BY LenProperties DEF TrapInv, TypeOK
  <1>2. r \in [1 .. Len(rob) -> RobEntry]
    OBVIOUS
  <1>3. r \in Seq(RobEntry) /\ Len(r) = Len(rob)
    BY <1>1, <1>2
  <1>4. QED
    BY <1>1, <1>3, EmptySeq

LEMMA UnitsInv ==
    ASSUME TrapInv, Units
    PROVE  /\ TrapInv' /\ PendingCsr' = PendingCsr
           /\ (rob' = << >> <=> rob = << >>) /\ (rob # << >> => rob'[1].pc = rob[1].pc)
  <1>1. PICK F \in SUBSET {k \in 1 .. Len(rob) : Finishable(k)},
             X \in SUBSET {k \in 1 .. Len(rob) : rob[k].status = "issued"} :
               rob' = [k \in 1 .. Len(rob) |-> CASE k \in F -> Finish(rob[k])
                                                 [] k \in X -> Executed(rob[k])
                                                 [] OTHER -> rob[k]]
    BY DEF Units
  <1>2. /\ stage = "units" /\ stage' = "front"
        /\ UNCHANGED <<slot, lines, csr, csr_q, pc, jump_wait, state, restore, cause, cause_pc>>
    BY DEF Units, frontvars, commitvars
  <1>3. rob \in Seq(RobEntry) /\ Len(rob) \in Nat /\ CsrTyped(csr)
    BY LenProperties DEF TrapInv, TypeOK
  <1>4. ASSUME NEW k \in 1 .. Len(rob)
        PROVE  /\ rob'[k] \in RobEntry /\ rob'[k].pc = rob[k].pc /\ rob'[k].ins = rob[k].ins
               /\ Result(csr, rob'[k])
               /\ rob'[k] # rob[k] => \/ rob[k].status \in {"issued", "executed"} /\ Serial(rob[k].ins)
                                      \/ ~Serial(rob[k].ins) /\ rob'[k].status = "finished"
               /\ rob'[k].status \in {"issued", "executed"} => Serial(rob[k].ins)
    <2>1. /\ rob[k] \in RobEntry /\ Result(csr, rob[k])
          /\ rob[k].status \in {"issued", "executed"} => Serial(rob[k].ins)
      BY <1>3, ElementOfSeq DEF TrapInv, Inv, Results, OnlySerialIssued
    <2>2. CASE k \in F
      <3>2. rob[k].status = "executed" \/ (rob[k].status = "waiting" /\ ~Serial(rob[k].ins))
        BY <2>2 DEF Finishable
      <3>1. rob'[k] = Finish(rob[k])
        <4>1. k \notin X
          BY <3>2
        <4>2. QED
          BY <1>1, <2>2, <4>1
      <3>3. QED
        BY <2>1, <3>1, <3>2, FinishEntry
    <2>3. CASE k \notin F /\ k \in X
      <3>1. rob'[k] = Executed(rob[k]) /\ rob[k].status = "issued"
        BY <1>1, <2>3
      <3>2. QED
        BY <1>3, <2>1, <3>1, ExecutedEntry
    <2>4. CASE k \notin F /\ k \notin X
      <3>1. rob'[k] = rob[k]
        BY <1>1, <2>4
      <3>2. QED
        BY <2>1, <3>1
    <2>5. QED
      BY <2>2, <2>3, <2>4
  <1>5. rob' = [k \in 1 .. Len(rob) |-> rob'[k]]
    BY <1>1
  <1>6. rob' \in Seq(RobEntry) /\ Len(rob') = Len(rob) /\ (rob' = << >> <=> rob = << >>)
    BY <1>4, <1>5, SameRob
  <1>7. PendingCsr' = PendingCsr
    BY <1>2 DEF PendingCsr
  <1>8. TypeOK'
    BY <1>2, <1>6, <1>7 DEF TrapInv, TypeOK
  <1>9. Results'
    BY <1>2, <1>4, <1>6 DEF Results
  <1>10. Path'
    BY <1>2, <1>3, <1>4, <1>6 DEF TrapInv, Inv, Path
  <1>11. SerialAlone' /\ OnlySerialIssued'
    BY <1>2, <1>4, <1>6 DEF TrapInv, Inv, SerialAlone, OnlySerialIssued
  <1>12. Drained' /\ Walking' /\ FlushOf'
    BY <1>2 DEF TrapInv, Inv, Drained, Walking, FlushOf
  <1>13. rob # << >> => rob'[1].pc = rob[1].pc
    BY <1>3, <1>4, RobHead
  <1>14. QED
    BY <1>6, <1>7, <1>8, <1>9, <1>10, <1>11, <1>12, <1>13 DEF TrapInv, Inv
(* Issue gives a serial instruction to its unit.                            *)
LEMMA IssueEntry ==
    ASSUME NEW e \in RobEntry, Result(csr, e), e.status = "waiting"
    PROVE  LET f == [e EXCEPT !.status = "issued"]
           IN  /\ f \in RobEntry /\ f.pc = e.pc /\ f.ins = e.ins /\ f.status = "issued"
               /\ Result(csr, f)
  BY DEF RobEntry, Result

LEMMA IssueRenameInv ==
    ASSUME TrapInv, IssueRename
    PROVE  /\ TrapInv' /\ PendingCsr' = PendingCsr
           /\ rob # << >> => rob' # << >> /\ rob'[1].pc = rob[1].pc
           /\ rob = << >> => IF rob' = << >> THEN pc' = pc ELSE rob'[1].pc = pc
  <1> DEFINE A(s) == [k \in 1 .. Len(rob) |-> IF k = s THEN [rob[k] EXCEPT !.status = "issued"]
                                                       ELSE rob[k]]
             B(new) == [k \in 1 .. Len(new) |-> Entry(new[k])]
  <1>1. PICK s \in 0 .. Len(rob), new \in {<< >>} \cup {<<i>> : i \in Instr} :
          /\ s # 0 => MayIssue(s)
          /\ new # << >> => Len(rob) < RobSize /\ ~jump_wait
          /\ rob' = A(s) \o B(new)
          /\ pc' = IF new = << >> THEN pc ELSE Next_pc(pc)
          /\ jump_wait' = (jump_wait \/ (new # << >> /\ new[1].k = "mret"))
    BY DEF IssueRename
  <1> DEFINE a == A(s)
  <1>2. /\ stage = "front" /\ stage' = "sync"
        /\ UNCHANGED <<slot, lines, csr, csr_q, state, restore, cause, cause_pc>>
    BY DEF IssueRename, commitvars
  <1>3. rob \in Seq(RobEntry) /\ Len(rob) \in Nat /\ pc \in PC
    BY LenProperties DEF TrapInv, TypeOK
  <1>4. ASSUME NEW k \in 1 .. Len(rob)
        PROVE  /\ a[k] \in RobEntry /\ a[k].pc = rob[k].pc /\ a[k].ins = rob[k].ins
               /\ Result(csr, a[k])
               /\ a[k] # rob[k] => /\ k = 1 /\ Serial(rob[k].ins)
                                   /\ a[k].status = "issued"
    <2>1. rob[k] \in RobEntry /\ Result(csr, rob[k])
      BY <1>3, ElementOfSeq DEF TrapInv, Inv, Results
    <2>2. CASE k = s
      <3>1. a[k] = [rob[k] EXCEPT !.status = "issued"]
        BY <2>2
      <3>2. k = 1 /\ rob[k].status = "waiting" /\ Serial(rob[k].ins)
        BY <1>1, <2>2 DEF MayIssue
      <3> HIDE DEF a
      <3>3. QED
        BY <2>1, <3>1, <3>2, IssueEntry
    <2>3. CASE k # s
      <3>1. a[k] = rob[k]
        BY <2>3
      <3> HIDE DEF a
      <3>2. QED
        BY <2>1, <3>1
    <2>4. QED
      BY <2>2, <2>3
  <1>5. a = [k \in 1 .. Len(rob) |-> a[k]]
    OBVIOUS
  <1>6. rob' = a \o B(new)
    BY <1>1
  <1> HIDE DEF a
  <1>7. a \in Seq(RobEntry) /\ Len(a) = Len(rob) /\ (a = << >> <=> rob = << >>)
    BY <1>4, <1>5, SameRob
  <1>8. /\ SerialAlone /\ OnlySerialIssued /\ Path
    BY DEF TrapInv, Inv
  <1>9. PendingCsr' = PendingCsr
    BY <1>2 DEF PendingCsr
  <1>10. Drained' /\ Walking' /\ FlushOf'
    BY <1>2 DEF TrapInv, Inv, Drained, Walking, FlushOf
  <1>11. CASE new = << >>
    <2>1. B(new) = << >>
      BY <1>11
    <2>2. rob' = a /\ pc' = pc /\ jump_wait' = jump_wait
      <3>1. rob' = a
        BY <1>6, <1>7, <2>1, ConcatEmptySeq
      <3>2. jump_wait \in BOOLEAN
        BY DEF TrapInv, TypeOK
      <3>3. QED
        BY <1>1, <1>11, <3>1, <3>2
    <2>3. TypeOK'
      BY <1>2, <1>7, <1>9, <2>2 DEF TrapInv, TypeOK
    <2>4. Results'
      BY <1>2, <1>4, <1>7, <2>2 DEF Results
    <2>5. Path'
      BY <1>3, <1>4, <1>7, <1>8, <2>2 DEF Path
    <2>6. SerialAlone' /\ OnlySerialIssued'
      BY <1>2, <1>4, <1>7, <1>8, <2>2 DEF SerialAlone, OnlySerialIssued
    <2>7. rob # << >> => rob' # << >> /\ rob'[1].pc = rob[1].pc
      BY <1>3, <1>4, <1>7, <2>2, RobHead
    <2>8. QED
      BY <1>7, <1>9, <1>10, <2>2, <2>3, <2>4, <2>5, <2>6, <2>7 DEF TrapInv, Inv
  <1>12. CASE new # << >>
    <2>1. PICK i \in Instr : new = <<i>>
      BY <1>12
    <2> DEFINE e == Entry(i)
    <2>2. e \in RobEntry /\ e.pc = pc /\ e.ins = i /\ e.status = "waiting" /\ Result(csr, e)
      BY <1>3, NextPcTyped DEF Entry, RobEntry, Result
    <2>3. B(new) = <<Entry(i)>>
      BY <2>1
    <2> HIDE DEF e
    <2>4. rob' = Append(a, e)
      BY <1>6, <1>7, <2>2, <2>3, AppendIsConcat DEF e
    <2>5. /\ rob' \in Seq(RobEntry) /\ Len(rob') = Len(rob) + 1 /\ rob'[Len(rob) + 1] = e
          /\ \A k \in 1 .. Len(rob) : rob'[k] = a[k]
          /\ rob' # << >>
      <3>1. /\ Append(a, e) \in Seq(RobEntry) /\ Len(Append(a, e)) = Len(a) + 1
            /\ Append(a, e)[Len(a) + 1] = e
            /\ \A k \in 1 .. Len(a) : Append(a, e)[k] = a[k]
            /\ Append(a, e) # << >>
        BY <1>7, <2>2, AppendProperties
      <3>2. QED
        BY <1>7, <2>4, <3>1
    <2>6. ~jump_wait /\ pc' = Next_pc(pc) /\ jump_wait' = (i.k = "mret")
      BY <1>1, <1>12, <2>1
    <2>7. TypeOK'
      BY <1>2, <1>3, <1>9, <2>5, <2>6, NextPcTyped DEF TrapInv, TypeOK
    <2>8. ASSUME NEW k \in 1 .. Len(rob')
          PROVE  k \in 1 .. Len(rob) \/ (k = Len(rob) + 1 /\ rob'[k] = e)
      BY <1>3, <2>5
    <2>9. Results'
      BY <1>2, <1>4, <2>2, <2>5, <2>8 DEF Results
    <2>10. SerialAlone' /\ OnlySerialIssued'
      <3>1. ASSUME NEW k \in 1 .. Len(rob')
            PROVE  /\ Serial(rob'[k].ins) /\ rob'[k].status # "waiting" =>
                           k = 1 /\ (csr_q = << >> \/ rob'[k].status = "issued")
                   /\ rob'[k].status \in {"issued", "executed"} => Serial(rob'[k].ins)
        <4>1. CASE k \in 1 .. Len(rob)
          BY <1>2, <1>4, <1>8, <2>5, <4>1 DEF SerialAlone, OnlySerialIssued
        <4>2. CASE k = Len(rob) + 1 /\ rob'[k] = e
          BY <2>2, <4>2
        <4>3. QED
          BY <2>8, <4>1, <4>2
      <3>2. QED
        BY <1>2, <3>1 DEF SerialAlone, OnlySerialIssued
    <2>11. Path'
      <3>1. ASSUME NEW k \in 1 .. Len(rob') - 1
            PROVE  rob'[k].ins.k # "mret" /\ rob'[k + 1].pc = Next_pc(rob'[k].pc)
        <4>1. k \in 1 .. Len(rob) /\ rob'[k] = a[k] /\ a[k].ins = rob[k].ins /\ a[k].pc = rob[k].pc
          BY <1>3, <1>4, <2>5
        <4>2. CASE k = Len(rob)
          BY <1>3, <1>8, <2>2, <2>5, <2>6, <4>1, <4>2 DEF Path
        <4>3. CASE k # Len(rob)
          <5>1. k \in 1 .. Len(rob) - 1 /\ k + 1 \in 1 .. Len(rob)
            BY <1>3, <4>1, <4>3
          <5>2. rob'[k + 1].pc = rob[k + 1].pc
            BY <1>4, <2>5, <5>1
          <5>3. QED
            BY <1>8, <4>1, <5>1, <5>2 DEF Path
        <4>4. QED
          BY <4>2, <4>3
      <3>2. QED
        BY <1>3, <2>2, <2>5, <2>6, <3>1 DEF Path
    <2>12. rob # << >> => rob'[1].pc = rob[1].pc
      BY <1>3, <1>4, <2>5, RobHead
    <2>13. rob = << >> => rob'[1].pc = pc
      BY <2>2, <2>5
    <2>14. QED
      BY <1>9, <1>10, <2>5, <2>7, <2>9, <2>10, <2>11, <2>12, <2>13 DEF TrapInv, Inv
  <1>13. QED
    BY <1>11, <1>12
-----------------------------------------------------------------------------
(* Requests of instructions and of commit itself.                           *)
User(a, v) == [sys |-> FALSE, addr |-> a, val |-> v]
LEMMA RequestValues ==
    /\ Values \subseteq RequestValue /\ SUBSET AllBits \subseteq RequestValue
    /\ PC \subseteq RequestValue /\ Cause \cup {"exception", "none"} \subseteq RequestValue
  <1>1. Values \subseteq RequestValue
    BY Zenon DEF RequestValue
  <1>2. SUBSET AllBits \subseteq RequestValue
    BY Zenon DEF RequestValue
  <1>3. PC \subseteq RequestValue
    BY Zenon DEF RequestValue
  <1>4. Cause \cup {"exception", "none"} \subseteq RequestValue
    BY Zenon DEF RequestValue
  <1>5. QED
    BY <1>1, <1>2, <1>3, <1>4
LEMMA RequestFacts ==
    ASSUME NEW a \in Mapped \ {"readonly"}, NEW v \in RequestValue
    PROVE  /\ Sys(a, v) \in Request /\ Sys(a, v).addr = a /\ Sys(a, v).val = v
           /\ User(a, v) \in Request /\ User(a, v).addr = a /\ User(a, v).val = v
  BY DEF Sys, User, Request

(* The entry that retires, and its request to the csr file.                 *)
MretStatus == IF "MPIE" \in csr["mstatus"] THEN csr["mstatus"] \cup {"MIE"}
                                            ELSE csr["mstatus"] \ {"MIE"}
CsrWrites(i) == i.k = "csr" /\ i.op # "r"

LEMMA RetireFacts ==
    ASSUME TrapInv, Retire
    PROVE  /\ rob # << >> /\ rob[1] \in RobEntry /\ Len(rob) \in Nat \ {0}
           /\ rob[1].ins \in Instr /\ ~Raises(rob[1].ins) /\ Writes(csr, rob[1])
           /\ Serial(rob[1].ins) => csr_q = << >>
           /\ rob[1].ins.k = "mret" => rob[1].target = csr["mepc"]
           /\ state = "normal" /\ stage = "commit"
  <1>1. rob \in Seq(RobEntry) /\ rob # << >> /\ rob[1].status = "finished" /\ ~rob[1].exception
        /\ state = "normal" /\ stage = "commit"
    BY DEF TrapInv, TypeOK, Retire, Committing
  <1>2. Len(rob) \in Nat \ {0} /\ 1 \in 1 .. Len(rob) /\ rob[1] \in RobEntry
    BY <1>1, RobHead
  <1>3. Result(csr, rob[1])
    BY <1>2 DEF TrapInv, Inv, Results
  <1>4. Serial(rob[1].ins) => csr_q = << >>
    BY <1>1, <1>2 DEF TrapInv, Inv, SerialAlone
  <1>5. rob[1].ins \in Instr
    BY <1>2 DEF RobEntry
  <1>6. QED
    BY <1>1, <1>2, <1>3, <1>4, <1>5 DEF Result

LEMMA RetireRequest ==
    ASSUME TrapInv, Retire
    PROVE  LET i == rob[1].ins
           IN  /\ i.k = "mret" => csr_q' = <<Sys("mstatus", MretStatus)>>
               /\ i.k = "csrw" => csr_q' = <<User(i.addr, i.to)>>
               /\ CsrWrites(i) => /\ i.addr \in {"mstatus", "mie", "mip"}
                                  /\ \E v \in Values :
                                        /\ csr_q' = <<User(i.addr, v)>>
                                        /\ i.addr # "mip" => v = Combine(i, csr[i.addr])
               /\ i.k \notin {"mret", "csrw"} /\ ~CsrWrites(i) => csr_q' = csr_q
  <1> DEFINE e == rob[1]
             i == rob[1].ins
             U == IF e.write # << >> THEN <<User(i.addr, e.write[1])>> ELSE << >>
             M == IF i.k = "mret" THEN <<Sys("mstatus", MretStatus)>> ELSE << >>
  <1>1. csr_q' = (csr_q \o U) \o M
    BY DEF Retire, User, Sys, MretStatus
  <1>2. /\ i \in Instr /\ ~Raises(i) /\ Writes(csr, e)
        /\ Serial(i) => csr_q = << >>
        /\ csr_q \in Seq(Request)
        /\ e.write \in {<< >>} \cup {<<v>> : v \in Values}
    BY RetireFacts DEF TrapInv, TypeOK, RobEntry
  <1>3. ASSUME NEW x PROVE << >> \o <<x>> = <<x>> /\ << >> \o << >> = << >> /\ <<x>> \o << >> = <<x>>
    OBVIOUS
  <1> HIDE DEF e, i
  <1>4. CASE i.k = "mret"
    <2>1. e.write = << >> /\ csr_q = << >>
      BY <1>2, <1>4 DEF Writes, Serial, i, e
    <2>2. U = << >> /\ M = <<Sys("mstatus", MretStatus)>>
      BY <1>4, <2>1
    <2> HIDE DEF U, M
    <2>3. csr_q' = <<Sys("mstatus", MretStatus)>>
      BY <1>1, <1>3, <2>1, <2>2
    <2>4. QED
      BY <1>4, <2>3 DEF CsrWrites, i, e
  <1>5. CASE i.k = "csrw"
    <2>1. e.write = <<i.to>> /\ csr_q = << >>
      BY <1>2, <1>5 DEF Writes, Serial, i, e
    <2>2. U = <<User(i.addr, i.to)>> /\ M = << >>
      BY <1>5, <2>1
    <2> HIDE DEF U, M
    <2>3. csr_q' = <<User(i.addr, i.to)>>
      BY <1>1, <1>3, <2>1, <2>2
    <2>4. QED
      BY <1>5, <2>3 DEF CsrWrites, i, e
  <1>6. CASE CsrWrites(i)
    <2>1. i.k = "csr" /\ i.op # "r" /\ ~Illegal(i)
      BY <1>2, <1>6 DEF CsrWrites, Raises
    <2>2. i.addr \in {"mstatus", "mie", "mip"}
      BY <1>2, <2>1, InstrAssumption DEF Illegal, Mapped, WriteCheck
    <2>3. csr_q = << >> /\ e.write # << >>
          /\ (i.addr # "mip" => e.write = <<Combine(i, csr[i.addr])>>)
      BY <1>2, <2>1 DEF Writes, Serial, i, e
    <2>4. PICK v \in Values : e.write = <<v>>
      BY <1>2, <2>3
    <2>5. U = <<User(i.addr, v)>> /\ M = << >>
      BY <2>1, <2>4
    <2> HIDE DEF U, M
    <2>6. csr_q' = <<User(i.addr, v)>>
      BY <1>1, <1>3, <2>3, <2>5
    <2>7. i.addr # "mip" => v = Combine(i, csr[i.addr])
      BY <2>3, <2>4
    <2>8. QED
      BY <1>6, <2>1, <2>2, <2>6, <2>7 DEF i, e
  <1>7. CASE i.k \notin {"mret", "csrw"} /\ ~CsrWrites(i)
    <2>1. e.write = << >>
      BY <1>2, <1>7 DEF Writes, CsrWrites, i, e
    <2>2. U = << >> /\ M = << >>
      BY <1>7, <2>1
    <2> HIDE DEF U, M
    <2>3. csr_q' = csr_q
      BY <1>1, <1>2, <2>2, ConcatEmptySeq
    <2>4. QED
      BY <1>7, <2>3 DEF i, e
  <1>8. QED
    BY <1>4, <1>5, <1>6, <1>7
LEMMA OneRequest ==
    ASSUME NEW c, CsrTyped(c), NEW w
    PROVE  Applied(c, <<w>>) = Write(c, w)
  <1>1. << >> \in Seq({w}) /\ w \in {w} /\ Append(<< >>, w) = <<w>>
    BY EmptySeq
  <1>2. Applied(c, << >>) = c
    BY AppliedEmpty DEF CsrTyped
  <1>3. Applied(c, Append(<< >>, w)) = Write(Applied(c, << >>), w)
    BY <1>1, AppliedAppend
  <1>4. QED
    BY <1>1, <1>2, <1>3

(* What retirement makes of the csr file once its request is applied.       *)
LEMMA RetirePending ==
    ASSUME TrapInv, Retire
    PROVE  LET i == rob[1].ins
           IN  /\ csr_q' \in Seq(Request) /\ CsrTyped(PendingCsr')
               /\ Serial(i) => PendingCsr = csr
               /\ i.k = "mret" => PendingCsr' = Write(csr, Sys("mstatus", MretStatus))
               /\ i.k = "csrw" => PendingCsr' = Write(csr, User(i.addr, i.to))
               /\ CsrWrites(i) => \E v : /\ PendingCsr' = Write(csr, User(i.addr, v))
                                         /\ i.addr # "mip" => v = Combine(i, csr[i.addr])
               /\ i.k \notin {"mret", "csrw"} /\ ~CsrWrites(i) => PendingCsr' = PendingCsr
  <1> DEFINE i == rob[1].ins
  <1>1. csr' = csr /\ CsrTyped(csr) /\ CsrTyped(PendingCsr) /\ csr_q \in Seq(Request) /\ i \in Instr
    BY RetireFacts DEF Retire, TrapInv, TypeOK
  <1>2. Serial(i) => PendingCsr = csr
    BY <1>1, RetireFacts, AppliedEmpty DEF PendingCsr, CsrTyped
  <1>3. ASSUME NEW w, csr_q' = <<w>>
        PROVE  PendingCsr' = Write(csr, w)
    <2>1. Applied(csr, <<w>>) = Write(csr, w)
      BY <1>1, OneRequest
    <2>2. PendingCsr' = Applied(csr, <<w>>)
      BY <1>1, <1>3 DEF PendingCsr
    <2>3. QED
      BY <2>1, <2>2
  <1>4. ASSUME NEW w, csr_q' = <<w>>, w \in Request, w.addr \in {"mepc", "mtvec"} => w.val \in PC
        PROVE  csr_q' \in Seq(Request) /\ CsrTyped(PendingCsr')
    <2>1. w.addr \in Mapped \ {"readonly"}
      BY <1>4 DEF Request
    <2>2. CsrTyped(Write(csr, w))
      BY <1>1, <1>4, <2>1, WriteTyped
    <2>3. QED
      BY <1>3, <1>4, <2>2
  <1> HIDE DEF i
  <1>5. CASE i.k = "mret"
    <2> DEFINE w == Sys("mstatus", MretStatus)
    <2>1. csr_q' = <<w>>
      BY <1>5, RetireRequest DEF i
    <2>2. w.addr = "mstatus" /\ w \in Request
      <3>1. MretStatus \in SUBSET AllBits
        BY <1>1 DEF MretStatus, CsrTyped, AllBits
      <3>2. "mstatus" \in Mapped \ {"readonly"} /\ MretStatus \in RequestValue
        BY <3>1, RequestValues DEF Mapped
      <3>3. QED
        BY <3>2, RequestFacts
    <2> HIDE DEF w
    <2>3. csr_q' \in Seq(Request) /\ CsrTyped(PendingCsr') /\ PendingCsr' = Write(csr, w)
      BY <1>3, <1>4, <2>1, <2>2
    <2>4. QED
      BY <1>2, <1>5, <2>3 DEF CsrWrites, i, w
  <1>6. CASE i.k = "csrw"
    <2> DEFINE w == User(i.addr, i.to)
    <2>1. csr_q' = <<w>>
      BY <1>6, RetireRequest DEF i
    <2>2. w.val \in PC /\ w \in Request
      <3>1. i.to \in PC /\ i.addr \in {"mepc", "mtvec"}
        BY <1>1, <1>6, InstrAssumption DEF PC
      <3>2. i.addr \in Mapped \ {"readonly"} /\ i.to \in RequestValue
        BY <3>1, RequestValues DEF Mapped
      <3>3. QED
        BY <3>1, <3>2, RequestFacts
    <2> HIDE DEF w
    <2>3. csr_q' \in Seq(Request) /\ CsrTyped(PendingCsr') /\ PendingCsr' = Write(csr, w)
      BY <1>3, <1>4, <2>1, <2>2
    <2>4. QED
      BY <1>2, <1>6, <2>3 DEF CsrWrites, i, w
  <1>7. CASE CsrWrites(i)
    <2>1. PICK v \in Values : /\ csr_q' = <<User(i.addr, v)>>
                              /\ i.addr # "mip" => v = Combine(i, csr[i.addr])
      BY <1>7, RetireRequest DEF i
    <2>2. i.addr \in {"mstatus", "mie", "mip"}
      BY <1>7, RetireRequest DEF i
    <2> DEFINE w == User(i.addr, v)
    <2>3. w.addr = i.addr /\ w \in Request
      <3>1. i.addr \in Mapped \ {"readonly"} /\ v \in RequestValue
        BY <2>2, RequestValues DEF Mapped
      <3>2. QED
        BY <3>1, RequestFacts
    <2>4. csr_q' = <<w>>
      BY <2>1
    <2> HIDE DEF w
    <2>5. csr_q' \in Seq(Request) /\ CsrTyped(PendingCsr') /\ PendingCsr' = Write(csr, w)
      BY <1>3, <1>4, <2>2, <2>3, <2>4
    <2>6. QED
      BY <1>2, <1>7, <2>1, <2>5 DEF CsrWrites, i, w
  <1>8. CASE i.k \notin {"mret", "csrw"} /\ ~CsrWrites(i)
    <2>1. csr_q' = csr_q
      BY <1>8, RetireRequest DEF i
    <2>2. PendingCsr' = PendingCsr
      BY <1>1, <2>1 DEF PendingCsr
    <2>3. QED
      BY <1>1, <1>2, <1>8, <2>1, <2>2 DEF i
  <1>9. QED
    BY <1>5, <1>6, <1>7, <1>8

(* Retirement keeps the invariant and leads to the following instruction,   *)
(* or to what an mret has read.                                             *)
LEMMA RetireInv ==
    ASSUME TrapInv, Retire
    PROVE  /\ TrapInv'
           /\ (IF rob' = << >> THEN pc' ELSE rob'[1].pc) =
                 IF rob[1].ins.k = "mret" THEN csr["mepc"] ELSE Next_pc(rob[1].pc)
  <1> DEFINE e == rob[1]
             n == Len(rob)
  <1>1. /\ rob # << >> /\ e \in RobEntry /\ n \in Nat \ {0}
        /\ state = "normal" /\ stage = "commit"
        /\ e.ins.k = "mret" => e.target = csr["mepc"]
    BY RetireFacts
  <1>2. /\ rob' = Tail(rob) /\ slot' = slot + 1
        /\ stage' \in {"units", "commit"}
        /\ UNCHANGED <<lines, csr, state, restore, cause, cause_pc>>
        /\ IF e.ins.k = "mret" THEN pc' = e.target /\ jump_wait' = FALSE
                               ELSE pc' = pc /\ jump_wait' = jump_wait
    BY DEF Retire, commitvars, frontvars
  <1>3. rob \in Seq(RobEntry) /\ slot \in Nat
    BY DEF TrapInv, TypeOK
  <1>4. /\ Tail(rob) \in Seq(RobEntry) /\ Len(Tail(rob)) = n - 1
        /\ \A k \in 1 .. n - 1 : Tail(rob)[k] = rob[k + 1]
    BY <1>1, <1>3, HeadTailProperties
  <1>5. /\ rob' \in Seq(RobEntry) /\ Len(rob') = n - 1
        /\ \A k \in 1 .. n - 1 : rob'[k] = rob[k + 1] /\ k + 1 \in 1 .. n
        /\ rob' = << >> <=> n = 1
    <2>1. rob' = << >> => Len(rob') = 0
      BY EmptySeq
    <2>2. rob' # << >> => Len(rob') \in Nat \ {0}
      BY <1>2, <1>4, EmptySeq
    <2>3. QED
      BY <1>1, <1>2, <1>4, <2>1, <2>2
  <1> HIDE DEF e, n
  <1>6. pc' \in PC /\ jump_wait' \in BOOLEAN
    BY <1>1, <1>2 DEF TrapInv, TypeOK, RobEntry
  <1>7. TypeOK'
    BY <1>1, <1>2, <1>3, <1>5, <1>6, RetirePending DEF TrapInv, TypeOK
  <1>8. Results'
    BY <1>2, <1>5 DEF TrapInv, Inv, Results, n
  <1>9. \A k \in 1 .. Len(rob') : Serial(rob'[k].ins) => rob'[k].status = "waiting"
    <2>1. TAKE k \in 1 .. Len(rob')
    <2>2. rob'[k] = rob[k + 1] /\ k + 1 \in 1 .. Len(rob) /\ k + 1 # 1
      BY <1>1, <1>5 DEF n
    <2>3. QED
      BY <2>2 DEF TrapInv, Inv, SerialAlone
  <1>10. SerialAlone' /\ OnlySerialIssued'
    <2>1. SerialAlone'
      BY <1>9 DEF SerialAlone
    <2>2. OnlySerialIssued'
      BY <1>5 DEF TrapInv, Inv, OnlySerialIssued, n
    <2>3. QED
      BY <2>1, <2>2
  <1>11. /\ \A k \in 1 .. n - 1 : rob[k].ins.k # "mret" /\ rob[k + 1].pc = Next_pc(rob[k].pc)
         /\ IF rob[n].ins.k = "mret" THEN jump_wait ELSE pc = Next_pc(rob[n].pc)
    BY <1>1 DEF TrapInv, Inv, Path, n
  <1>12. Path'
    <2>1. CASE n = 1
      BY <1>5, <2>1 DEF Path
    <2>2. CASE n # 1
      <3>1. e.ins.k # "mret" /\ pc' = pc /\ jump_wait' = jump_wait
        BY <1>1, <1>2, <1>11, <2>2 DEF e
      <3>2. rob'[Len(rob')] = rob[n]
        BY <1>1, <1>5, <2>2
      <3>3. ASSUME NEW k \in 1 .. Len(rob') - 1
            PROVE  rob'[k].ins.k # "mret" /\ rob'[k + 1].pc = Next_pc(rob'[k].pc)
        <4>1. k \in 1 .. n - 1 /\ k + 1 \in 1 .. n - 1
          BY <1>1, <1>5
        <4>2. rob'[k] = rob[k + 1] /\ rob'[k + 1] = rob[(k + 1) + 1]
          BY <1>5, <4>1
        <4>3. rob[k + 1].ins.k # "mret" /\ rob[(k + 1) + 1].pc = Next_pc(rob[k + 1].pc)
          BY <1>11, <4>1
        <4>4. QED
          BY <4>2, <4>3
      <3>4. QED
        BY <1>11, <3>1, <3>2, <3>3 DEF Path
    <2>3. QED
      BY <2>1, <2>2
  <1>13. Drained' /\ Walking' /\ FlushOf'
    BY <1>1, <1>2, <1>3 DEF Drained, Walking, FlushOf
  <1>14. (IF rob' = << >> THEN pc' ELSE rob'[1].pc) =
                 IF e.ins.k = "mret" THEN csr["mepc"] ELSE Next_pc(e.pc)
    <2>1. CASE n = 1
      BY <1>1, <1>2, <1>5, <1>11, <2>1 DEF e
    <2>2. CASE n # 1
      <3>1. 1 \in 1 .. n - 1
        BY <1>1, <2>2
      <3>2. rob'[1] = rob[2] /\ rob[1].ins.k # "mret" /\ rob[2].pc = Next_pc(rob[1].pc)
        BY <1>5, <1>11, <3>1
      <3>3. QED
        BY <1>5, <2>2, <3>2 DEF e
    <2>3. QED
      BY <2>1, <2>2
  <1>15. QED
    BY <1>7, <1>8, <1>10, <1>12, <1>13, <1>14 DEF TrapInv, Inv, e
-----------------------------------------------------------------------------
LEMMA TupleFacts ==
    ASSUME NEW S, NEW a \in S, NEW b \in S, NEW c \in S
    PROVE  /\ <<a>> \in Seq(S) /\ <<a, b>> \in Seq(S) /\ <<a, b, c>> \in Seq(S)
           /\ Append(<<a>>, b) = <<a, b>> /\ Append(<<a, b>>, c) = <<a, b, c>>
  <1>1. <<a>> \in Seq(S) /\ <<a, b>> \in Seq(S)
    OBVIOUS
  <1>2. <<a, b, c>> \in Seq(S)
    OBVIOUS
  <1>3. Append(<<a>>, b) = <<a, b>>
    <2>1. Append(<<a>>, b) \in Seq(S) /\ Len(Append(<<a>>, b)) = 2 /\ Len(<<a, b>>) = 2
      OBVIOUS
    <2>2. \A i \in 1 .. 2 : Append(<<a>>, b)[i] = <<a, b>>[i]
      OBVIOUS
    <2>3. QED
      BY <1>1, <2>1, <2>2, SeqEqual
  <1>4. Append(<<a, b>>, c) = <<a, b, c>>
    <2>1. Append(<<a, b>>, c) \in Seq(S) /\ Len(Append(<<a, b>>, c)) = 3 /\ Len(<<a, b, c>>) = 3
      OBVIOUS
    <2>2. \A i \in 1 .. 3 : Append(<<a, b>>, c)[i] = <<a, b, c>>[i]
      OBVIOUS
    <2>3. QED
      BY <1>2, <2>1, <2>2, SeqEqual
  <1>5. QED
    BY <1>1, <1>2, <1>3, <1>4

(* The trap is entered with the csr file up to date.                        *)
LEMMA EnterInv ==
    ASSUME TrapInv, EnterException \/ EnterInterrupt
    PROVE  /\ TrapInv' /\ rob' = << >> /\ pc' = csr["mtvec"] /\ state' = "normal"
           /\ PendingCsr = csr
           /\ EnterException => PendingCsr' = Write(Write(csr, Sys("mepc", rob[1].pc)),
                                                    Sys("mcause", "exception"))
           /\ EnterInterrupt => PendingCsr' = Write(Write(Write(csr, Sys("mepc", cause_pc)),
                                                          Sys("mcause", cause)),
                                                    Sys("mstatus", {"MPIE"}))
  <1> DEFINE w1(p) == Sys("mepc", p)
             w2(c) == Sys("mcause", c)
             w3 == Sys("mstatus", {"MPIE"})
  <1>1. /\ stage = "commit" /\ state # "normal" /\ slot = 0 /\ csr_q = << >>
        /\ rob # << >> /\ rob[1].pc \in PC
    <2>1. stage = "commit" /\ state # "normal"
      BY DEF EnterException, EnterInterrupt, Committing
    <2>2. slot = 0 /\ restore \in 1 .. Len(rob) /\ csr_q = << >>
      BY <2>1 DEF TrapInv, Inv, Walking, Drained
    <2>3. rob # << >> /\ rob \in Seq(RobEntry)
      BY <2>2, EmptySeq DEF TrapInv, TypeOK
    <2>4. QED
      BY <2>1, <2>2, <2>3, RobHead DEF RobEntry
  <1>2. /\ rob' = << >> /\ pc' = csr["mtvec"] /\ jump_wait' = FALSE
        /\ state' = "normal" /\ cause' = "none" /\ cause_pc' = 0 /\ stage' = "sync"
        /\ UNCHANGED <<slot, lines, csr>>
    BY DEF EnterException, EnterInterrupt, EnterTrap, Redirect
  <1>3. CsrTyped(csr) /\ cause_pc \in PC /\ cause \in Cause \cup {"none"}
    BY DEF TrapInv, TypeOK
  <1>4. PendingCsr = csr
    BY <1>1, <1>3, AppliedEmpty DEF PendingCsr, CsrTyped
  <1>5. ASSUME NEW p \in PC, NEW c \in Cause \cup {"exception", "none"}
        PROVE  /\ w1(p) \in Request /\ w2(c) \in Request /\ w3 \in Request
               /\ Applied(csr, <<w1(p), w2(c)>>) = Write(Write(csr, w1(p)), w2(c))
               /\ CsrTyped(Write(Write(csr, w1(p)), w2(c)))
               /\ Applied(csr, <<w1(p), w2(c), w3>>) = Write(Write(Write(csr, w1(p)), w2(c)), w3)
               /\ CsrTyped(Write(Write(Write(csr, w1(p)), w2(c)), w3))
    <2>3. /\ "mepc" \in Mapped \ {"readonly"} /\ "mcause" \in Mapped \ {"readonly"}
          /\ "mstatus" \in Mapped \ {"readonly"}
      BY DEF Mapped
    <2>12. p \in RequestValue /\ c \in RequestValue /\ {"MPIE"} \in RequestValue
      <3>1. {"MPIE"} \in SUBSET AllBits
        BY DEF AllBits
      <3>2. QED
        BY <3>1, RequestValues
    <2>1. w1(p) \in Request /\ w2(c) \in Request /\ w3 \in Request
      BY <2>3, <2>12, RequestFacts
    <2>2. w1(p).addr = "mepc" /\ w1(p).val = p /\ w2(c).addr = "mcause" /\ w3.addr = "mstatus"
      BY <2>3, <2>12, RequestFacts
    <2> HIDE DEF w1, w2, w3
    <2>4. CsrTyped(Write(csr, w1(p)))
      BY <1>3, <2>2, <2>3, WriteTyped
    <2>5. CsrTyped(Write(Write(csr, w1(p)), w2(c)))
      BY <2>2, <2>3, <2>4, WriteTyped
    <2>6. CsrTyped(Write(Write(Write(csr, w1(p)), w2(c)), w3))
      BY <2>2, <2>3, <2>5, WriteTyped
    <2>7. /\ <<w1(p)>> \in Seq(Request) /\ <<w1(p), w2(c)>> \in Seq(Request)
          /\ Append(<<w1(p)>>, w2(c)) = <<w1(p), w2(c)>>
          /\ Append(<<w1(p), w2(c)>>, w3) = <<w1(p), w2(c), w3>>
      BY <2>1, TupleFacts
    <2>8. Applied(csr, <<w1(p)>>) = Write(csr, w1(p))
      BY <1>3, OneRequest
    <2>9. Applied(csr, <<w1(p), w2(c)>>) = Write(Write(csr, w1(p)), w2(c))
      <3>1. Applied(csr, Append(<<w1(p)>>, w2(c))) = Write(Applied(csr, <<w1(p)>>), w2(c))
        BY <2>1, <2>7, AppliedAppend
      <3>2. QED
        BY <2>7, <2>8, <3>1
    <2>10. Applied(csr, <<w1(p), w2(c), w3>>) = Write(Write(Write(csr, w1(p)), w2(c)), w3)
      <3> DEFINE q == <<w1(p), w2(c)>>
      <3>1. q \in Seq(Request)
        BY <2>7
      <3> HIDE DEF q
      <3>2. Applied(csr, Append(q, w3)) = Write(Applied(csr, q), w3)
        BY <2>1, <3>1, AppliedAppend
      <3>3. QED
        BY <2>7, <2>9, <3>2 DEF q
    <2>11. QED
      BY <2>1, <2>5, <2>6, <2>9, <2>10
  <1>6. /\ csr_q' \in Seq(Request) /\ CsrTyped(PendingCsr')
        /\ EnterException => PendingCsr' = Write(Write(csr, w1(rob[1].pc)), w2("exception"))
        /\ EnterInterrupt => PendingCsr' = Write(Write(Write(csr, w1(cause_pc)), w2(cause)), w3)
    <2>1. CASE EnterException
      <3> DEFINE s == <<w1(rob[1].pc), w2("exception")>>
      <3>1. csr_q' = << >> \o s
        BY <1>1, <2>1 DEF EnterException, EnterTrap
      <3>2. s \in Seq(Request)
        <4>1. w1(rob[1].pc) \in Request /\ w2("exception") \in Request
          BY <1>1, <1>5
        <4> HIDE DEF w1, w2
        <4>2. QED
          BY <4>1, TupleFacts
      <3>3. csr_q' = s
        BY <3>1, <3>2, ConcatEmptySeq
      <3>4. PendingCsr' = Applied(csr, s)
        BY <1>2, <3>3 DEF PendingCsr
      <3>5. ~EnterInterrupt
        BY <2>1 DEF EnterException, EnterInterrupt, Committing
      <3>6. Applied(csr, s) = Write(Write(csr, w1(rob[1].pc)), w2("exception"))
            /\ CsrTyped(Write(Write(csr, w1(rob[1].pc)), w2("exception")))
        BY <1>1, <1>5
      <3> HIDE DEF s, w1, w2, w3
      <3>7. QED
        BY <3>2, <3>3, <3>4, <3>5, <3>6
    <2>2. CASE EnterInterrupt
      <3> DEFINE s == <<w1(cause_pc), w2(cause), w3>>
      <3>0. "MIE" \in csr["mstatus"]
        BY <2>2 DEF EnterInterrupt, Committing, TrapInv, Inv, FlushOf
      <3>1. csr_q' = << >> \o s
        BY <1>1, <2>2, <3>0 DEF EnterInterrupt, EnterTrap
      <3>2. s \in Seq(Request)
        <4>1. w1(cause_pc) \in Request /\ w2(cause) \in Request /\ w3 \in Request
          BY <1>3, <1>5
        <4> HIDE DEF w1, w2, w3
        <4>2. QED
          BY <4>1, TupleFacts
      <3>3. csr_q' = s
        BY <3>1, <3>2, ConcatEmptySeq
      <3>4. PendingCsr' = Applied(csr, s)
        BY <1>2, <3>3 DEF PendingCsr
      <3>5. ~EnterException
        BY <2>2 DEF EnterException, EnterInterrupt, Committing
      <3>6. Applied(csr, s) = Write(Write(Write(csr, w1(cause_pc)), w2(cause)), w3)
            /\ CsrTyped(Write(Write(Write(csr, w1(cause_pc)), w2(cause)), w3))
        BY <1>3, <1>5
      <3> HIDE DEF s, w1, w2, w3
      <3>7. QED
        BY <3>2, <3>3, <3>4, <3>5, <3>6
    <2>3. QED
      BY <2>1, <2>2
  <1>7. TypeOK'
    BY <1>2, <1>3, <1>6, NextPcTyped, EmptySeq DEF TrapInv, TypeOK, CsrTyped
  <1>8. Inv'
    <2>1. Len(rob') = 0
      BY <1>2
    <2>2. QED
      BY <1>2, <2>1 DEF Inv, Drained, Walking, FlushOf, SerialAlone, OnlySerialIssued, Results, Path
  <1>9. QED
    BY <1>2, <1>4, <1>6, <1>7, <1>8 DEF TrapInv

(* A result does not depend on mip, nor, but for a serial instruction, on   *)
(* the csr file.                                                            *)
LEMMA ResultKept ==
    ASSUME NEW c, NEW d, NEW e, Result(c, e),
           Serial(e.ins) /\ e.status \notin {"waiting", "issued"} =>
              \A a \in Mapped \ {"mip"} : d[a] = c[a]
    PROVE  Result(d, e)
  <1>1. CASE e.status \in {"waiting", "issued"}
    BY <1>1 DEF Result
  <1>2. CASE e.status \notin {"waiting", "issued"} /\ ~Serial(e.ins)
    BY <1>2 DEF Result, Writes, Serial
  <1>3. CASE e.status \notin {"waiting", "issued"} /\ Serial(e.ins)
    <2>1. d["mepc"] = c["mepc"]
      BY <1>3 DEF Mapped
    <2>2. ~Illegal(e.ins) => e.ins.addr \in Mapped
      BY DEF Illegal
    <2>3. QED
      BY <1>3, <2>1, <2>2 DEF Result, Writes
  <1>4. QED
    BY <1>1, <1>2, <1>3

LEMMA SyncInv ==
    ASSUME TrapInv, Sync
    PROVE  /\ TrapInv' /\ PendingCsr' = csr'
           /\ csr'["mip"] = lines
           /\ \A a \in Mapped \ {"mip"} : csr'[a] = PendingCsr[a]
           /\ csr_q = << >> => PendingCsr = csr
  <1> DEFINE w == Sys("mip", lines)
  <1>1. /\ csr' = Applied(csr, Append(csr_q, w)) /\ csr_q' = << >>
        /\ stage = "sync" /\ stage' = "clint" /\ slot' = 0
        /\ UNCHANGED <<lines, rob, pc, jump_wait, state, restore, cause, cause_pc>>
    BY DEF Sync, IntifRun, frontvars, commitvars
  <1>2. /\ csr_q \in Seq(Request) /\ lines \in SUBSET Cause
        /\ CsrTyped(PendingCsr) /\ CsrTyped(csr)
    BY DEF TrapInv, TypeOK
  <1>3. w \in Request /\ w.addr = "mip" /\ w.val = lines
    <2>1. "mip" \in Mapped \ {"readonly"} /\ lines \in RequestValue
      BY <1>2, RequestValues DEF Mapped, AllBits
    <2>2. QED
      BY <2>1, RequestFacts
  <1> HIDE DEF w
  <1>4. csr' = Write(PendingCsr, w)
    BY <1>1, <1>2, <1>3, AppliedAppend DEF PendingCsr
  <1>5. "mip" \in Mapped \ {"readonly"}
    BY DEF Mapped
  <1>6. /\ CsrTyped(Write(PendingCsr, w))
        /\ \A a \in Mapped : Write(PendingCsr, w)[a] =
                                IF a = "mip" THEN Filter(a, lines) ELSE PendingCsr[a]
    BY <1>2, <1>3, <1>5, WriteTyped
  <1>7. CsrTyped(csr') /\ csr'["mip"] = lines
        /\ \A a \in Mapped \ {"mip"} : csr'[a] = PendingCsr[a]
    BY <1>2, <1>4, <1>5, <1>6 DEF Filter
  <1>8. PendingCsr' = csr'
    BY <1>1, <1>7, AppliedEmpty DEF PendingCsr, CsrTyped
  <1>9. csr_q = << >> => PendingCsr = csr
    BY <1>2, AppliedEmpty DEF PendingCsr, CsrTyped
  <1>10. TypeOK'
    BY <1>1, <1>7, <1>8, EmptySeq DEF TrapInv, TypeOK
  <1>11. Results'
    <2>1. ASSUME NEW k \in 1 .. Len(rob) PROVE Result(csr', rob[k])
      <3>1. Result(csr, rob[k])
        BY DEF TrapInv, Inv, Results
      <3>2. Serial(rob[k].ins) /\ rob[k].status \notin {"waiting", "issued"} => csr_q = << >>
        BY DEF TrapInv, Inv, SerialAlone
      <3>3. QED
        BY <1>7, <1>9, <3>1, <3>2, ResultKept
    <2>2. QED
      BY <1>1, <2>1 DEF Results
  <1>12. FlushOf'
    <2>1. "mstatus" \in Mapped \ {"mip"}
      BY DEF Mapped
    <2>2. state = "interrupt_flush" => csr'["mstatus"] = csr["mstatus"]
      BY <1>7, <1>9, <2>1 DEF TrapInv, Inv, FlushOf
    <2>3. QED
      BY <1>1, <2>2 DEF TrapInv, Inv, FlushOf
  <1>13. Drained' /\ Walking' /\ SerialAlone' /\ OnlySerialIssued' /\ Path'
    BY <1>1 DEF TrapInv, Inv, Drained, Walking, SerialAlone, OnlySerialIssued, Path
  <1>14. QED
    BY <1>7, <1>8, <1>9, <1>10, <1>11, <1>12, <1>13 DEF TrapInv, Inv

LEMMA NextInv == TrapInv /\ [Next]_vars => TrapInv'
  <1> SUFFICES ASSUME TrapInv, [Next]_vars PROVE TrapInv'
    OBVIOUS
  <1>1. CASE UNCHANGED vars
    BY <1>1 DEF vars, frontvars, commitvars, TrapInv, TypeOK, Inv, Drained, Walking, FlushOf,
                SerialAlone, OnlySerialIssued, Results, Path, PendingCsr
  <1>2. QED
    BY <1>1, QuietInv, RetireInv, EnterInv, UnitsInv, IssueRenameInv, SyncInv DEF Next

(* csr_file's asserts and the walk back of commit, for every program, every *)
(* width and every size.                                                    *)
THEOREM AssertionsSafe == Spec => []AssertionsHold
  <1>1. TrapInv => AssertionsHold
    <2> SUFFICES ASSUME TrapInv PROVE AssertionsHold
      OBVIOUS
    <2>1. csr_q \in Seq(Request)
      BY DEF TrapInv, TypeOK
    <2>2. \A k \in 1 .. Len(csr_q) : csr_q[k] \in Request
      BY <2>1, ElementOfSeq
    <2>3. QED
      BY <2>2 DEF AssertionsHold, TrapInv, Inv, Walking, Request, WriteCheck
  <1>2. QED
    BY <1>1, InitInv, NextInv, PTL DEF Spec

(* interrupt_interface.run: mip follows the request lines.                  *)
THEOREM MipSafe == Spec => []MipShowsLines
  <1>1. Init => MipShowsLines
    BY DEF Init, MipShowsLines
  <1>2. TrapInv /\ MipShowsLines /\ [Next]_vars => MipShowsLines'
    <2> SUFFICES ASSUME TrapInv, MipShowsLines, [Next]_vars PROVE MipShowsLines'
      OBVIOUS
    <2>1. CASE Sync
      <3>1. lines' = lines
        BY <2>1 DEF Sync
      <3>2. QED
        BY <2>1, <3>1, SyncInv DEF MipShowsLines
    <2>2. CASE UNCHANGED vars
      BY <2>2 DEF vars, MipShowsLines
    <2>3. ASSUME RunPre \/ TakeInterrupt \/ Retire \/ RaiseException \/ RetireEnds \/ WalkBack
                 \/ EnterException \/ EnterInterrupt \/ Units \/ IssueRename
          PROVE  stage' # "clint"
      BY <2>3 DEF RunPre, TakeInterrupt, Retire, RaiseException, RetireEnds, WalkBack,
                  EnterException, EnterInterrupt, EnterTrap, Units, IssueRename
    <2>4. QED
      BY <2>1, <2>2, <2>3 DEF Next, MipShowsLines
  <1>3. QED
    BY <1>1, <1>2, InitInv, NextInv, PTL DEF Spec
-----------------------------------------------------------------------------
(* The timer.  A register written by halves stays a register of two words.  *)
Time == 0 .. Half * Half - 1
StoreInstr == {i \in Instr : i.k = "store"}
ClintTyped == mtime \in Time /\ mtimecmp \in Time /\ stores \in Seq(StoreInstr)

LEMMA HalvesTyped ==
    ASSUME NEW t \in Time, NEW v \in 0 .. Half - 1
    PROVE  High(t) * Half + v \in Time /\ v * Half + Low(t) \in Time
  <1>1. Half \in Nat \ {0}
    BY SizesAssumption
  <1>2. t \div Half \in 0 .. Half - 1 /\ t % Half \in 0 .. Half - 1
    BY <1>1 DEF Time
  <1>3. \A x, y \in 0 .. Half - 1 : x * Half + y \in 0 .. Half * Half - 1
    BY <1>1
  <1>4. QED
    BY <1>2, <1>3 DEF High, Low, Time

LEMMA TickTyped ==
    ASSUME mtime \in Time
    PROVE  Tick \in Time /\ Tick = IF mtime + 1 = Half * Half THEN 0 ELSE mtime + 1
  <1> DEFINE n == Half * Half
  <1>1. n \in Nat \ {0}
    BY SizesAssumption
  <1>2. Tick = (mtime + 1) % n /\ mtime \in 0 .. n - 1 /\ Time = 0 .. n - 1
    BY DEF Tick, Time
  <1> HIDE DEF n
  <1>3. (mtime + 1) % n = IF mtime + 1 = n THEN 0 ELSE mtime + 1
    BY <1>1, <1>2
  <1>4. QED
    BY <1>1, <1>2, <1>3 DEF n

LEMMA ClintInv == TrapInv /\ ClintTyped /\ [Next]_vars => ClintTyped'
  <1> SUFFICES ASSUME TrapInv, ClintTyped, [Next]_vars PROVE ClintTyped'
    OBVIOUS
  <1>1. CASE Sync /\ mtime' = Tick /\ UNCHANGED <<msip, mtimecmp, stores>>
    BY <1>1, TickTyped DEF ClintTyped
  <1>2. CASE Sync /\ StoreWritten /\ ClintWrite(Head(stores), Tick) /\ stores' = Tail(stores)
    <2> DEFINE i == Head(stores)
    <2>1. i \in StoreInstr /\ Tail(stores) \in Seq(StoreInstr)
      BY <1>2, HeadTailProperties DEF ClintTyped, StoreWritten
    <2>2. /\ i.reg \in {"msip", "cmp_lo", "cmp_hi", "time_lo", "time_hi"}
          /\ i.reg # "msip" => i.val \in 0 .. Half - 1
      BY <2>1, InstrAssumption DEF StoreInstr
    <2> HIDE DEF i
    <2>3. Tick \in Time /\ mtimecmp \in Time
      BY TickTyped DEF ClintTyped
    <2>4. mtimecmp' \in Time
      <3>1. i.reg # "msip" => High(mtimecmp) * Half + i.val \in Time /\ i.val * Half + Low(mtimecmp) \in Time
        BY <2>2, <2>3, HalvesTyped
      <3>2. mtimecmp' = CASE i.reg = "cmp_lo" -> High(mtimecmp) * Half + i.val
                          [] i.reg = "cmp_hi" -> i.val * Half + Low(mtimecmp)
                          [] OTHER -> mtimecmp
        BY <1>2 DEF ClintWrite, i
      <3>3. QED
        BY <2>2, <2>3, <3>1, <3>2
    <2>5. mtime' \in Time
      <3> DEFINE now == Tick
      <3>1. i.reg # "msip" => High(now) * Half + i.val \in Time /\ i.val * Half + Low(now) \in Time
        BY <2>2, <2>3, HalvesTyped
      <3>2. mtime' = CASE i.reg = "time_lo" -> High(now) * Half + i.val
                       [] i.reg = "time_hi" -> i.val * Half + Low(now)
                       [] OTHER -> now
        BY <1>2 DEF ClintWrite, i
      <3> HIDE DEF now
      <3>3. QED
        BY <2>2, <2>3, <3>1, <3>2 DEF now
    <2>6. QED
      BY <1>2, <2>1, <2>4, <2>5 DEF ClintTyped
  <1>3. CASE Retire
    <2>1. UNCHANGED <<mtime, mtimecmp>> /\ rob[1].ins \in Instr
      BY <1>3, RetireFacts DEF Retire, clint
    <2>2. stores' = IF rob[1].ins.k = "store" THEN Append(stores, rob[1].ins) ELSE stores
      BY <1>3 DEF Retire
    <2>3. rob[1].ins.k = "store" => rob[1].ins \in StoreInstr
      BY <2>1 DEF StoreInstr
    <2>4. stores' \in Seq(StoreInstr)
      BY <2>2, <2>3, AppendProperties DEF ClintTyped
    <2>5. QED
      BY <2>1, <2>4 DEF ClintTyped
  <1>4. ASSUME \/ RunPre \/ TakeInterrupt \/ RaiseException \/ RetireEnds \/ WalkBack
               \/ EnterException \/ EnterInterrupt \/ Units \/ IssueRename \/ UNCHANGED vars
        PROVE  ClintTyped'
    <2>1. UNCHANGED <<mtime, mtimecmp, stores>>
      BY <1>4 DEF RunPre, TakeInterrupt, RaiseException, RetireEnds, WalkBack, EnterException,
                  EnterInterrupt, EnterTrap, Units, IssueRename, clint, vars
    <2>2. QED
      BY <2>1 DEF ClintTyped
  <1>5. QED
    BY <1>1, <1>2, <1>3, <1>4 DEF Next, Sync

(* How a number changes with one of its words: a word that does not shrink  *)
(* does not make it smaller, one that does not grow does not make it        *)
(* greater.                                                                 *)
LEMMA WordOrder ==
    ASSUME NEW t \in Time, NEW v \in 0 .. Half - 1
    PROVE  /\ v >= Low(t) => High(t) * Half + v >= t
           /\ v <= Low(t) => High(t) * Half + v <= t
           /\ v >= High(t) => v * Half + Low(t) >= t
           /\ v <= High(t) => v * Half + Low(t) <= t
  <1> DEFINE h == t \div Half
             l == t % Half
  <1>1. Half \in Nat \ {0} /\ t \in Nat
    BY SizesAssumption DEF Time
  <1>2. h \in Nat /\ l \in 0 .. Half - 1 /\ t = h * Half + l
    BY <1>1
  <1>3. High(t) = h /\ Low(t) = l
    BY DEF High, Low
  <1> HIDE DEF h, l
  <1>4. \A x, y \in Nat : x <= y => x * Half <= y * Half
    BY <1>1
  <1>5. v \in Nat
    BY <1>1
  <1>6. v >= h => v * Half >= h * Half
    BY <1>2, <1>4, <1>5
  <1>7. v <= h => v * Half <= h * Half
    BY <1>2, <1>4, <1>5
  <1>8. h * Half \in Nat /\ v * Half \in Nat
    BY <1>1, <1>2, <1>5
  <1>9. QED
    BY <1>2, <1>3, <1>5, <1>6, <1>7, <1>8

(* The timer request of the clint falls only when the counter wraps or a    *)
(* store raises a word of mtimecmp or lowers one of mtime, for every width  *)
(* of the registers.                                                        *)
THEOREM RequestSafe == Spec => RequestHeld
  <1> DEFINE Held == mtime >= mtimecmp =>
                        \/ mtime' >= mtimecmp'
                        \/ mtime + 1 = Half * Half
                        \/ stores # << >> /\ stores' = Tail(stores) /\ Lowers(Head(stores))
  <1>1. Init => ClintTyped
    <2>1. 0 \in Time
      BY SizesAssumption DEF Time
    <2>2. QED
      BY <2>1, EmptySeq DEF Init, ClintTyped
  <1>2. TrapInv /\ ClintTyped /\ [Next]_vars => [Held]_vars
    <2> SUFFICES ASSUME TrapInv, ClintTyped, Next, mtime >= mtimecmp, mtime + 1 # Half * Half,
                        ~(stores # << >> /\ stores' = Tail(stores) /\ Lowers(Head(stores)))
                 PROVE  mtime' >= mtimecmp'
      BY DEF vars
    <2>1. CASE Sync /\ mtime' = Tick /\ UNCHANGED mtimecmp
      BY <2>1, TickTyped DEF ClintTyped, Time
    <2>2. CASE StoreWritten /\ ClintWrite(Head(stores), Tick) /\ stores' = Tail(stores)
      <3> DEFINE i == Head(stores)
                 now == Tick
      <3>1. i \in StoreInstr /\ ~Lowers(i)
        BY <2>2, HeadTailProperties DEF ClintTyped, StoreWritten
      <3>2. now \in Time /\ mtimecmp \in Time /\ now = mtime + 1
        BY TickTyped DEF ClintTyped
      <3>3. now \in Int /\ mtimecmp \in Int /\ now >= mtimecmp
        BY <3>2 DEF ClintTyped, Time
      <3>4. mtimecmp' = CASE i.reg = "cmp_lo" -> High(mtimecmp) * Half + i.val
                          [] i.reg = "cmp_hi" -> i.val * Half + Low(mtimecmp)
                          [] OTHER -> mtimecmp
        BY <2>2 DEF ClintWrite
      <3>5. mtime' = CASE i.reg = "time_lo" -> High(now) * Half + i.val
                       [] i.reg = "time_hi" -> i.val * Half + Low(now)
                       [] OTHER -> now
        BY <2>2 DEF ClintWrite
      <3>6. /\ i.reg = "cmp_lo" => ~(i.val > Low(mtimecmp))
            /\ i.reg = "cmp_hi" => ~(i.val > High(mtimecmp))
            /\ i.reg = "time_lo" => ~(i.val < Low(now))
            /\ i.reg = "time_hi" => ~(i.val < High(now))
        BY <3>1, <3>2 DEF Lowers
      <3>7. /\ i.reg \in {"msip", "cmp_lo", "cmp_hi", "time_lo", "time_hi"}
            /\ i.reg # "msip" => i.val \in 0 .. Half - 1
        BY <3>1, InstrAssumption DEF StoreInstr
      <3>8. /\ Low(now) \in Int /\ High(now) \in Int
            /\ Low(mtimecmp) \in Int /\ High(mtimecmp) \in Int
        BY <3>3, SizesAssumption DEF Low, High
      <3> HIDE DEF i, now
      <3>9. CASE i.reg = "msip"
        BY <3>9, <3>3, <3>4, <3>5
      <3>10. CASE i.reg = "cmp_lo"
        <4>1. High(mtimecmp) * Half + i.val <= mtimecmp /\ High(mtimecmp) * Half + i.val \in Time
          BY <3>2, <3>6, <3>7, <3>8, <3>10, WordOrder, HalvesTyped
        <4>2. mtime' = now /\ mtimecmp' = High(mtimecmp) * Half + i.val
          BY <3>4, <3>5, <3>10
        <4>3. QED
          BY <3>3, <4>1, <4>2 DEF Time
      <3>11. CASE i.reg = "cmp_hi"
        <4>1. i.val * Half + Low(mtimecmp) <= mtimecmp /\ i.val * Half + Low(mtimecmp) \in Time
          BY <3>2, <3>6, <3>7, <3>8, <3>11, WordOrder, HalvesTyped
        <4>2. mtime' = now /\ mtimecmp' = i.val * Half + Low(mtimecmp)
          BY <3>4, <3>5, <3>11
        <4>3. QED
          BY <3>3, <4>1, <4>2 DEF Time
      <3>12. CASE i.reg = "time_lo"
        <4>1. High(now) * Half + i.val >= now /\ High(now) * Half + i.val \in Time
          BY <3>2, <3>6, <3>7, <3>8, <3>12, WordOrder, HalvesTyped
        <4>2. mtime' = High(now) * Half + i.val /\ mtimecmp' = mtimecmp
          BY <3>4, <3>5, <3>12
        <4>3. QED
          BY <3>3, <4>1, <4>2 DEF Time
      <3>13. CASE i.reg = "time_hi"
        <4>1. i.val * Half + Low(now) >= now /\ i.val * Half + Low(now) \in Time
          BY <3>2, <3>6, <3>7, <3>8, <3>13, WordOrder, HalvesTyped
        <4>2. mtime' = i.val * Half + Low(now) /\ mtimecmp' = mtimecmp
          BY <3>4, <3>5, <3>13
        <4>3. QED
          BY <3>3, <4>1, <4>2 DEF Time
      <3>14. QED
        BY <3>7, <3>9, <3>10, <3>11, <3>12, <3>13
    <2>3. CASE ~Sync
      <3>1. UNCHANGED <<mtime, mtimecmp>>
        BY <2>3 DEF Next, RunPre, TakeInterrupt, Retire, RaiseException, RetireEnds, WalkBack,
                    EnterException, EnterInterrupt, EnterTrap, Units, IssueRename, clint
      <3>2. QED
        BY <3>1
    <2>4. QED
      BY <2>1, <2>2, <2>3 DEF Sync
  <1>3. QED
    BY <1>1, <1>2, InitInv, NextInv, ClintInv, PTL DEF Spec, RequestHeld
-----------------------------------------------------------------------------
(* The refinement.  The sequential machine is ahead of the pipeline by the  *)
(* requests in csr_q and, from the moment an interrupt is taken, by the     *)
(* whole entry of the trap.                                                 *)
HartAddr == {"mstatus", "mie", "mepc", "mcause", "mtvec"}

LEMMA HartOutside ==
    ASSUME state # "interrupt_flush"
    PROVE  /\ HartCsr = [a \in HartAddr |-> PendingCsr[a]]
           /\ HartPc = IF rob # << >> THEN rob[1].pc ELSE pc
  BY DEF HartCsr, HartPc, HartAddr

LEMMA InitHart == Init => SequentialHart!HInit
  <1> SUFFICES ASSUME Init PROVE SequentialHart!HInit
    OBVIOUS
  <1>1. PendingCsr = csr /\ state = "normal" /\ rob = << >> /\ pc = 0 /\ lines = {}
    BY InitInv, AppliedEmpty DEF Init, TrapInv, TypeOK, CsrTyped, PendingCsr
  <1>2. HartPc = 0 /\ 0 \in 0 .. CodeLen - 1
    BY <1>1, HartOutside, SizesAssumption
  <1>3. HartCsr = [a \in HartAddr |-> csr[a]]
    BY <1>1, HartOutside
  <1>4. HartCsr = [mstatus |-> {}, mie |-> {}, mepc |-> 0, mcause |-> "none", mtvec |-> 0]
    BY <1>3 DEF Init, HartAddr
  <1>5. QED
    BY <1>1, <1>2, <1>4 DEF SequentialHart!HInit

(* clint.run_pre changes the request lines and nothing else.                *)
LEMMA RunPreHart ==
    ASSUME TrapInv, RunPre
    PROVE  SequentialHart!Lines
  <1>1. UNCHANGED <<csr, csr_q, rob, pc, state, cause, cause_pc>> /\ lines' \in SUBSET {"msi", "mti"}
    BY DEF RunPre, frontvars, commitvars, Cause
  <1>2. UNCHANGED <<HartPc, HartCsr>>
    BY <1>1 DEF HartPc, HartCsr, PendingCsr
  <1>3. QED
    BY <1>1, <1>2 DEF SequentialHart!Lines

LEMMA TakeInterruptHart ==
    ASSUME TrapInv, TakeInterrupt
    PROVE  \E c \in {"msi", "mti"} : SequentialHart!Interrupt(c)
  <1> DEFINE c == GetCause
  <1>1. /\ state = "normal" /\ rob # << >> /\ csr_q = << >> /\ CsrTyped(csr)
        /\ UNCHANGED <<csr, csr_q, rob, pc, lines>>
        /\ state' = "interrupt_flush" /\ cause' = c /\ cause_pc' = rob[1].pc
    BY DEF TakeInterrupt, Committing, TrapInv, TypeOK, Inv, Drained, frontvars
  <1>2. PendingCsr = csr
    BY <1>1, AppliedEmpty DEF PendingCsr, CsrTyped
  <1>3. HartCsr = [a \in HartAddr |-> csr[a]] /\ HartPc = rob[1].pc
    BY <1>1, <1>2, HartOutside
  <1>4. /\ c \in {"msi", "mti"} /\ "MIE" \in csr["mstatus"] /\ c \in lines \cap csr["mie"]
        /\ c = "mti" => "msi" \notin lines \cap csr["mie"]
    <2>1. c # "none"
      BY DEF TakeInterrupt
    <2>2. c \in Enabled /\ c \in {"msi", "mti"} /\ (c = "mti" => "msi" \notin Enabled)
      BY <2>1 DEF GetCause
    <2>3. QED
      BY <2>2 DEF Enabled
  <1> HIDE DEF c
  <1>5. HartPc' = csr["mtvec"]
    BY <1>1 DEF HartPc
  <1>6. HartCsr' = [a \in HartAddr |-> CASE a = "mepc" -> rob[1].pc
                                         [] a = "mcause" -> c
                                         [] a = "mstatus" -> {"MPIE"}
                                         [] OTHER -> csr[a]]
    BY <1>1 DEF HartCsr, HartAddr
  <1>7. HartCsr' = [HartCsr EXCEPT !.mepc = HartPc, !.mcause = c, !.mstatus = {"MPIE"}]
    BY <1>3, <1>6 DEF HartAddr
  <1>8. SequentialHart!Interrupt(c)
    BY <1>1, <1>3, <1>4, <1>5, <1>7 DEF SequentialHart!Interrupt, HartAddr
  <1>9. QED
    BY <1>4, <1>8

(* The steps the sequential machine does not see.                           *)
LEMMA QuietHart ==
    ASSUME TrapInv, RaiseException \/ RetireEnds \/ WalkBack \/ Units \/ IssueRename \/ Sync
    PROVE  UNCHANGED SequentialHart!hvars
  <1>1. CASE RaiseException \/ RetireEnds \/ WalkBack
    <2>1. UNCHANGED <<csr, csr_q, rob, pc, lines, cause, cause_pc>>
      BY <1>1 DEF RaiseException, RetireEnds, WalkBack, frontvars, commitvars
    <2>2. state' = "interrupt_flush" <=> state = "interrupt_flush"
      BY <1>1 DEF RaiseException, RetireEnds, WalkBack, commitvars, Committing
    <2>3. UNCHANGED <<HartPc, HartCsr>>
      BY <2>1, <2>2 DEF HartPc, HartCsr, PendingCsr
    <2>4. QED
      BY <2>1, <2>3 DEF SequentialHart!hvars
  <1>2. CASE Units \/ IssueRename
    <2>1. UNCHANGED <<lines, state>> /\ state = "normal"
      BY <1>2 DEF Units, IssueRename, commitvars, TrapInv, Inv, Walking
    <2>2. PendingCsr' = PendingCsr
      BY <1>2, UnitsInv, IssueRenameInv
    <2>3. HartCsr' = HartCsr
      BY <2>1, <2>2 DEF HartCsr
    <2>4. HartPc' = HartPc
      <3>1. Units => pc' = pc
        BY DEF Units, frontvars
      <3>2. QED
        BY <1>2, <2>1, <3>1, UnitsInv, IssueRenameInv DEF HartPc
    <2>5. QED
      BY <2>1, <2>3, <2>4 DEF SequentialHart!hvars
  <1>3. CASE Sync
    <2>1. UNCHANGED <<lines, state, rob, pc, cause, cause_pc>>
      BY <1>3 DEF Sync, commitvars, frontvars
    <2>2. \A a \in HartAddr : csr'[a] = PendingCsr[a] /\ PendingCsr'[a] = PendingCsr[a]
      <3>1. HartAddr \subseteq Mapped \ {"mip"}
        BY DEF HartAddr, Mapped
      <3>2. QED
        BY <1>3, <3>1, SyncInv
    <2>3. state = "interrupt_flush" => PendingCsr = csr
      BY <1>3, SyncInv DEF TrapInv, Inv, FlushOf
    <2>4. HartPc' = HartPc
      <3>1. "mtvec" \in HartAddr
        BY DEF HartAddr
      <3>2. QED
        BY <2>1, <2>2, <2>3, <3>1 DEF HartPc
    <2>5. HartCsr' = HartCsr
      <3>1. CASE state # "interrupt_flush"
        BY <2>1, <2>2, <3>1 DEF HartCsr, HartAddr
      <3>2. CASE state = "interrupt_flush"
        BY <2>1, <2>2, <2>3, <3>2 DEF HartCsr, HartAddr
      <3>3. QED
        BY <3>1, <3>2
    <2>6. QED
      BY <2>1, <2>4, <2>5 DEF SequentialHart!hvars
  <1>4. QED
    BY <1>1, <1>2, <1>3
LEMMA FollowingPc == SequentialHart!Following = Next_pc(HartPc)
  BY DEF SequentialHart!Following, Next_pc

(* What a request does to the part of the csr file the machine shows.       *)
LEMMA WriteHart ==
    ASSUME NEW c, CsrTyped(c), NEW w, w.addr \in Mapped \ {"readonly"},
           w.addr \in {"mepc", "mtvec"} => w.val \in PC
    PROVE  [a \in HartAddr |-> Write(c, w)[a]] =
              IF w.addr \in HartAddr
              THEN [[a \in HartAddr |-> c[a]] EXCEPT ![w.addr] = Filter(w.addr, w.val)]
              ELSE [a \in HartAddr |-> c[a]]
  <1>1. \A a \in Mapped : Write(c, w)[a] = IF a = w.addr THEN Filter(a, w.val) ELSE c[a]
    BY WriteTyped
  <1>2. HartAddr \subseteq Mapped
    BY DEF HartAddr, Mapped
  <1> HIDE DEF Write
  <1>3. QED
    BY <1>1, <1>2

LEMMA RetireHart ==
    ASSUME TrapInv, Retire
    PROVE  \E i \in Instr : \/ SequentialHart!Step(i) \/ SequentialHart!Csr(i)
                            \/ SequentialHart!CsrAddr(i) \/ SequentialHart!Mret(i)
  <1> DEFINE i == rob[1].ins
             h == [a \in HartAddr |-> csr[a]]
  <1>1. /\ state = "normal" /\ state' = "normal" /\ rob # << >> /\ i \in Instr /\ ~Raises(i)
        /\ lines' = lines /\ CsrTyped(csr)
    BY RetireFacts DEF Retire, commitvars, TrapInv, TypeOK
  <1>2. HartPc = rob[1].pc /\ HartCsr = [a \in HartAddr |-> PendingCsr[a]]
    BY <1>1, HartOutside
  <1>3. HartCsr' = [a \in HartAddr |-> PendingCsr'[a]]
    BY <1>1 DEF HartCsr, HartAddr
  <1>4. HartPc' = IF i.k = "mret" THEN csr["mepc"] ELSE SequentialHart!Following
    <2>1. HartPc' = IF rob' = << >> THEN pc' ELSE rob'[1].pc
      BY <1>1 DEF HartPc
    <2>2. QED
      BY <1>2, <2>1, RetireInv, FollowingPc
  <1>5. i.k \in {"plain", "store", "mret", "csrw", "csr"}
    BY <1>1, InstrAssumption DEF Raises
  <1>6. Serial(i) => HartCsr = h
    BY <1>2, RetirePending
  <1> HIDE DEF i
  <1>7. CASE i.k \in {"plain", "store"}
    <2>1. PendingCsr' = PendingCsr
      BY <1>7, RetirePending DEF CsrWrites, i
    <2>2. HartCsr' = HartCsr
      BY <1>2, <1>3, <2>1
    <2>3. SequentialHart!Step(i)
      BY <1>1, <1>4, <1>7, <2>2 DEF SequentialHart!Step
    <2>4. QED
      BY <1>1, <2>3
  <1>8. CASE i.k = "csr" /\ i.op = "r"
    <2>1. PendingCsr' = PendingCsr
      BY <1>8, RetirePending DEF CsrWrites, i
    <2>2. HartCsr' = HartCsr
      BY <1>2, <1>3, <2>1
    <2>3. SequentialHart!Csr(i)
      BY <1>1, <1>4, <1>8, <2>2 DEF SequentialHart!Csr
    <2>4. QED
      BY <1>1, <2>3
  <1>9. CASE i.k = "csr" /\ i.op # "r"
    <2>1. CsrWrites(i) /\ Serial(i)
      BY <1>9 DEF CsrWrites, Serial
    <2>2. i.addr \in {"mstatus", "mie", "mip"}
      BY <2>1, RetireRequest DEF i
    <2>3. PICK v : /\ PendingCsr' = Write(csr, User(i.addr, v))
                   /\ i.addr # "mip" => v = Combine(i, csr[i.addr])
      BY <2>1, RetirePending DEF i
    <2> DEFINE w == User(i.addr, v)
    <2>4. w.addr = i.addr /\ w.val = v /\ w.addr \in Mapped \ {"readonly"}
      BY <2>2 DEF User, Mapped
    <2>5. PendingCsr' = Write(csr, w)
      BY <2>3
    <2> HIDE DEF w
    <2>6. HartCsr' = IF i.addr \in HartAddr THEN [h EXCEPT ![i.addr] = Filter(i.addr, v)] ELSE h
      <3>1. w.addr \notin {"mepc", "mtvec"}
        BY <2>2, <2>4
      <3>2. w.addr \in HartAddr => [a \in HartAddr |-> Write(csr, w)[a]] =
               [[a \in HartAddr |-> csr[a]] EXCEPT ![w.addr] = Filter(w.addr, w.val)]
        BY <1>1, <2>4, <3>1, WriteHart
      <3>3. w.addr \notin HartAddr =>
               [a \in HartAddr |-> Write(csr, w)[a]] = [a \in HartAddr |-> csr[a]]
        <4>1. \A a \in Mapped : Write(csr, w)[a] = IF a = w.addr THEN Filter(a, w.val) ELSE csr[a]
          BY <1>1, <2>4, <3>1, WriteTyped
        <4>2. HartAddr \subseteq Mapped
          BY DEF HartAddr, Mapped
        <4>3. QED
          BY <4>1, <4>2
      <3>4. QED
        BY <1>3, <2>4, <2>5, <3>2, <3>3
    <2>7. CASE i.addr = "mip"
      <3>1. HartCsr' = HartCsr
        BY <1>6, <2>1, <2>6, <2>7 DEF HartAddr
      <3>2. SequentialHart!Csr(i)
        BY <1>1, <1>4, <1>9, <2>7, <3>1 DEF SequentialHart!Csr
      <3>3. QED
        BY <1>1, <3>2
    <2>8. CASE i.addr \in {"mstatus", "mie"}
      <3>1. h[i.addr] = csr[i.addr] /\ i.addr \in HartAddr /\ v = Combine(i, csr[i.addr])
        BY <2>3, <2>8 DEF HartAddr
      <3>2. Filter(i.addr, v) = SequentialHart!SetBits(i, csr[i.addr])
        BY <2>8, <3>1 DEF Filter, Combine, SequentialHart!SetBits, SequentialHart!Bits, Cause
      <3> HIDE DEF h
      <3>3. HartCsr' = [HartCsr EXCEPT ![i.addr] = SequentialHart!SetBits(i, @)]
        BY <1>6, <2>1, <2>6, <3>1, <3>2
      <3>4. SequentialHart!Csr(i)
        BY <1>1, <1>4, <1>9, <2>8, <3>3 DEF SequentialHart!Csr
      <3>5. QED
        BY <1>1, <3>4
    <2>9. QED
      BY <2>2, <2>7, <2>8
  <1>10. CASE i.k = "csrw"
    <2>1. Serial(i) /\ i.addr \in {"mepc", "mtvec"} /\ i.to \in PC
      BY <1>1, <1>10, InstrAssumption DEF Serial, PC
    <2> DEFINE w == User(i.addr, i.to)
    <2>2. w.addr = i.addr /\ w.val = i.to /\ w.addr \in Mapped \ {"readonly"}
      BY <2>1 DEF User, Mapped
    <2>3. PendingCsr' = Write(csr, w)
      BY <1>10, RetirePending DEF i
    <2> HIDE DEF w
    <2>4. HartCsr' = [h EXCEPT ![i.addr] = Filter(i.addr, i.to)]
      <3>1. w.addr \in HartAddr
        BY <2>1, <2>2 DEF HartAddr
      <3>2. QED
        <4>1. [a \in HartAddr |-> Write(csr, w)[a]] =
                [[a \in HartAddr |-> csr[a]] EXCEPT ![w.addr] = Filter(w.addr, w.val)]
          BY <1>1, <2>1, <2>2, <3>1, WriteHart
        <4>2. QED
          BY <1>3, <2>2, <2>3, <4>1
    <2>5. Filter(i.addr, i.to) = i.to
      BY <2>1 DEF Filter
    <2>6. HartCsr' = [HartCsr EXCEPT ![i.addr] = i.to]
      BY <1>6, <2>1, <2>4, <2>5
    <2>7. SequentialHart!CsrAddr(i)
      BY <1>1, <1>4, <1>10, <2>6 DEF SequentialHart!CsrAddr
    <2>8. QED
      BY <1>1, <2>7
  <1>11. CASE i.k = "mret"
    <2> DEFINE w == Sys("mstatus", MretStatus)
               m == csr["mstatus"]
    <2>1. w.addr = "mstatus" /\ w.val = MretStatus /\ "mstatus" \in Mapped \ {"readonly"}
      BY DEF Sys, Mapped
    <2>2. PendingCsr' = Write(csr, w) /\ Serial(i)
      BY <1>11, RetirePending DEF i, Serial
    <2> HIDE DEF w
    <2>3. HartCsr' = [h EXCEPT !["mstatus"] = Filter("mstatus", MretStatus)]
      <3>1. w.addr \in HartAddr
        BY <2>1 DEF HartAddr
      <3>2. QED
        <4>1. w.addr \notin {"mepc", "mtvec"} /\ w.addr \in Mapped \ {"readonly"}
          BY <2>1
        <4>2. [a \in HartAddr |-> Write(csr, w)[a]] =
                [[a \in HartAddr |-> csr[a]] EXCEPT ![w.addr] = Filter(w.addr, w.val)]
          BY <1>1, <3>1, <4>1, WriteHart
        <4>3. QED
          BY <1>3, <2>1, <2>2, <4>2
    <2>4. Filter("mstatus", MretStatus) = (m \ {"MIE"}) \cup (IF "MPIE" \in m THEN {"MIE"} ELSE {})
      <3>1. m \in SUBSET {"MIE", "MPIE"}
        BY <1>1 DEF CsrTyped
      <3>2. QED
        BY <3>1 DEF Filter, MretStatus
    <2>5. h.mstatus = m /\ h.mepc = csr["mepc"]
      BY DEF HartAddr
    <2> HIDE DEF h, m
    <2>6. HartCsr' = [HartCsr EXCEPT !.mstatus = (@ \ {"MIE"}) \cup (IF "MPIE" \in @ THEN {"MIE"} ELSE {})]
      BY <1>6, <2>2, <2>3, <2>4, <2>5
    <2>7. HartPc' = HartCsr.mepc
      BY <1>4, <1>6, <1>11, <2>2, <2>5
    <2>8. SequentialHart!Mret(i)
      BY <1>1, <1>11, <2>6, <2>7 DEF SequentialHart!Mret
    <2>9. QED
      BY <1>1, <2>8
  <1>12. QED
    BY <1>5, <1>7, <1>8, <1>9, <1>10, <1>11

LEMMA EnterExceptionHart ==
    ASSUME TrapInv, EnterException
    PROVE  \E i \in Instr : SequentialHart!Exception(i)
  <1> DEFINE i == rob[1].ins
             h == [a \in HartAddr |-> csr[a]]
             w1 == Sys("mepc", rob[1].pc)
             w2 == Sys("mcause", "exception")
  <1>1. /\ state = "flush" /\ rob # << >> /\ rob[1] \in RobEntry /\ Result(csr, rob[1])
        /\ rob[1].exception /\ CsrTyped(csr)
    <2>1. state = "flush" /\ restore \in 1 .. Len(rob) /\ rob \in Seq(RobEntry)
      BY DEF EnterException, Committing, TrapInv, TypeOK, Inv, Walking
    <2>2. rob # << >>
      BY <2>1, EmptySeq
    <2>3. rob[1] \in RobEntry /\ 1 \in 1 .. Len(rob)
      BY <2>1, <2>2, RobHead
    <2>4. QED
      BY <2>1, <2>2, <2>3 DEF TrapInv, TypeOK, Inv, FlushOf, Results
  <1>2. i \in Instr /\ Raises(i) /\ rob[1].pc \in PC
    BY <1>1 DEF RobEntry, Result
  <1>3. /\ rob' = << >> /\ pc' = csr["mtvec"] /\ state' = "normal" /\ lines' = lines
        /\ PendingCsr = csr /\ PendingCsr' = Write(Write(csr, w1), w2)
    BY EnterInv DEF EnterException, EnterTrap
  <1>4. HartPc = rob[1].pc /\ HartCsr = h
    BY <1>1, <1>3, HartOutside
  <1>5. HartPc' = csr["mtvec"] /\ HartCsr' = [a \in HartAddr |-> PendingCsr'[a]]
    BY <1>3 DEF HartPc, HartCsr, HartAddr
  <1>6. /\ w1.addr = "mepc" /\ w1.val = rob[1].pc /\ w2.addr = "mcause" /\ w2.val = "exception"
        /\ "mepc" \in Mapped \ {"readonly"} /\ "mcause" \in Mapped \ {"readonly"}
        /\ "mepc" \in HartAddr /\ "mcause" \in HartAddr
    BY DEF Sys, Mapped, HartAddr
  <1> HIDE DEF w1, w2, i
  <1>7. CsrTyped(Write(csr, w1))
    BY <1>1, <1>2, <1>6, WriteTyped
  <1>8. [a \in HartAddr |-> Write(csr, w1)[a]] = [h EXCEPT !["mepc"] = rob[1].pc]
    <2>1. Filter("mepc", rob[1].pc) = rob[1].pc
      BY DEF Filter
    <2>2. w1.addr \in Mapped \ {"readonly"} /\ w1.val \in PC /\ w1.addr \in HartAddr
      BY <1>2, <1>6
    <2>3. [a \in HartAddr |-> Write(csr, w1)[a]] =
             [[a \in HartAddr |-> csr[a]] EXCEPT ![w1.addr] = Filter(w1.addr, w1.val)]
      BY <1>1, <2>2, WriteHart
    <2>4. QED
      BY <1>6, <2>1, <2>3
  <1>9. HartCsr' = [[a \in HartAddr |-> Write(csr, w1)[a]] EXCEPT !["mcause"] = "exception"]
    <2>1. Filter("mcause", "exception") = "exception"
      BY DEF Filter
    <2>2. w2.addr \in Mapped \ {"readonly"} /\ w2.addr \notin {"mepc", "mtvec"} /\ w2.addr \in HartAddr
      BY <1>6
    <2>3. [a \in HartAddr |-> Write(Write(csr, w1), w2)[a]] =
             [[a \in HartAddr |-> Write(csr, w1)[a]] EXCEPT ![w2.addr] = Filter(w2.addr, w2.val)]
      BY <1>7, <2>2, WriteHart
    <2>4. QED
      BY <1>3, <1>5, <1>6, <2>1, <2>3
  <1>10. HartCsr' = [HartCsr EXCEPT !.mepc = HartPc, !.mcause = "exception"]
    BY <1>4, <1>8, <1>9 DEF HartAddr
  <1>11. HartPc' = HartCsr.mtvec
    BY <1>4, <1>5 DEF HartAddr
  <1>12. \/ i.k = "fault"
         \/ i.k = "csr" /\ i.addr = "readonly" /\ i.op # "r"
         \/ i.k = "csr" /\ i.addr = "unmapped"
    BY <1>2, InstrAssumption DEF Raises, Illegal, WriteCheck, Mapped
  <1>13. SequentialHart!Exception(i)
    BY <1>3, <1>10, <1>11, <1>12 DEF SequentialHart!Exception
  <1>14. QED
    BY <1>2, <1>13

LEMMA EnterInterruptHart ==
    ASSUME TrapInv, EnterInterrupt
    PROVE  UNCHANGED SequentialHart!hvars
  <1> DEFINE w1 == Sys("mepc", cause_pc)
             w2 == Sys("mcause", cause)
             w3 == Sys("mstatus", {"MPIE"})
             c1 == Write(csr, w1)
             c2 == Write(c1, w2)
  <1>1. state = "interrupt_flush" /\ cause_pc \in PC /\ CsrTyped(csr)
    BY DEF EnterInterrupt, Committing, TrapInv, TypeOK
  <1>2. /\ rob' = << >> /\ pc' = csr["mtvec"] /\ state' = "normal" /\ lines' = lines
        /\ PendingCsr' = Write(c2, w3)
    BY EnterInv DEF EnterInterrupt, EnterTrap
  <1>3. HartPc' = csr["mtvec"] /\ HartPc = csr["mtvec"]
    BY <1>1, <1>2 DEF HartPc
  <1>4. /\ w1.addr = "mepc" /\ w1.val = cause_pc /\ w2.addr = "mcause" /\ w2.val = cause
        /\ w3.addr = "mstatus" /\ w3.val = {"MPIE"}
        /\ "mepc" \in Mapped \ {"readonly"} /\ "mcause" \in Mapped \ {"readonly"}
        /\ "mstatus" \in Mapped \ {"readonly"}
    BY DEF Sys, Mapped
  <1> HIDE DEF w1, w2, w3
  <1>5. /\ CsrTyped(c1)
        /\ \A a \in Mapped : c1[a] = IF a = "mepc" THEN Filter(a, cause_pc) ELSE csr[a]
    BY <1>1, <1>4, WriteTyped
  <1> HIDE DEF c1
  <1>6. /\ CsrTyped(c2)
        /\ \A a \in Mapped : c2[a] = IF a = "mcause" THEN Filter(a, cause) ELSE c1[a]
    BY <1>4, <1>5, WriteTyped
  <1> HIDE DEF c2
  <1>7. \A a \in Mapped : PendingCsr'[a] = IF a = "mstatus" THEN Filter(a, {"MPIE"}) ELSE c2[a]
    <2>1. w3.addr \in Mapped \ {"readonly"} /\ w3.addr \notin {"mepc", "mtvec"}
      BY <1>4
    <2>2. \A a \in Mapped : Write(c2, w3)[a] = IF a = w3.addr THEN Filter(a, w3.val) ELSE c2[a]
      BY <1>6, <2>1, WriteTyped
    <2>3. QED
      BY <1>2, <1>4, <2>2
  <1>8. /\ Filter("mepc", cause_pc) = cause_pc /\ Filter("mcause", cause) = cause
        /\ Filter("mstatus", {"MPIE"}) = {"MPIE"}
    BY DEF Filter
  <1>9. HartAddr \subseteq Mapped
    BY DEF HartAddr, Mapped
  <1>10. \A a \in HartAddr : PendingCsr'[a] = CASE a = "mepc" -> cause_pc
                                                [] a = "mcause" -> cause
                                                [] a = "mstatus" -> {"MPIE"}
                                                [] OTHER -> csr[a]
    BY <1>5, <1>6, <1>7, <1>8, <1>9
  <1>11. HartCsr' = [a \in HartAddr |-> PendingCsr'[a]]
    BY <1>2 DEF HartCsr, HartAddr
  <1>12. HartCsr = [a \in HartAddr |-> CASE a = "mepc" -> cause_pc
                                         [] a = "mcause" -> cause
                                         [] a = "mstatus" -> {"MPIE"}
                                         [] OTHER -> csr[a]]
    BY <1>1 DEF HartCsr, HartAddr
  <1>13. HartCsr' = HartCsr
    BY <1>10, <1>11, <1>12
  <1>14. QED
    BY <1>2, <1>3, <1>13 DEF SequentialHart!hvars

(* The pipeline implements the sequential machine: precise traps, atomic    *)
(* CSR instructions and interrupts taken only when enabled and pending, for *)
(* every program, every width of commit and every size of the ROB.          *)
THEOREM HartRefined == Spec => ImplementsHart
  <1>1. TrapInv /\ [Next]_vars => [SequentialHart!HNext]_(SequentialHart!hvars)
    <2> SUFFICES ASSUME TrapInv, [Next]_vars
                 PROVE  [SequentialHart!HNext]_(SequentialHart!hvars)
      OBVIOUS
    <2>1. CASE UNCHANGED vars
      BY <2>1 DEF vars, frontvars, commitvars, SequentialHart!hvars, HartPc, HartCsr, PendingCsr
    <2>2. CASE Next
      <3>1. CASE RunPre
        BY <3>1, RunPreHart DEF SequentialHart!HNext
      <3>2. CASE TakeInterrupt
        BY <3>2, TakeInterruptHart DEF SequentialHart!HNext
      <3>3. CASE Retire
        BY <3>3, RetireHart DEF SequentialHart!HNext
      <3>4. CASE EnterException
        BY <3>4, EnterExceptionHart DEF SequentialHart!HNext
      <3>5. CASE EnterInterrupt
        BY <3>5, EnterInterruptHart
      <3>6. CASE RaiseException \/ RetireEnds \/ WalkBack \/ Units \/ IssueRename \/ Sync
        BY <3>6, QuietHart
      <3>7. QED
        BY <2>2, <3>1, <3>2, <3>3, <3>4, <3>5, <3>6 DEF Next
    <2>3. QED
      BY <2>1, <2>2
  <1>2. QED
    BY <1>1, InitInv, NextInv, InitHart, PTL DEF Spec, ImplementsHart, SequentialHart!HSpec
=============================================================================
