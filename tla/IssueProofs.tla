----------------------------- MODULE IssueProofs -----------------------------
(***************************************************************************)
(* The issue stage with its neighbours, for every size of the ROB, of the  *)
(* issue queue and of the execution units, and for every issue width.      *)
(*                                                                         *)
(* The inductive invariant IssueInv says, of every moment of a pass of the *)
(* main loop: ROB ids follow one another around the ring (IdsInv); commit  *)
(* and the feedback paths report what the ROB and the ports hold           *)
(* (PassInv); registers and mappings belong to one owner (RegsInv), with   *)
(* valid bits for those that have been delivered (BitsInv); an unfinished  *)
(* instruction stands in line or is in one place behind the line           *)
(* (PlaceInv, SlotInv); wake-up flags are those of the registers that are  *)
(* missing (OperandInv); barriers and memory operations have not been      *)
(* overtaken (OrderInv), and a barrier that has been sent is the oldest    *)
(* (SentInv).                                                              *)
(*                                                                         *)
(* Most of the argument is about the two loops of issue::run: SelectOK is  *)
(* an invariant of the selection loop and of the dispatch loop run in step *)
(* with it.                                                                *)
(***************************************************************************)
EXTENDS Issue, Induction, FiniteSetTheorems, SequenceTheorems

(* Every variable in its type, with the bounds of the ROB and the queue.    *)
TypeInv ==
    /\ step \in {"back", "issue", "front"}
    /\ feedback \in [retire : Nat, next_handle_rob_id : RobId]
    /\ rob \in Seq(Entry) /\ Len(rob) <= RobSize /\ new_id \in RobId
    /\ arf \in [Arch -> Phy] /\ data_valid \in SUBSET Phy
    /\ rename_readreg \in Seq(Op) /\ readreg_issue \in Seq(Item)
    /\ busy \in BOOLEAN /\ last_index \in Nat /\ (busy => last_index <= Len(readreg_issue))
    /\ issue_q \in Seq(Item) /\ Len(issue_q) <= IssueQueueSize
    /\ is_inst_waiting \in BOOLEAN /\ inst_waiting_rob_id \in RobId
    /\ DOMAIN units = Unit
    /\ \A u \in Unit : units[u] \in [0 .. UnitNum(u) - 1 -> Op \cup {None}]
    /\ DOMAIN unit_index = Unit
    /\ \A u \in Unit : unit_index[u] \in 0 .. UnitNum(u) - 1
    /\ held \in Op \cup {None}
    /\ execute_wb \in SUBSET Result /\ IsFiniteSet(execute_wb)
    /\ wb_commit \in SUBSET Result /\ IsFiniteSet(wb_commit)
    /\ execute_feedback \in SUBSET (Phy \cup {None}) /\ wb_feedback \in SUBSET (Phy \cup {None})
    /\ stored \in Nat

(* Ids follow one another around the ring.                                  *)
IdsOK(rb, next) ==
    \E b \in RobId : /\ next = (b + Len(rb)) % RobSize
                     /\ \A k \in 1 .. Len(rb) : rb[k].op.id = (b + k - 1) % RobSize
IdsInv == IdsOK(rob, new_id)

(* The course of a pass: what commit reports, what the units deliver.       *)
PassInv ==
    /\ feedback.retire <= Len(rob)
    /\ \A k \in 1 .. feedback.retire : rob[k].done = "ok"
    /\ step = "back" => /\ feedback.retire = 0
                        /\ execute_feedback = {} /\ wb_feedback = {}
    /\ step # "back" => /\ execute_feedback = Delivered(execute_wb)
                        /\ wb_feedback = Delivered(wb_commit)
                        /\ feedback.next_handle_rob_id =
                             IF feedback.retire < Len(rob) THEN rob[feedback.retire + 1].op.id
                             ELSE new_id
    /\ step = "issue" => \A u \in Unit \ {"lsu"} : SlotOps(u) = {}

-----------------------------------------------------------------------------
(* The mapping after i entries that start from the mapping f.               *)
Last(f, rb, a, i) ==
    LET ks == {k \in 1 .. i : rb[k].op.rd = a}
    IN  IF ks = {} THEN f[a] ELSE rb[CHOOSE k \in ks : \A j \in ks : j <= k].op.phy

(* No register has two owners, and every source is the newest mapping of a  *)
(* register when its reader was renamed.                                    *)
RegsOK(rb, f) ==
    /\ \A a, b \in Arch : f[a] = f[b] => a = b
    /\ \A k \in 1 .. Len(rb) : rb[k].op.rd = None <=> rb[k].op.phy = None
    /\ \A k \in 1 .. Len(rb) : \A a \in Arch : rb[k].op.phy # f[a]
    /\ \A j, k \in 1 .. Len(rb) : rb[j].op.phy = rb[k].op.phy /\ rb[j].op.phy # None => j = k
    /\ \A k \in 1 .. Len(rb) : \A p \in rb[k].op.srcs : \E a \in Arch : p = Last(f, rb, a, k - 1)
    /\ \A k \in 1 .. Len(rb) : rb[k].op.kind = "fence" => rb[k].op.srcs = {}
RegsInv == RegsOK(rob, arf)

(* The registers whose writer is not among those that have delivered.       *)
Missing(rb, delivered) ==
    {rb[k].op.phy : k \in {j \in 1 .. Len(rb) : /\ rb[j].op.rd # None /\ rb[j].done # "ok"
                                              /\ rb[j].op.phy \notin delivered}}
Owned(rb, f) == {f[a] : a \in Arch} \cup ({rb[k].op.phy : k \in 1 .. Len(rb)} \ {None})
Late == IF step = "back" THEN Delivered(execute_wb) ELSE Delivered(execute_wb \cup wb_commit)
BitsInv == data_valid = Owned(rob, arf) \ (Undelivered \cup Late)

-----------------------------------------------------------------------------
(* The instructions that have not been sent, as they stand in line.         *)
PortFrom == IF step = "front" /\ ~ busy THEN Len(readreg_issue) ELSE FirstInput
InLine(q, port, from, ren) ==
    [k \in 1 .. Len(q) + (Len(port) - from) + Len(ren) |->
        IF k <= Len(q) THEN q[k].op
        ELSE IF k <= Len(q) + (Len(port) - from) THEN port[from + k - Len(q)].op
        ELSE ren[k - Len(q) - (Len(port) - from)]]
Line == InLine(issue_q, readreg_issue, PortFrom, rename_readreg)
Lined == {Line[k] : k \in 1 .. Len(Line)}

(* Program order, and the unfinished instructions.                          *)
Precedes(rb, x, y) == \E a, b \in 1 .. Len(rb) : a < b /\ rb[a].op = x /\ rb[b].op = y
Open(rb) == {rb[k].op : k \in {j \in 1 .. Len(rb) : rb[j].done = "no"}}
OpsOf(results) == {r.op : r \in results}

(* The line is in program order; nothing unfinished is missing or in two    *)
(* places.                                                                  *)
LineOK(rb, line) == \A i, j \in 1 .. Len(line) : i < j => Precedes(rb, line[i], line[j])
PlaceOK(rb, lined, sent, ewb, wbc) ==
    /\ lined \cup sent \cup OpsOf(ewb) \cup OpsOf(wbc) = Open(rb)
    /\ lined \cap sent = {} /\ lined \cap OpsOf(ewb) = {} /\ lined \cap OpsOf(wbc) = {}
    /\ sent \cap OpsOf(ewb) = {} /\ sent \cap OpsOf(wbc) = {} /\ OpsOf(ewb) \cap OpsOf(wbc) = {}
    /\ \A r, s \in ewb : r.op = s.op => r = s
    /\ \A r, s \in wbc : r.op = s.op => r = s
PlaceInv == LineOK(rob, Line) /\ PlaceOK(rob, Lined, Issued, execute_wb, wb_commit)

(* A port holds instructions of its unit; the LSU holds back a store that is*)
(* older than what its port has.                                            *)
SlotInv ==
    /\ \A u \in Unit : \A o \in SlotOps(u) : op_unit(o.kind) = u
    /\ held # None => /\ held.kind = "store"
                      /\ \A o \in SlotOps("lsu") : Precedes(rob, held, o)

-----------------------------------------------------------------------------
OperandInv ==
    /\ \A k \in 1 .. Len(issue_q) :
          issue_q[k].waiting = issue_q[k].op.srcs \cap
             (Undelivered \cup (IF step = "issue" THEN execute_feedback ELSE {}))
    /\ \A k \in PortFrom + 1 .. Len(readreg_issue) :
          /\ readreg_issue[k].op.srcs \cap Undelivered \subseteq readreg_issue[k].waiting
          /\ readreg_issue[k].waiting \subseteq readreg_issue[k].op.srcs
    /\ \A op \in Issued \cup Executed : op.srcs \cap Undelivered = {}

(* A barrier in line has everything younger in line behind it, and a memory *)
(* operation every younger memory operation.                                *)
Barrier(kind) == Serial(kind) \/ kind = "fence"
Lsu(op) == op_unit(op.kind) = "lsu"
BarrierOK(rb, lined) ==
    \A j, k \in 1 .. Len(rb) :
        j < k /\ Barrier(rb[j].op.kind) /\ rb[j].op \in lined => rb[k].op \in lined
LsuOK(rb, lined) ==
    \A j, k \in 1 .. Len(rb) :
        j < k /\ Lsu(rb[j].op) /\ Lsu(rb[k].op) /\ rb[j].op \in lined => rb[k].op \in lined
OrderInv == /\ BarrierOK(rob, Lined) /\ LsuOK(rob, Lined) /\ LsuOK(rob, Lined \cup Issued)

(* Of the entries that commit is about to retire (the first n) nothing is   *)
(* asked: the barrier that has been sent is the next one.                   *)
SerialOK(rb, lined, n, waiting, id) ==
    \A k \in 1 .. Len(rb) : Serial(rb[k].op.kind) /\ rb[k].op \notin lined =>
        /\ k <= n + 1
        /\ k > n => /\ waiting /\ id = rb[k].op.id
                    /\ \A j \in k + 1 .. Len(rb) : rb[j].op \in lined
FenceOK(rb, lined, n, s) ==
    \A k \in 1 .. Len(rb) : rb[k].op.kind = "fence" /\ rb[k].op \notin lined =>
        /\ k <= n + 1
        /\ k > n => s = 0 /\ \A j \in 1 .. n : rb[j].op.kind # "store"
SentInv == /\ SerialOK(rob, Lined, feedback.retire, is_inst_waiting, inst_waiting_rob_id)
           /\ FenceOK(rob, Lined, feedback.retire, stored)

(* The inductive invariant.                                                 *)
IssueInv == /\ TypeInv /\ IdsInv /\ PassInv /\ RegsInv /\ BitsInv /\ PlaceInv /\ SlotInv
            /\ OperandInv /\ OrderInv /\ SentInv

(* Every instruction has a unit, and of each unit there is at least one.    *)
LEMMA UnitsExist ==
    /\ \A k \in Kinds : op_unit(k) \in Unit
    /\ \A u \in Unit : UnitNum(u) \in Nat \ {0}
    /\ UnitNum("lsu") = 1 /\ "lsu" \in Unit /\ "alu" \in Unit
    /\ op_unit("fence") = "alu" /\ op_unit("store") = "lsu"
    /\ op_unit("csr") = "csr" /\ op_unit("mret") = "bru"
  <1>1. Kinds \subseteq {"alu", "mul", "div", "load", "store", "csr", "mret", "fence"}
    BY KindsAssumption
  <1>2. AluNum \in Nat \ {0} /\ MulNum \in Nat \ {0}
    BY IssueSizesAssumption
  <1>3. ASSUME NEW k \in Kinds PROVE op_unit(k) \in Unit
    <2>1. k \in {"alu", "mul", "div", "load", "store", "csr", "mret", "fence"}
      BY <1>1
    <2> QED
      BY <2>1 DEF op_unit, Unit
  <1>4. ASSUME NEW u \in Unit PROVE UnitNum(u) \in Nat \ {0}
    BY <1>2 DEF UnitNum, Unit
  <1>5. UnitNum("lsu") = 1 /\ "lsu" \in Unit /\ "alu" \in Unit
    BY DEF UnitNum, Unit
  <1>6. /\ op_unit("fence") = "alu" /\ op_unit("store") = "lsu"
        /\ op_unit("csr") = "csr" /\ op_unit("mret") = "bru"
    BY DEF op_unit
  <1> QED
    BY <1>3, <1>4, <1>5, <1>6

(* Modulo removes one lap or none.                                          *)
LEMMA Lap ==
    ASSUME NEW n \in Nat \ {0}, NEW x \in 0 .. 2 * n - 1
    PROVE  x % n = IF x < n THEN x ELSE x - n
  <1>1. CASE x < n
    BY <1>1
  <1>2. CASE x >= n
    <2> DEFINE d == x - n
    <2>1. d \in 0 .. n - 1 /\ x = d + n
      BY <1>2
    <2> HIDE DEF d
    <2>2. (d + n) % n = d
      BY <2>1
    <2>3. QED
      BY <1>2, <2>1, <2>2 DEF d
  <1>3. QED
    BY <1>1, <1>2

(* The ids from b on, at most one lap.                                      *)
LEMMA RingId ==
    ASSUME NEW b \in RobId, NEW k \in 0 .. RobSize
    PROVE  /\ (b + k) % RobSize = IF b + k < RobSize THEN b + k ELSE b + k - RobSize
           /\ (b + k) % RobSize \in RobId
  <1>1. RobSize \in Nat \ {0}
    BY IssueSizesAssumption
  <1>2. b + k \in 0 .. 2 * RobSize - 1
    BY <1>1 DEF RobId
  <1>3. PICK x \in 0 .. 2 * RobSize - 1 : x = b + k
    BY <1>2
  <1>4. x % RobSize = IF x < RobSize THEN x ELSE x - RobSize
    BY <1>1, Lap
  <1>5. x % RobSize \in RobId
    BY <1>1, <1>4 DEF RobId
  <1>6. b + k = x
    BY <1>3
  <1> QED
    BY <1>1, <1>2, <1>4, <1>5, <1>6 DEF RobId

(* They differ as long as they do not go round.                             *)
LEMMA RingIdsDiffer ==
    ASSUME NEW b \in RobId, NEW j \in 0 .. RobSize, NEW k \in 0 .. RobSize,
           j < k, k - j < RobSize
    PROVE  (b + j) % RobSize # (b + k) % RobSize
  <1>1. RobSize \in Nat \ {0} /\ b \in 0 .. RobSize - 1
    BY IssueSizesAssumption DEF RobId
  <1> DEFINE x == (b + j) % RobSize
             y == (b + k) % RobSize
  <1>2. /\ x = IF b + j < RobSize THEN b + j ELSE b + j - RobSize
        /\ y = IF b + k < RobSize THEN b + k ELSE b + k - RobSize
    BY RingId
  <1> HIDE DEF x, y
  <1>3. x # y
    BY <1>1, <1>2
  <1> QED
    BY <1>3 DEF x, y

(* Counting on from an id that was counted to.                              *)
LEMMA RingIdOn ==
    ASSUME NEW b \in RobId, NEW j \in 0 .. RobSize, NEW k \in 0 .. RobSize, j + k <= RobSize
    PROVE  (((b + j) % RobSize) + k) % RobSize = (b + (j + k)) % RobSize
  <1>1. RobSize \in Nat \ {0} /\ b \in 0 .. RobSize - 1 /\ j + k \in 0 .. RobSize
    BY IssueSizesAssumption DEF RobId
  <1> DEFINE c == (b + j) % RobSize
             d == (b + (j + k)) % RobSize
  <1>2. c \in RobId /\ c = IF b + j < RobSize THEN b + j ELSE b + j - RobSize
    BY RingId
  <1>3. d = IF b + (j + k) < RobSize THEN b + (j + k) ELSE b + (j + k) - RobSize
    BY <1>1, RingId
  <1> HIDE DEF c, d
  <1> DEFINE e == (c + k) % RobSize
  <1>4. e = IF c + k < RobSize THEN c + k ELSE c + k - RobSize
    BY <1>2, RingId
  <1> HIDE DEF e
  <1>5. e = d
    BY <1>1, <1>2, <1>3, <1>4
  <1> QED
    BY <1>5 DEF c, d, e

(* No two entries of the ROB have an id in common, so no two are equal, and *)
(* new_id is none of them unless the ROB is full.                           *)
LEMMA IdsDiffer ==
    ASSUME NEW rb, NEW next, Len(rb) \in Nat, Len(rb) <= RobSize, IdsOK(rb, next)
    PROVE  /\ \A j, k \in 1 .. Len(rb) : rb[j].op.id = rb[k].op.id => j = k
           /\ \A j, k \in 1 .. Len(rb) : rb[j].op = rb[k].op => j = k
  <1>0. RobSize \in Nat \ {0}
    BY IssueSizesAssumption
  <1>1. PICK b \in RobId : \A k \in 1 .. Len(rb) : rb[k].op.id = (b + k - 1) % RobSize
    BY DEF IdsOK
  <1>2. ASSUME NEW j \in 1 .. Len(rb), NEW k \in 1 .. Len(rb), j < k
        PROVE  rb[j].op.id # rb[k].op.id
    <2>1. /\ j - 1 \in 0 .. RobSize /\ k - 1 \in 0 .. RobSize /\ j - 1 < k - 1
          /\ (k - 1) - (j - 1) < RobSize
      BY <1>0, <1>2
    <2>2. b + (j - 1) = b + j - 1 /\ b + (k - 1) = b + k - 1
      BY <1>0 DEF RobId
    <2>3. (b + (j - 1)) % RobSize # (b + (k - 1)) % RobSize
      BY <2>1, RingIdsDiffer
    <2> QED
      BY <1>1, <2>2, <2>3
  <1>3. ASSUME NEW j \in 1 .. Len(rb), NEW k \in 1 .. Len(rb), rb[j].op.id = rb[k].op.id
        PROVE  j = k
    BY <1>2, <1>3
  <1> QED
    BY <1>3

(* The newest of a set of positions.                                        *)
LEMMA NewestIs ==
    ASSUME NEW n \in Nat, NEW ks, ks \subseteq 1 .. n, ks # {}
    PROVE  LET x == CHOOSE k \in ks : \A j \in ks : j <= k
           IN  x \in ks /\ \A j \in ks : j <= x
  <1>1. ks \subseteq 0 .. n
    OBVIOUS
  <1>2. \E k \in ks : \A j \in ks : j <= k
    BY <1>1, Greatest
  <1> QED
    BY <1>2

(* The mapping after i entries is the first mapping, or the target of a     *)
(* writer that no other one follows.                                        *)
LEMMA LastCases ==
    ASSUME NEW f, NEW rb, NEW a, NEW i \in Nat
    PROVE  \/ Last(f, rb, a, i) = f[a] /\ \A k \in 1 .. i : rb[k].op.rd # a
           \/ \E k \in 1 .. i : /\ rb[k].op.rd = a /\ Last(f, rb, a, i) = rb[k].op.phy
                                /\ \A j \in k + 1 .. i : rb[j].op.rd # a
  <1> DEFINE K == {k \in 1 .. i : rb[k].op.rd = a}
             x == CHOOSE k \in K : \A j \in K : j <= k
  <1>1. CASE K = {}
    <2>1. Last(f, rb, a, i) = f[a]
      BY <1>1 DEF Last
    <2> QED
      BY <1>1, <2>1
  <1>2. CASE K # {}
    <2>1. x \in K /\ \A j \in K : j <= x
      <3>1. K \subseteq 1 .. i
        OBVIOUS
      <3> HIDE DEF K
      <3> QED
        BY <1>2, <3>1, NewestIs
    <2>2. Last(f, rb, a, i) = rb[x].op.phy
      BY <1>2 DEF Last
    <2> HIDE DEF x
    <2>3. x \in 1 .. i /\ rb[x].op.rd = a
      BY <2>1
    <2>4. \A j \in x + 1 .. i : j \in 1 .. i /\ ~ (j <= x)
      BY <2>3
    <2>5. \A j \in x + 1 .. i : rb[j].op.rd # a
      BY <2>1, <2>4
    <2> QED
      BY <2>2, <2>3, <2>5
  <1> QED
    BY <1>1, <1>2

(* The two cases determine it.                                              *)
LEMMA LastIs ==
    ASSUME NEW f, NEW rb, NEW a, NEW i \in Nat
    PROVE  /\ (\A k \in 1 .. i : rb[k].op.rd # a) => Last(f, rb, a, i) = f[a]
           /\ \A k \in 1 .. i : rb[k].op.rd = a /\ (\A j \in k + 1 .. i : rb[j].op.rd # a)
                 => Last(f, rb, a, i) = rb[k].op.phy
  <1>1. ASSUME \A k \in 1 .. i : rb[k].op.rd # a PROVE Last(f, rb, a, i) = f[a]
    BY <1>1, LastCases
  <1>2. ASSUME NEW k \in 1 .. i, rb[k].op.rd = a, \A j \in k + 1 .. i : rb[j].op.rd # a
        PROVE  Last(f, rb, a, i) = rb[k].op.phy
    <2>1. PICK n \in 1 .. i : /\ rb[n].op.rd = a /\ Last(f, rb, a, i) = rb[n].op.phy
                              /\ \A j \in n + 1 .. i : rb[j].op.rd # a
      BY <1>2, LastCases
    <2>2. ~ (n \in k + 1 .. i) /\ ~ (k \in n + 1 .. i)
      BY <1>2, <2>1
    <2>3. n = k
      BY <2>2
    <2> QED
      BY <2>1, <2>3
  <1> QED
    BY <1>1, <1>2

(* Only the first i entries matter.                                         *)
LEMMA LastSame ==
    ASSUME NEW f, NEW rb, NEW rx, NEW a, NEW i \in Nat,
           \A k \in 1 .. i : rx[k].op.rd = rb[k].op.rd /\ rx[k].op.phy = rb[k].op.phy
    PROVE  Last(f, rx, a, i) = Last(f, rb, a, i)
  <1>1. CASE \A k \in 1 .. i : rb[k].op.rd # a
    <2>1. Last(f, rb, a, i) = f[a]
      BY <1>1, LastIs
    <2>2. Last(f, rx, a, i) = f[a]
      BY <1>1, LastIs
    <2> QED
      BY <2>1, <2>2
  <1>2. CASE ~ \A k \in 1 .. i : rb[k].op.rd # a
    <2>1. PICK k \in 1 .. i : /\ rb[k].op.rd = a /\ Last(f, rb, a, i) = rb[k].op.phy
                              /\ \A j \in k + 1 .. i : rb[j].op.rd # a
      BY <1>2, LastCases
    <2>2. \A j \in k + 1 .. i : j \in 1 .. i
      OBVIOUS
    <2>3. rx[k].op.rd = a /\ \A j \in k + 1 .. i : rx[j].op.rd # a
      BY <2>1, <2>2
    <2>4. Last(f, rx, a, i) = rx[k].op.phy
      BY <2>3, LastIs
    <2> QED
      BY <2>1, <2>4
  <1> QED
    BY <1>1, <1>2

(* When n entries have retired, the rest goes on from where they ended.     *)
LEMMA LastShift ==
    ASSUME NEW f, NEW rb, NEW g, NEW rx, NEW a, NEW n \in Nat, NEW i \in Nat,
           g[a] = Last(f, rb, a, n), \A k \in 1 .. i : rx[k] = rb[n + k]
    PROVE  Last(g, rx, a, i) = Last(f, rb, a, n + i)
  <1>0. n + i \in Nat
    OBVIOUS
  <1>1. CASE \A k \in 1 .. i : rx[k].op.rd # a
    <2>1. Last(g, rx, a, i) = g[a]
      BY <1>1, LastIs
    <2>2. \A j \in n + 1 .. n + i : rb[j].op.rd # a
      <3>1. ASSUME NEW j \in n + 1 .. n + i PROVE rb[j].op.rd # a
        <4>1. j - n \in 1 .. i /\ n + (j - n) = j
          OBVIOUS
        <4> QED
          BY <1>1, <4>1
      <3> QED
        BY <3>1
    <2>3. CASE \A k \in 1 .. n : rb[k].op.rd # a
      <3>1. \A k \in 1 .. n + i : k \in 1 .. n \/ k \in n + 1 .. n + i
        OBVIOUS
      <3>2. \A k \in 1 .. n + i : rb[k].op.rd # a
        BY <2>2, <2>3, <3>1
      <3>3. Last(f, rb, a, n + i) = f[a] /\ Last(f, rb, a, n) = f[a]
        BY <1>0, <2>3, <3>2, LastIs
      <3> QED
        BY <2>1, <3>3
    <2>4. CASE ~ \A k \in 1 .. n : rb[k].op.rd # a
      <3>1. PICK k \in 1 .. n : /\ rb[k].op.rd = a /\ Last(f, rb, a, n) = rb[k].op.phy
                                /\ \A j \in k + 1 .. n : rb[j].op.rd # a
        BY <2>4, LastCases
      <3>2. k \in 1 .. n + i /\ \A j \in k + 1 .. n + i : j \in k + 1 .. n \/ j \in n + 1 .. n + i
        OBVIOUS
      <3>3. \A j \in k + 1 .. n + i : rb[j].op.rd # a
        BY <2>2, <3>1, <3>2
      <3>4. Last(f, rb, a, n + i) = rb[k].op.phy
        BY <1>0, <3>1, <3>2, <3>3, LastIs
      <3> QED
        BY <2>1, <3>1, <3>4
    <2> QED
      BY <2>3, <2>4
  <1>2. CASE ~ \A k \in 1 .. i : rx[k].op.rd # a
    <2>1. PICK k \in 1 .. i : /\ rx[k].op.rd = a /\ Last(g, rx, a, i) = rx[k].op.phy
                              /\ \A j \in k + 1 .. i : rx[j].op.rd # a
      BY <1>2, LastCases
    <2>2. n + k \in 1 .. n + i /\ rb[n + k].op.rd = a /\ rx[k] = rb[n + k]
      BY <2>1
    <2>3. ASSUME NEW j \in n + k + 1 .. n + i PROVE rb[j].op.rd # a
      <3>1. j - n \in k + 1 .. i /\ n + (j - n) = j /\ j - n \in 1 .. i
        OBVIOUS
      <3>2. rx[j - n].op.rd # a /\ rx[j - n] = rb[n + (j - n)]
        BY <2>1, <3>1
      <3> QED
        BY <3>1, <3>2
    <2>4. Last(f, rb, a, n + i) = rb[n + k].op.phy
      BY <1>0, <2>2, <2>3, LastIs
    <2> QED
      BY <2>1, <2>2, <2>4
  <1> QED
    BY <1>1, <1>2

(* MapAfter of the module is this mapping.                                  *)
LEMMA MapIsLast ==
    ASSUME NEW i \in Nat, NEW a
    PROVE  MapAfter(RobOps(i), a) = Last(arf, rob, a, i)
  <1> DEFINE s == RobOps(i)
  <1>1. s = [k \in 1 .. i |-> rob[k].op]
    BY DEF RobOps
  <1>2. Len(s) = i
    BY <1>1
  <1> HIDE DEF s
  <1>3. \A k \in 1 .. i : s[k] = rob[k].op
    BY <1>1
  <1>4. {k \in 1 .. Len(s) : s[k].rd = a} = {k \in 1 .. i : rob[k].op.rd = a}
    BY <1>2, <1>3
  <1> DEFINE K == {k \in 1 .. i : rob[k].op.rd = a}
             x == CHOOSE k \in K : \A j \in K : j <= k
  <1>5. CASE K = {}
    BY <1>4, <1>5 DEF MapAfter, Last, s
  <1>6. CASE K # {}
    <2>1. x \in K
      <3>1. K \subseteq 1 .. i
        OBVIOUS
      <3> HIDE DEF K
      <3> QED
        BY <1>6, <3>1, NewestIs
    <2>2. s[x] = rob[x].op
      <3> HIDE DEF x
      <3> QED
        BY <1>3, <2>1
    <2>3. MapAfter(s, a) = s[x].phy
      BY <1>4, <1>6 DEF MapAfter
    <2>4. Last(arf, rob, a, i) = rob[x].op.phy
      BY <1>6 DEF Last
    <2> QED
      BY <2>2, <2>3, <2>4 DEF s
  <1> QED
    BY <1>5, <1>6

(* rx is rb without its first n entries, which were done.                   *)
Dropped(rb, n, rx) ==
    /\ n \in 0 .. Len(rb) /\ Len(rx) = Len(rb) - n
    /\ \A k \in 1 .. Len(rx) : rx[k] = rb[n + k]
    /\ \A k \in 1 .. n : rb[k].done = "ok"

(* What is left after n entries retire, position by position.               *)
LEMMA DropAt ==
    ASSUME NEW rb \in Seq(Entry), NEW n, NEW rx, Dropped(rb, n, rx)
    PROVE  /\ n \in Nat /\ Len(rb) \in Nat /\ Len(rx) \in Nat
           /\ \A k \in 1 .. Len(rx) : n + k \in 1 .. Len(rb) /\ n + k \in n + 1 .. Len(rb) /\ rx[k] = rb[n + k]
           /\ \A k \in n + 1 .. Len(rb) : k - n \in 1 .. Len(rx) /\ rb[k] = rx[k - n] /\ k \in 1 .. Len(rb)
           /\ \A k \in 1 .. Len(rb) : k \in 1 .. n \/ k \in n + 1 .. Len(rb)
  <1>1. Len(rb) \in Nat
    OBVIOUS
  <1>2. n \in 0 .. Len(rb) /\ Len(rx) = Len(rb) - n /\ \A k \in 1 .. Len(rx) : rx[k] = rb[n + k]
    BY DEF Dropped
  <1>3. n \in Nat /\ Len(rx) \in Nat
    BY <1>1, <1>2
  <1>4. ASSUME NEW k \in n + 1 .. Len(rb)
        PROVE  k - n \in 1 .. Len(rx) /\ rb[k] = rx[k - n] /\ k \in 1 .. Len(rb)
    <2>1. k - n \in 1 .. Len(rx) /\ n + (k - n) = k /\ k \in 1 .. Len(rb)
      BY <1>1, <1>2, <1>3
    <2>2. rx[k - n] = rb[n + (k - n)]
      BY <1>2, <2>1
    <2> QED
      BY <2>1, <2>2
  <1>5. ASSUME NEW k \in 1 .. Len(rx)
        PROVE  n + k \in 1 .. Len(rb) /\ n + k \in n + 1 .. Len(rb) /\ rx[k] = rb[n + k]
    BY <1>1, <1>2, <1>3
  <1>6. \A k \in 1 .. Len(rb) : k \in 1 .. n \/ k \in n + 1 .. Len(rb)
    BY <1>1, <1>3
  <1> QED
    BY <1>1, <1>3, <1>4, <1>5, <1>6

(* Retiring keeps the ids consecutive.                                      *)
LEMMA IdsDrop ==
    ASSUME NEW rb \in Seq(Entry), Len(rb) <= RobSize, NEW n, NEW rx, Dropped(rb, n, rx),
           NEW next, IdsOK(rb, next)
    PROVE  IdsOK(rx, next)
  <1>0. RobSize \in Nat \ {0} /\ Len(rb) \in Nat /\ n \in 0 .. Len(rb) /\ Len(rx) = Len(rb) - n
    BY IssueSizesAssumption DEF Dropped
  <1>1. PICK b \in RobId : /\ next = (b + Len(rb)) % RobSize
                           /\ \A k \in 1 .. Len(rb) : rb[k].op.id = (b + k - 1) % RobSize
    BY DEF IdsOK
  <1>2. n \in 0 .. RobSize
    BY <1>0
  <1>3. PICK c \in RobId : c = (b + n) % RobSize
    BY <1>2, RingId
  <1>4. ASSUME NEW k \in 0 .. Len(rx) PROVE (c + k) % RobSize = (b + (n + k)) % RobSize
    <2>1. k \in 0 .. RobSize /\ n + k <= RobSize
      BY <1>0
    <2>2. (((b + n) % RobSize) + k) % RobSize = (b + (n + k)) % RobSize
      BY <1>2, <2>1, RingIdOn
    <2> QED
      BY <1>3, <2>2
  <1>5. next = (c + Len(rx)) % RobSize
    <2>1. Len(rx) \in 0 .. Len(rx) /\ n + Len(rx) = Len(rb)
      BY <1>0
    <2> QED
      BY <1>1, <1>4, <2>1
  <1>6. ASSUME NEW k \in 1 .. Len(rx) PROVE rx[k].op.id = (c + k - 1) % RobSize
    <2>1. k - 1 \in 0 .. Len(rx) /\ c + (k - 1) = c + k - 1 /\ b + (n + (k - 1)) = b + (n + k) - 1
      BY <1>0 DEF RobId
    <2>2. (c + (k - 1)) % RobSize = (b + (n + (k - 1))) % RobSize
      BY <1>4, <2>1
    <2>3. n + k \in 1 .. Len(rb) /\ rx[k] = rb[n + k]
      BY DropAt
    <2>4. rb[n + k].op.id = (b + (n + k) - 1) % RobSize
      BY <1>1, <2>3
    <2> QED
      BY <2>1, <2>2, <2>3, <2>4
  <1> QED
    BY <1>5, <1>6 DEF IdsOK

(* What the ROB holds.                                                      *)
LEMMA EntryTypes ==
    ASSUME NEW rb \in Seq(Entry), NEW k \in 1 .. Len(rb)
    PROVE  /\ rb[k] \in Entry /\ rb[k].op \in Op /\ rb[k].done \in {"no", "ok", "fault"}
           /\ rb[k].op.id \in RobId /\ rb[k].op.kind \in Kinds /\ rb[k].op.rd \in Arch \cup {None}
           /\ rb[k].op.phy \in Phy \cup {None} /\ rb[k].op.srcs \in SUBSET Phy
  <1>1. rb[k] \in Entry
    OBVIOUS
  <1>2. rb[k].op \in Op /\ rb[k].done \in {"no", "ok", "fault"}
    BY <1>1 DEF Entry
  <1> QED
    BY <1>1, <1>2 DEF Op

(* None is no register and no instruction.                                  *)
LEMMA NoneApart ==
    None \notin Phy /\ None \notin Arch /\ None \notin Op
  BY NoneAssumption

(* The mapping has registers for values, and never one for two.             *)
LEMMA LastTyped ==
    ASSUME NEW rb \in Seq(Entry), NEW f \in [Arch -> Phy], RegsOK(rb, f),
           NEW n \in 0 .. Len(rb), NEW a \in Arch
    PROVE  /\ Last(f, rb, a, n) \in Phy
           /\ \A k \in n + 1 .. Len(rb) : rb[k].op.phy # Last(f, rb, a, n)
           /\ \/ Last(f, rb, a, n) = f[a]
              \/ \E k \in 1 .. n : rb[k].op.rd = a /\ Last(f, rb, a, n) = rb[k].op.phy
  <1>0. n \in Nat /\ Len(rb) \in Nat
    OBVIOUS
  <1>1. CASE Last(f, rb, a, n) = f[a]
    <2>1. \A k \in n + 1 .. Len(rb) : k \in 1 .. Len(rb)
      BY <1>0
    <2> QED
      BY <1>1, <2>1 DEF RegsOK
  <1>2. CASE Last(f, rb, a, n) # f[a]
    <2>1. PICK k \in 1 .. n : rb[k].op.rd = a /\ Last(f, rb, a, n) = rb[k].op.phy
      BY <1>0, <1>2, LastCases
    <2>2. k \in 1 .. Len(rb) /\ rb[k].op.phy \in Phy \cup {None}
      BY <1>0, EntryTypes
    <2>3. rb[k].op.phy # None
      BY <2>1, <2>2, NoneApart DEF RegsOK
    <2>4. ASSUME NEW j \in n + 1 .. Len(rb) PROVE rb[j].op.phy # rb[k].op.phy
      <3>1. j \in 1 .. Len(rb) /\ j # k
        BY <1>0
      <3> QED
        BY <2>2, <2>3, <3>1 DEF RegsOK
    <2> QED
      BY <2>1, <2>2, <2>3, <2>4
  <1> QED
    BY <1>1, <1>2

(* Two architectural registers never share a physical one.                  *)
LEMMA LastInjective ==
    ASSUME NEW rb \in Seq(Entry), NEW f \in [Arch -> Phy], RegsOK(rb, f),
           NEW n \in 0 .. Len(rb), NEW a \in Arch, NEW b \in Arch,
           Last(f, rb, a, n) = Last(f, rb, b, n)
    PROVE  a = b
  <1>0. n \in Nat /\ Len(rb) \in Nat /\ \A k \in 1 .. n : k \in 1 .. Len(rb)
    OBVIOUS
  <1>1. CASE Last(f, rb, a, n) = f[a] /\ Last(f, rb, b, n) = f[b]
    BY <1>1 DEF RegsOK
  <1>2. CASE Last(f, rb, a, n) = f[a] /\ Last(f, rb, b, n) # f[b]
    <2>0. \/ Last(f, rb, b, n) = f[b]
          \/ \E k \in 1 .. n : rb[k].op.rd = b /\ Last(f, rb, b, n) = rb[k].op.phy
      BY LastTyped
    <2>1. PICK k \in 1 .. n : Last(f, rb, b, n) = rb[k].op.phy
      BY <1>2, <2>0
    <2> QED
      BY <1>0, <1>2, <2>1 DEF RegsOK
  <1>3. CASE Last(f, rb, a, n) # f[a] /\ Last(f, rb, b, n) = f[b]
    <2>1. PICK k \in 1 .. n : Last(f, rb, a, n) = rb[k].op.phy
      BY <1>3, LastTyped
    <2> QED
      BY <1>0, <1>3, <2>1 DEF RegsOK
  <1>4. CASE Last(f, rb, a, n) # f[a] /\ Last(f, rb, b, n) # f[b]
    <2>1. PICK j \in 1 .. n : rb[j].op.rd = a /\ Last(f, rb, a, n) = rb[j].op.phy
      BY <1>4, LastTyped
    <2>2. PICK k \in 1 .. n : rb[k].op.rd = b /\ Last(f, rb, b, n) = rb[k].op.phy
      BY <1>4, LastTyped
    <2>3. rb[j].op.phy # None
      BY <2>1, LastTyped, NoneApart
    <2>4. j = k
      BY <1>0, <2>1, <2>2, <2>3 DEF RegsOK
    <2> QED
      BY <2>1, <2>2, <2>4
  <1> QED
    BY <1>1, <1>2, <1>3, <1>4

(* Retiring moves the mapping of the retired entries into the committed one.*)
LEMMA RegsDrop ==
    ASSUME NEW rb \in Seq(Entry), NEW f \in [Arch -> Phy], RegsOK(rb, f),
           NEW n, NEW rx, Dropped(rb, n, rx),
           NEW g, \A a \in Arch : g[a] = Last(f, rb, a, n)
    PROVE  RegsOK(rx, g)
  <1>0. n \in Nat /\ n \in 0 .. Len(rb) /\ Len(rx) \in Nat /\ Len(rb) \in Nat
    BY DropAt DEF Dropped
  <1>a. /\ \A k \in 1 .. Len(rx) : n + k \in 1 .. Len(rb) /\ n + k \in n + 1 .. Len(rb)
        /\ \A k \in 1 .. Len(rx) : rx[k] = rb[n + k]
    BY DropAt
  <1>1. \A a, b \in Arch : g[a] = g[b] => a = b
    BY <1>0, LastInjective
  <1>2. \A k \in 1 .. Len(rx) : rx[k].op.rd = None <=> rx[k].op.phy = None
    BY <1>a DEF RegsOK
  <1>3. \A k \in 1 .. Len(rx) : \A a \in Arch : rx[k].op.phy # g[a]
    <2>1. \A k \in n + 1 .. Len(rb) : \A a \in Arch : rb[k].op.phy # g[a]
      BY <1>0, LastTyped
    <2> QED
      BY <1>a, <2>1
  <1>4. ASSUME NEW j \in 1 .. Len(rx), NEW k \in 1 .. Len(rx),
               rx[j].op.phy = rx[k].op.phy, rx[j].op.phy # None
        PROVE  j = k
    <2>1. n + j = n + k
      BY <1>4, <1>a DEF RegsOK
    <2> QED
      BY <1>0, <2>1
  <1>5. ASSUME NEW k \in 1 .. Len(rx), NEW p \in rx[k].op.srcs
        PROVE  \E a \in Arch : p = Last(g, rx, a, k - 1)
    <2>1. n + k \in 1 .. Len(rb) /\ rx[k] = rb[n + k]
      BY DropAt
    <2>2. PICK a \in Arch : p = Last(f, rb, a, (n + k) - 1)
      BY <2>1 DEF RegsOK
    <2>3. k - 1 \in Nat /\ n + (k - 1) = (n + k) - 1 /\ \A i \in 1 .. k - 1 : i \in 1 .. Len(rx)
      BY <1>0
    <2>4. \A i \in 1 .. k - 1 : rx[i] = rb[n + i]
      BY <2>3, <1>a
    <2>5. Last(g, rx, a, k - 1) = Last(f, rb, a, n + (k - 1))
      <3> DEFINE i == k - 1
      <3>1. i \in Nat /\ \A x \in 1 .. i : rx[x] = rb[n + x]
        BY <2>3, <2>4
      <3> HIDE DEF i
      <3>0. g[a] = Last(f, rb, a, n)
        OBVIOUS
      <3>2. Last(g, rx, a, i) = Last(f, rb, a, n + i)
        BY ONLY <1>0, <3>0, <3>1, LastShift
      <3> QED
        BY <3>2 DEF i
    <2> QED
      BY <2>2, <2>3, <2>5
  <1>6. \A k \in 1 .. Len(rx) : rx[k].op.kind = "fence" => rx[k].op.srcs = {}
    BY <1>a DEF RegsOK
  <1> QED
    BY <1>1, <1>2, <1>3, <1>4, <1>5, <1>6 DEF RegsOK

(* Only finished entries retire.                                            *)
LEMMA OpenDrop ==
    ASSUME NEW rb \in Seq(Entry), NEW n, NEW rx, Dropped(rb, n, rx)
    PROVE  Open(rx) = Open(rb)
  <1>a. /\ \A k \in 1 .. Len(rx) : n + k \in 1 .. Len(rb) /\ rx[k] = rb[n + k]
        /\ \A k \in n + 1 .. Len(rb) : k - n \in 1 .. Len(rx) /\ rb[k] = rx[k - n]
        /\ \A k \in 1 .. Len(rb) : k \in 1 .. n \/ k \in n + 1 .. Len(rb)
        /\ \A k \in 1 .. n : rb[k].done = "ok"
    BY DropAt DEF Dropped
  <1>1. ASSUME NEW o \in Open(rx) PROVE o \in Open(rb)
    <2>1. PICK k \in 1 .. Len(rx) : rx[k].done = "no" /\ o = rx[k].op
      BY DEF Open
    <2> QED
      BY <1>a, <2>1 DEF Open
  <1>2. ASSUME NEW o \in Open(rb) PROVE o \in Open(rx)
    <2>1. PICK k \in 1 .. Len(rb) : rb[k].done = "no" /\ o = rb[k].op
      BY DEF Open
    <2>2. k \in n + 1 .. Len(rb)
      BY <1>a, <2>1
    <2> QED
      BY <1>a, <2>1, <2>2 DEF Open
  <1> QED
    BY <1>1, <1>2

(* Program order of the unfinished instructions survives.                   *)
LEMMA PrecedesDrop ==
    ASSUME NEW rb \in Seq(Entry), Len(rb) <= RobSize, NEW next, IdsOK(rb, next),
           NEW n, NEW rx, Dropped(rb, n, rx),
           NEW x \in Open(rb), NEW y, Precedes(rb, x, y)
    PROVE  Precedes(rx, x, y)
  <1>a. /\ n \in Nat /\ Len(rb) \in Nat
        /\ \A k \in n + 1 .. Len(rb) : k - n \in 1 .. Len(rx) /\ rb[k] = rx[k - n]
        /\ \A k \in 1 .. Len(rb) : k \in 1 .. n \/ k \in n + 1 .. Len(rb)
        /\ \A k \in 1 .. n : rb[k].done = "ok"
    BY DropAt DEF Dropped
  <1>1. PICK k \in 1 .. Len(rb) : rb[k].done = "no" /\ x = rb[k].op
    BY DEF Open
  <1>2. PICK i, j \in 1 .. Len(rb) : i < j /\ rb[i].op = x /\ rb[j].op = y
    BY DEF Precedes
  <1>3. i = k
    BY <1>a, <1>1, <1>2, IdsDiffer
  <1>4. i \in n + 1 .. Len(rb) /\ j \in n + 1 .. Len(rb)
    <2>1. i \in n + 1 .. Len(rb)
      BY <1>a, <1>1, <1>3
    <2> QED
      BY <1>a, <1>2, <2>1
  <1>5. i - n < j - n
    BY <1>a, <1>2
  <1>6. rx[i - n].op = x /\ rx[j - n].op = y /\ i - n \in 1 .. Len(rx) /\ j - n \in 1 .. Len(rx)
    BY <1>a, <1>2, <1>4
  <1> QED
    BY <1>5, <1>6 DEF Precedes

(* So does the order of the line.                                           *)
LEMMA LineDrop ==
    ASSUME NEW rb \in Seq(Entry), Len(rb) <= RobSize, NEW next, IdsOK(rb, next),
           NEW n, NEW rx, Dropped(rb, n, rx),
           NEW line, \A k \in 1 .. Len(line) : line[k] \in Open(rb), LineOK(rb, line)
    PROVE  LineOK(rx, line)
  <1>1. ASSUME NEW i \in 1 .. Len(line), NEW j \in 1 .. Len(line), i < j
        PROVE  Precedes(rx, line[i], line[j])
    <2>1. Precedes(rb, line[i], line[j]) /\ line[i] \in Open(rb)
      BY <1>1 DEF LineOK
    <2> QED
      BY <2>1, PrecedesDrop
  <1> QED
    BY <1>1 DEF LineOK

(* And what the barriers and the load/store unit keep in order.             *)
LEMMA OrderDrop ==
    ASSUME NEW rb \in Seq(Entry), NEW n, NEW rx, Dropped(rb, n, rx), NEW lined
    PROVE  /\ BarrierOK(rb, lined) => BarrierOK(rx, lined)
           /\ LsuOK(rb, lined) => LsuOK(rx, lined)
  <1>a. /\ n \in Nat /\ Len(rx) \in Nat
        /\ \A k \in 1 .. Len(rx) : n + k \in 1 .. Len(rb) /\ rx[k] = rb[n + k]
        /\ \A j, k \in 1 .. Len(rx) : j < k => n + j < n + k
    BY DropAt
  <1> QED
    BY <1>a DEF BarrierOK, LsuOK

(* A barrier that was sent is the oldest entry once its elders have retired.*)
LEMMA SentDrop ==
    ASSUME NEW rb \in Seq(Entry), NEW n, NEW rx, Dropped(rb, n, rx),
           NEW lined, NEW waiting, NEW id, NEW s, NEW t,
           (s = 0 /\ \A j \in 1 .. n : rb[j].op.kind # "store") => t = 0
    PROVE  /\ SerialOK(rb, lined, n, waiting, id) => SerialOK(rx, lined, 0, waiting, id)
           /\ FenceOK(rb, lined, n, s) => FenceOK(rx, lined, 0, t)
  <1>a. /\ n \in Nat /\ Len(rx) \in Nat /\ Len(rb) \in Nat
        /\ \A k \in 1 .. Len(rx) : n + k \in 1 .. Len(rb) /\ rx[k] = rb[n + k]
    BY DropAt
  <1>1. ASSUME SerialOK(rb, lined, n, waiting, id), NEW k \in 1 .. Len(rx),
               Serial(rx[k].op.kind), rx[k].op \notin lined
        PROVE  /\ k <= 0 + 1
               /\ k > 0 => /\ waiting /\ id = rx[k].op.id
                           /\ \A j \in k + 1 .. Len(rx) : rx[j].op \in lined
    <2>1. n + k \in 1 .. Len(rb) /\ rx[k] = rb[n + k]
      BY <1>a
    <2>2. /\ n + k <= n + 1
          /\ n + k > n => /\ waiting /\ id = rb[n + k].op.id
                          /\ \A j \in n + k + 1 .. Len(rb) : rb[j].op \in lined
      BY <1>1, <2>1 DEF SerialOK
    <2>3. n + k > n
      BY <1>a
    <2>4. \A j \in k + 1 .. Len(rx) : n + j \in n + k + 1 .. Len(rb) /\ rx[j] = rb[n + j]
      <3>1. ASSUME NEW j \in k + 1 .. Len(rx) PROVE n + j \in n + k + 1 .. Len(rb) /\ rx[j] = rb[n + j]
        <4>1. j \in 1 .. Len(rx)
          BY <1>a
        <4>2. n + j \in 1 .. Len(rb) /\ rx[j] = rb[n + j]
          BY <1>a, <4>1
        <4> QED
          BY <1>a, <4>2
      <3> QED
        BY <3>1
    <2>5. k <= 0 + 1
      BY <1>a, <2>2
    <2> QED
      BY <2>1, <2>2, <2>3, <2>4, <2>5
  <1>2. ASSUME FenceOK(rb, lined, n, s), NEW k \in 1 .. Len(rx),
               rx[k].op.kind = "fence", rx[k].op \notin lined
        PROVE  /\ k <= 0 + 1
               /\ k > 0 => t = 0 /\ \A j \in 1 .. 0 : rx[j].op.kind # "store"
    <2>1. n + k \in 1 .. Len(rb) /\ rx[k] = rb[n + k]
      BY <1>a
    <2>2. /\ n + k <= n + 1
          /\ n + k > n => s = 0 /\ \A j \in 1 .. n : rb[j].op.kind # "store"
      BY <1>2, <2>1 DEF FenceOK
    <2>3. n + k > n /\ 1 .. 0 = {}
      BY <1>a
    <2>4. k <= 0 + 1
      BY <1>a, <2>2
    <2> QED
      BY <2>2, <2>3, <2>4
  <1> QED
    BY <1>1, <1>2 DEF SerialOK, FenceOK

(* A retired instruction had delivered its result.                          *)
LEMMA MissingDrop ==
    ASSUME NEW rb \in Seq(Entry), NEW n, NEW rx, Dropped(rb, n, rx), NEW d
    PROVE  Missing(rx, d) = Missing(rb, d)
  <1>a. /\ \A k \in 1 .. Len(rx) : n + k \in 1 .. Len(rb) /\ rx[k] = rb[n + k]
        /\ \A k \in n + 1 .. Len(rb) : k - n \in 1 .. Len(rx) /\ rb[k] = rx[k - n]
        /\ \A k \in 1 .. Len(rb) : k \in 1 .. n \/ k \in n + 1 .. Len(rb)
        /\ \A k \in 1 .. n : rb[k].done = "ok"
    BY DropAt DEF Dropped
  <1>1. ASSUME NEW p \in Missing(rx, d) PROVE p \in Missing(rb, d)
    <2>1. PICK k \in 1 .. Len(rx) : /\ rx[k].op.rd # None /\ rx[k].done # "ok"
                                    /\ rx[k].op.phy \notin d /\ p = rx[k].op.phy
      BY DEF Missing
    <2>2. PICK j \in 1 .. Len(rb) : rx[k] = rb[j]
      BY <1>a
    <2> QED
      BY <2>1, <2>2 DEF Missing
  <1>2. ASSUME NEW p \in Missing(rb, d) PROVE p \in Missing(rx, d)
    <2>1. PICK k \in 1 .. Len(rb) : /\ rb[k].op.rd # None /\ rb[k].done # "ok"
                                    /\ rb[k].op.phy \notin d /\ p = rb[k].op.phy
      BY DEF Missing
    <2>2. k \in n + 1 .. Len(rb)
      BY <1>a, <2>1
    <2> QED
      BY <1>a, <2>1, <2>2 DEF Missing
  <1> QED
    BY <1>1, <1>2

(* The registers that belong to someone, when n entries have retired.       *)
LEMMA OwnedDrop ==
    ASSUME NEW rb \in Seq(Entry), NEW f \in [Arch -> Phy], RegsOK(rb, f),
           NEW n, NEW rx, Dropped(rb, n, rx),
           NEW g, \A a \in Arch : g[a] = Last(f, rb, a, n)
    PROVE  Owned(rx, g) = Owned(rb, f)
               \ (({f[a] : a \in Arch} \cup {rb[k].op.phy : k \in 1 .. n}) \ {g[a] : a \in Arch})
  <1>0. n \in Nat /\ n \in 0 .. Len(rb) /\ Len(rb) \in Nat
    BY DropAt DEF Dropped
  <1>a. /\ \A k \in 1 .. Len(rx) : n + k \in 1 .. Len(rb) /\ rx[k] = rb[n + k]
        /\ \A k \in n + 1 .. Len(rb) : k - n \in 1 .. Len(rx) /\ rb[k] = rx[k - n]
        /\ \A k \in 1 .. Len(rb) : k \in 1 .. n \/ k \in n + 1 .. Len(rb)
        /\ \A k \in 1 .. n : k \in 1 .. Len(rb)
        /\ \A k \in 1 .. Len(rx) : \A j \in 1 .. n : n + k # j
    <2>1. /\ \A k \in 1 .. Len(rx) : n + k \in 1 .. Len(rb) /\ rx[k] = rb[n + k]
          /\ \A k \in n + 1 .. Len(rb) : k - n \in 1 .. Len(rx) /\ rb[k] = rx[k - n]
      BY ONLY rb \in Seq(Entry), Dropped(rb, n, rx), DropAt
    <2>2. /\ \A k \in 1 .. Len(rb) : k \in 1 .. n \/ k \in n + 1 .. Len(rb)
          /\ \A k \in 1 .. n : k \in 1 .. Len(rb)
      BY <1>0
    <2>3. ASSUME NEW k \in 1 .. Len(rx), NEW j \in 1 .. n PROVE n + k # j
      BY <1>0
    <2> QED
      BY <2>1, <2>2, <2>3
  <1> DEFINE G == {g[a] : a \in Arch}
             R == ({f[a] : a \in Arch} \cup {rb[k].op.phy : k \in 1 .. n}) \ G
  <1>1. ASSUME NEW p \in Owned(rx, g) PROVE p \in Owned(rb, f) \ R
    <2>1. CASE p \in G
      <3>1. PICK a \in Arch : p = Last(f, rb, a, n)
        BY <2>1
      <3>2. /\ p \in Phy
            /\ p = f[a] \/ \E k \in 1 .. n : p = rb[k].op.phy
        BY <1>0, <3>1, LastTyped
      <3> QED
        BY <1>a, <2>1, <3>2, NoneApart DEF Owned
    <2>2. CASE p \notin G
      <3>1. PICK k \in 1 .. Len(rx) : p = rx[k].op.phy /\ p # None
        BY <2>2 DEF Owned
      <3>2. n + k \in 1 .. Len(rb) /\ p = rb[n + k].op.phy
        BY <1>a, <3>1
      <3>3. \A a \in Arch : p # f[a]
        BY <3>2 DEF RegsOK
      <3>4. \A j \in 1 .. n : p # rb[j].op.phy
        BY <1>a, <3>1, <3>2 DEF RegsOK
      <3> QED
        BY <3>1, <3>2, <3>3, <3>4 DEF Owned
    <2> QED
      BY <2>1, <2>2
  <1>2. ASSUME NEW p \in Owned(rb, f) \ R PROVE p \in Owned(rx, g)
    <2>1. CASE p \in G
      BY <2>1 DEF Owned
    <2>2. CASE p \notin G
      <3>1. PICK k \in 1 .. Len(rb) : p = rb[k].op.phy /\ p # None /\ k \notin 1 .. n
        BY <1>2, <2>2 DEF Owned
      <3>2. k - n \in 1 .. Len(rx) /\ p = rx[k - n].op.phy
        BY <1>a, <3>1
      <3> QED
        BY <3>1, <3>2 DEF Owned
    <2> QED
      BY <2>1, <2>2
  <1> QED
    BY <1>1, <1>2

(* rg is rb with new, unfinished instructions behind it.                    *)
Grown(rb, ops, rg) ==
    /\ Len(rg) = Len(rb) + Len(ops)
    /\ \A k \in 1 .. Len(rb) : rg[k] = rb[k]
    /\ \A k \in 1 .. Len(ops) : rg[Len(rb) + k] = [op |-> ops[k], done |-> "no"]
OpSet(ops) == {ops[k] : k \in 1 .. Len(ops)}

(* The ROB with a renamed group, position by position.                      *)
LEMMA GrowAt ==
    ASSUME NEW rb \in Seq(Entry), NEW ops \in Seq(Op), NEW rg, Grown(rb, ops, rg)
    PROVE  /\ Len(rg) \in Nat /\ Len(rb) \in Nat /\ Len(ops) \in Nat
           /\ \A k \in 1 .. Len(rb) : k \in 1 .. Len(rg) /\ rg[k] = rb[k]
           /\ \A k \in 1 .. Len(ops) : /\ Len(rb) + k \in 1 .. Len(rg) /\ Len(rb) + k \notin 1 .. Len(rb)
                                       /\ rg[Len(rb) + k].op = ops[k] /\ rg[Len(rb) + k].done = "no"
           /\ \A k \in 1 .. Len(rg) : \/ k \in 1 .. Len(rb)
                                      \/ /\ k - Len(rb) \in 1 .. Len(ops) /\ k > Len(rb)
                                         /\ rg[k].op = ops[k - Len(rb)] /\ rg[k].done = "no"
  <1>1. Len(rb) \in Nat /\ Len(ops) \in Nat
    OBVIOUS
  <1>2. /\ Len(rg) = Len(rb) + Len(ops)
        /\ \A k \in 1 .. Len(rb) : rg[k] = rb[k]
        /\ \A k \in 1 .. Len(ops) : rg[Len(rb) + k] = [op |-> ops[k], done |-> "no"]
    BY DEF Grown
  <1>3. ASSUME NEW k \in 1 .. Len(ops)
        PROVE  /\ Len(rb) + k \in 1 .. Len(rg) /\ Len(rb) + k \notin 1 .. Len(rb)
               /\ rg[Len(rb) + k].op = ops[k] /\ rg[Len(rb) + k].done = "no"
    <2>1. rg[Len(rb) + k] = [op |-> ops[k], done |-> "no"]
      BY <1>2
    <2>2. Len(rb) + k \in 1 .. Len(rg) /\ Len(rb) + k \notin 1 .. Len(rb)
      BY <1>1, <1>2
    <2> QED
      BY <2>1, <2>2
  <1>4. ASSUME NEW k \in 1 .. Len(rg), k \notin 1 .. Len(rb)
        PROVE  /\ k - Len(rb) \in 1 .. Len(ops) /\ k > Len(rb)
               /\ rg[k].op = ops[k - Len(rb)] /\ rg[k].done = "no"
    <2>1. k - Len(rb) \in 1 .. Len(ops) /\ k > Len(rb) /\ Len(rb) + (k - Len(rb)) = k
      BY <1>1, <1>2, <1>4
    <2> QED
      BY <1>3, <2>1
  <1>5. \A k \in 1 .. Len(rb) : k \in 1 .. Len(rg)
    BY <1>1, <1>2
  <1>6. Len(rg) \in Nat
    BY <1>1, <1>2
  <1> QED
    BY <1>1, <1>2, <1>3, <1>4, <1>5, <1>6

(* The group takes the next ids.                                            *)
LEMMA IdsGrow ==
    ASSUME NEW rb \in Seq(Entry), NEW ops \in Seq(Op), NEW rg, Grown(rb, ops, rg),
           Len(rg) <= RobSize, NEW next, IdsOK(rb, next),
           \A k \in 1 .. Len(ops) : ops[k].id = (next + k - 1) % RobSize
    PROVE  IdsOK(rg, (next + Len(ops)) % RobSize)
  <1>0. RobSize \in Nat \ {0} /\ Len(rb) \in Nat /\ Len(ops) \in Nat /\ Len(rg) = Len(rb) + Len(ops)
    BY IssueSizesAssumption DEF Grown
  <1>1. PICK b \in RobId : /\ next = (b + Len(rb)) % RobSize
                           /\ \A k \in 1 .. Len(rb) : rb[k].op.id = (b + k - 1) % RobSize
    BY DEF IdsOK
  <1>2. ASSUME NEW k \in 0 .. Len(ops) PROVE (next + k) % RobSize = (b + (Len(rb) + k)) % RobSize
    <2>1. Len(rb) \in 0 .. RobSize /\ k \in 0 .. RobSize /\ Len(rb) + k <= RobSize
      BY <1>0
    <2>2. (((b + Len(rb)) % RobSize) + k) % RobSize = (b + (Len(rb) + k)) % RobSize
      BY <2>1, RingIdOn
    <2> QED
      BY <1>1, <2>2
  <1>3. (next + Len(ops)) % RobSize = (b + Len(rg)) % RobSize
    <2>1. Len(ops) \in 0 .. Len(ops)
      BY <1>0
    <2> QED
      BY <1>0, <1>2, <2>1
  <1>n. next \in RobId
    <2>1. Len(rb) \in 0 .. RobSize
      BY <1>0
    <2> QED
      BY <1>1, <2>1, RingId
  <1>4. ASSUME NEW k \in 1 .. Len(rg) PROVE rg[k].op.id = (b + k - 1) % RobSize
    <2>1. CASE k \in 1 .. Len(rb)
      BY <1>1, <2>1, GrowAt
    <2>2. CASE k \notin 1 .. Len(rb)
      <3>1. k - Len(rb) \in 1 .. Len(ops) /\ rg[k].op = ops[k - Len(rb)]
        BY <2>2, GrowAt
      <3>2. PICK i \in 1 .. Len(ops) : i = k - Len(rb)
        BY <3>1
      <3>3. rg[k].op.id = (next + i - 1) % RobSize
        BY <3>1, <3>2
      <3>4. i - 1 \in 0 .. Len(ops) /\ next + (i - 1) = next + i - 1 /\ b + (Len(rb) + (i - 1)) = b + k - 1
        BY <1>0, <1>n, <3>2 DEF RobId
      <3>5. (next + (i - 1)) % RobSize = (b + (Len(rb) + (i - 1))) % RobSize
        BY <1>2, <3>4
      <3> QED
        BY <3>3, <3>4, <3>5
    <2> QED
      BY <2>1, <2>2
  <1> QED
    BY <1>3, <1>4 DEF IdsOK

(* The group takes free registers and reads the newest mappings.            *)
LEMMA RegsGrow ==
    ASSUME NEW rb \in Seq(Entry), NEW f \in [Arch -> Phy], RegsOK(rb, f),
           NEW ops \in Seq(Op), NEW rg, Grown(rb, ops, rg),
           \A k \in 1 .. Len(ops) : ops[k].rd = None <=> ops[k].phy = None,
           \A k \in 1 .. Len(ops) : ops[k].phy \notin Owned(rb, f),
           \A j, k \in 1 .. Len(ops) : ops[j].phy = ops[k].phy /\ ops[j].phy # None => j = k,
           \A k \in 1 .. Len(ops) : \A p \in ops[k].srcs : \E a \in Arch : p = Last(f, rg, a, Len(rb) + k - 1),
           \A k \in 1 .. Len(ops) : ops[k].kind = "fence" => ops[k].srcs = {}
    PROVE  RegsOK(rg, f)
  <1>a. /\ Len(rg) \in Nat /\ Len(rb) \in Nat /\ Len(ops) \in Nat
        /\ \A k \in 1 .. Len(rb) : rg[k] = rb[k]
        /\ \A k \in 1 .. Len(rg) : \/ k \in 1 .. Len(rb)
                                   \/ /\ k - Len(rb) \in 1 .. Len(ops)
                                      /\ rg[k].op = ops[k - Len(rb)]
    BY GrowAt
  <1>1. \A a, b \in Arch : f[a] = f[b] => a = b
    BY DEF RegsOK
  <1>2. \A k \in 1 .. Len(rg) : rg[k].op.rd = None <=> rg[k].op.phy = None
    BY <1>a DEF RegsOK
  <1>3. \A k \in 1 .. Len(rg) : \A a \in Arch : rg[k].op.phy # f[a]
    BY <1>a DEF RegsOK, Owned
  <1>4. ASSUME NEW j \in 1 .. Len(rg), NEW k \in 1 .. Len(rg),
               rg[j].op.phy = rg[k].op.phy, rg[j].op.phy # None
        PROVE  j = k
    <2>1. CASE j \in 1 .. Len(rb) /\ k \in 1 .. Len(rb)
      BY <1>a, <1>4, <2>1 DEF RegsOK
    <2>2. CASE j \in 1 .. Len(rb) /\ k \notin 1 .. Len(rb)
      <3>1. rg[j].op.phy \in Owned(rb, f)
        BY <1>a, <1>4, <2>2 DEF Owned
      <3>2. rg[k].op.phy \notin Owned(rb, f)
        BY <1>a, <2>2
      <3> QED
        BY <1>4, <3>1, <3>2
    <2>3. CASE j \notin 1 .. Len(rb) /\ k \in 1 .. Len(rb)
      <3>1. rg[k].op.phy \in Owned(rb, f)
        BY <1>a, <1>4, <2>3 DEF Owned
      <3>2. rg[j].op.phy \notin Owned(rb, f)
        BY <1>a, <2>3
      <3> QED
        BY <1>4, <3>1, <3>2
    <2>4. CASE j \notin 1 .. Len(rb) /\ k \notin 1 .. Len(rb)
      <3>1. PICK x \in 1 .. Len(ops) : x = j - Len(rb) /\ rg[j].op = ops[x]
        BY <1>a, <2>4
      <3>2. PICK y \in 1 .. Len(ops) : y = k - Len(rb) /\ rg[k].op = ops[y]
        BY <1>a, <2>4
      <3>3. x = y
        BY <1>4, <3>1, <3>2
      <3> QED
        BY <1>a, <3>1, <3>2, <3>3
    <2> QED
      BY <2>1, <2>2, <2>3, <2>4
  <1>5. ASSUME NEW k \in 1 .. Len(rg), NEW p \in rg[k].op.srcs
        PROVE  \E a \in Arch : p = Last(f, rg, a, k - 1)
    <2>1. CASE k \in 1 .. Len(rb)
      <3>1. PICK a \in Arch : p = Last(f, rb, a, k - 1)
        BY <1>a, <2>1 DEF RegsOK
      <3>2. PICK i \in Nat : i = k - 1
        BY <2>1
      <3>3. \A x \in 1 .. i : x \in 1 .. Len(rb)
        BY <1>a, <2>1, <3>2
      <3>4. \A x \in 1 .. i : rg[x].op.rd = rb[x].op.rd /\ rg[x].op.phy = rb[x].op.phy
        BY <1>a, <3>3
      <3>5. Last(f, rg, a, i) = Last(f, rb, a, i)
        BY ONLY <3>4, i \in Nat, LastSame
      <3> QED
        BY <3>1, <3>2, <3>5
    <2>2. CASE k \notin 1 .. Len(rb)
      <3>1. k - Len(rb) \in 1 .. Len(ops) /\ rg[k].op = ops[k - Len(rb)]
            /\ Len(rb) + (k - Len(rb)) - 1 = k - 1
        BY <1>a, <2>2
      <3>2. PICK i \in 1 .. Len(ops) : i = k - Len(rb)
        BY <3>1
      <3>3. PICK a \in Arch : p = Last(f, rg, a, Len(rb) + i - 1)
        BY <3>1, <3>2
      <3> QED
        BY <3>1, <3>2, <3>3
    <2> QED
      BY <2>1, <2>2
  <1>6. \A k \in 1 .. Len(rg) : rg[k].op.kind = "fence" => rg[k].op.srcs = {}
    <2>1. ASSUME NEW k \in 1 .. Len(rg), rg[k].op.kind = "fence" PROVE rg[k].op.srcs = {}
      <3>1. CASE k \in 1 .. Len(rb)
        <4>1. rg[k] = rb[k]
          BY <1>a, <3>1
        <4> QED
          BY <2>1, <3>1, <4>1 DEF RegsOK
      <3>2. CASE k \notin 1 .. Len(rb)
        <4>1. PICK i \in 1 .. Len(ops) : rg[k].op = ops[i]
          BY <1>a, <3>2
        <4> QED
          BY <2>1, <4>1
      <3> QED
        BY <3>1, <3>2
    <2> QED
      BY <2>1
  <1> QED
    BY <1>1, <1>2, <1>3, <1>4, <1>5, <1>6 DEF RegsOK

(* The group is unfinished.                                                 *)
LEMMA OpenGrow ==
    ASSUME NEW rb \in Seq(Entry), NEW ops \in Seq(Op), NEW rg, Grown(rb, ops, rg)
    PROVE  Open(rg) = Open(rb) \cup OpSet(ops)
  <1>a. /\ \A k \in 1 .. Len(rb) : k \in 1 .. Len(rg) /\ rg[k] = rb[k]
        /\ \A k \in 1 .. Len(ops) : \E j \in 1 .. Len(rg) : rg[j].op = ops[k] /\ rg[j].done = "no"
        /\ \A k \in 1 .. Len(rg) : \/ k \in 1 .. Len(rb)
                                   \/ \E j \in 1 .. Len(ops) : rg[k].op = ops[j]
    <2>1. /\ \A k \in 1 .. Len(rb) : k \in 1 .. Len(rg) /\ rg[k] = rb[k]
          /\ \A k \in 1 .. Len(ops) : /\ Len(rb) + k \in 1 .. Len(rg)
                                      /\ rg[Len(rb) + k].op = ops[k] /\ rg[Len(rb) + k].done = "no"
          /\ \A k \in 1 .. Len(rg) : \/ k \in 1 .. Len(rb)
                                     \/ /\ k - Len(rb) \in 1 .. Len(ops)
                                        /\ rg[k].op = ops[k - Len(rb)]
      BY ONLY rb \in Seq(Entry), ops \in Seq(Op), Grown(rb, ops, rg), GrowAt
    <2> QED
      BY <2>1, Zenon
  <1>1. ASSUME NEW o \in Open(rg) PROVE o \in Open(rb) \cup OpSet(ops)
    <2>1. PICK k \in 1 .. Len(rg) : rg[k].done = "no" /\ o = rg[k].op
      BY DEF Open
    <2> QED
      BY <1>a, <2>1 DEF Open, OpSet
  <1>2. ASSUME NEW o \in Open(rb) PROVE o \in Open(rg)
    <2>1. PICK k \in 1 .. Len(rb) : rb[k].done = "no" /\ o = rb[k].op
      BY DEF Open
    <2> QED
      BY <1>a, <2>1 DEF Open
  <1>3. ASSUME NEW o \in OpSet(ops) PROVE o \in Open(rg)
    <2>1. PICK k \in 1 .. Len(ops) : o = ops[k]
      BY DEF OpSet
    <2>2. PICK j \in 1 .. Len(rg) : rg[j].op = ops[k] /\ rg[j].done = "no"
      BY <1>a
    <2> QED
      BY <2>1, <2>2 DEF Open
  <1> QED
    BY <1>1, <1>2, <1>3

(* The new ones are none of those that are there.                           *)
LEMMA NewApart ==
    ASSUME NEW rb \in Seq(Entry), NEW ops \in Seq(Op), NEW rg, Grown(rb, ops, rg),
           Len(rg) <= RobSize, NEW next, IdsOK(rg, next)
    PROVE  \A k \in 1 .. Len(rb) : rb[k].op \notin OpSet(ops)
  <1>1. ASSUME NEW k \in 1 .. Len(rb), rb[k].op \in OpSet(ops) PROVE FALSE
    <2>1. PICK j \in 1 .. Len(ops) : rb[k].op = ops[j]
      BY <1>1 DEF OpSet
    <2>2. k \in 1 .. Len(rg) /\ rg[k] = rb[k]
      BY GrowAt
    <2>3. PICK i \in 1 .. Len(rg) : i \notin 1 .. Len(rb) /\ rg[i].op = ops[j]
      BY GrowAt
    <2>4. Len(rg) \in Nat
      BY GrowAt
    <2>5. rg[k].op = rg[i].op
      BY <2>1, <2>2, <2>3
    <2>6. k = i
      BY <2>2, <2>4, <2>5, IdsDiffer
    <2> QED
      BY <2>3, <2>6
  <1> QED
    BY <1>1

(* The group is younger than everything before it.                          *)
LEMMA PrecedesGrow ==
    ASSUME NEW rb \in Seq(Entry), NEW ops \in Seq(Op), NEW rg, Grown(rb, ops, rg)
    PROVE  /\ \A x, y : Precedes(rb, x, y) => Precedes(rg, x, y)
           /\ \A x \in Open(rb) : \A j \in 1 .. Len(ops) : Precedes(rg, x, ops[j])
           /\ \A i, j \in 1 .. Len(ops) : i < j => Precedes(rg, ops[i], ops[j])
  <1>a. /\ Len(rb) \in Nat
        /\ \A k \in 1 .. Len(rb) : k \in 1 .. Len(rg) /\ rg[k] = rb[k]
        /\ \A k \in 1 .. Len(ops) : Len(rb) + k \in 1 .. Len(rg) /\ rg[Len(rb) + k].op = ops[k]
    BY GrowAt
  <1>1. ASSUME NEW x, NEW y, Precedes(rb, x, y) PROVE Precedes(rg, x, y)
    BY <1>a, <1>1 DEF Precedes
  <1>2. ASSUME NEW x \in Open(rb), NEW j \in 1 .. Len(ops) PROVE Precedes(rg, x, ops[j])
    <2>1. PICK k \in 1 .. Len(rb) : x = rb[k].op
      BY DEF Open
    <2>2. k < Len(rb) + j
      BY <1>a
    <2> QED
      BY <1>a, <2>1, <2>2 DEF Precedes
  <1>3. ASSUME NEW i \in 1 .. Len(ops), NEW j \in 1 .. Len(ops), i < j
        PROVE  Precedes(rg, ops[i], ops[j])
    <2>1. Len(rb) + i < Len(rb) + j
      BY <1>a, <1>3
    <2> QED
      BY <1>a, <2>1 DEF Precedes
  <1> QED
    BY <1>1, <1>2, <1>3

(* The group stands at the end of the line.                                 *)
LEMMA LineGrow ==
    ASSUME NEW rb \in Seq(Entry), NEW ops \in Seq(Op), NEW rg, Grown(rb, ops, rg),
           NEW line, NEW longer, Len(line) \in Nat, Len(longer) = Len(line) + Len(ops),
           \A k \in 1 .. Len(line) : line[k] \in Open(rb), LineOK(rb, line),
           \A k \in 1 .. Len(line) : longer[k] = line[k],
           \A k \in 1 .. Len(ops) : longer[Len(line) + k] = ops[k]
    PROVE  LineOK(rg, longer)
  <1>0. Len(ops) \in Nat
    OBVIOUS
  <1>a. ASSUME NEW k \in 1 .. Len(longer), k \notin 1 .. Len(line)
        PROVE  k - Len(line) \in 1 .. Len(ops) /\ longer[k] = ops[k - Len(line)]
    <2>1. k - Len(line) \in 1 .. Len(ops) /\ Len(line) + (k - Len(line)) = k
      BY <1>0, <1>a
    <2> QED
      BY <2>1
  <1>1. ASSUME NEW i \in 1 .. Len(longer), NEW j \in 1 .. Len(longer), i < j
        PROVE  Precedes(rg, longer[i], longer[j])
    <2>1. CASE i \in 1 .. Len(line) /\ j \in 1 .. Len(line)
      <3>1. Precedes(rb, line[i], line[j])
        BY <1>1, <2>1 DEF LineOK
      <3> QED
        BY <2>1, <3>1, PrecedesGrow
    <2>2. CASE i \in 1 .. Len(line) /\ j \notin 1 .. Len(line)
      <3>1. line[i] \in Open(rb) /\ longer[i] = line[i]
        BY <2>2
      <3>2. PICK n \in 1 .. Len(ops) : longer[j] = ops[n]
        BY <1>a, <2>2
      <3> QED
        BY <3>1, <3>2, PrecedesGrow
    <2>3. CASE i \notin 1 .. Len(line)
      <3>0. j \notin 1 .. Len(line)
        BY <1>0, <1>1, <2>3
      <3>1. PICK m \in 1 .. Len(ops) : m = i - Len(line) /\ longer[i] = ops[m]
        BY <1>a, <2>3
      <3>2. PICK n \in 1 .. Len(ops) : n = j - Len(line) /\ longer[j] = ops[n]
        BY <1>a, <3>0
      <3>3. m < n
        BY <1>0, <1>1, <3>1, <3>2
      <3> QED
        <4>1. Precedes(rg, ops[m], ops[n])
          BY <3>3, PrecedesGrow
        <4> QED
          BY <3>1, <3>2, <4>1
    <2> QED
      BY <2>1, <2>2, <2>3
  <1> QED
    BY <1>1 DEF LineOK

(* The group changes nothing for the barriers and the memory operations.    *)
LEMMA OrderGrow ==
    ASSUME NEW rb \in Seq(Entry), NEW ops \in Seq(Op), NEW rg, Grown(rb, ops, rg),
           Len(rg) <= RobSize, NEW next, IdsOK(rg, next), NEW lined
    PROVE  /\ BarrierOK(rb, lined) => BarrierOK(rg, lined \cup OpSet(ops))
           /\ LsuOK(rb, lined) => LsuOK(rg, lined \cup OpSet(ops))
  <1>a. /\ Len(rb) \in Nat /\ Len(rg) \in Nat
        /\ \A k \in 1 .. Len(rb) : rg[k] = rb[k]
        /\ \A k \in 1 .. Len(rg) : k \in 1 .. Len(rb) \/ rg[k].op \in OpSet(ops)
    BY GrowAt DEF OpSet
  <1>b. \A k \in 1 .. Len(rb) : rb[k].op \notin OpSet(ops)
    BY NewApart
  <1>c. \A j, k \in 1 .. Len(rg) : j < k /\ k \in 1 .. Len(rb) => j \in 1 .. Len(rb)
    BY <1>a
  <1> QED
    BY <1>a, <1>b, <1>c DEF BarrierOK, LsuOK

(* Nothing of the group has been sent.                                      *)
LEMMA SentGrow ==
    ASSUME NEW rb \in Seq(Entry), NEW ops \in Seq(Op), NEW rg, Grown(rb, ops, rg),
           NEW lined, NEW n \in 0 .. Len(rb), NEW waiting, NEW id, NEW s
    PROVE  /\ SerialOK(rb, lined, n, waiting, id) => SerialOK(rg, lined \cup OpSet(ops), n, waiting, id)
           /\ FenceOK(rb, lined, n, s) => FenceOK(rg, lined \cup OpSet(ops), n, s)
  <1>a. /\ Len(rb) \in Nat /\ Len(rg) \in Nat
        /\ \A k \in 1 .. Len(rb) : rg[k] = rb[k]
        /\ \A k \in 1 .. Len(rg) : k \in 1 .. Len(rb) \/ rg[k].op \in OpSet(ops)
    <2>1. /\ Len(rb) \in Nat /\ Len(rg) \in Nat
          /\ \A k \in 1 .. Len(rb) : rg[k] = rb[k]
          /\ \A k \in 1 .. Len(rg) : k \in 1 .. Len(rb) \/ \E j \in 1 .. Len(ops) : rg[k].op = ops[j]
      BY GrowAt
    <2> QED
      BY <2>1 DEF OpSet
  <1>1. ASSUME SerialOK(rb, lined, n, waiting, id), NEW k \in 1 .. Len(rg),
               Serial(rg[k].op.kind), rg[k].op \notin lined \cup OpSet(ops)
        PROVE  /\ k <= n + 1
               /\ k > n => /\ waiting /\ id = rg[k].op.id
                           /\ \A j \in k + 1 .. Len(rg) : rg[j].op \in lined \cup OpSet(ops)
    <2>1. k \in 1 .. Len(rb) /\ rg[k] = rb[k]
      BY <1>a, <1>1
    <2>2. /\ k <= n + 1
          /\ k > n => /\ waiting /\ id = rb[k].op.id
                      /\ \A j \in k + 1 .. Len(rb) : rb[j].op \in lined
      BY <1>1, <2>1 DEF SerialOK
    <2>3. \A j \in k + 1 .. Len(rg) : (j \in k + 1 .. Len(rb) /\ rg[j] = rb[j]) \/ rg[j].op \in OpSet(ops)
      <3>1. ASSUME NEW j \in k + 1 .. Len(rg) PROVE (j \in k + 1 .. Len(rb) /\ rg[j] = rb[j]) \/ rg[j].op \in OpSet(ops)
        <4>1. j \in 1 .. Len(rg)
          BY <1>a
        <4>2. CASE j \in 1 .. Len(rb)
          BY <1>a, <4>2
        <4> QED
          BY <1>a, <4>1, <4>2
      <3> QED
        BY <3>1
    <2> QED
      BY <2>1, <2>2, <2>3
  <1>2. ASSUME FenceOK(rb, lined, n, s), NEW k \in 1 .. Len(rg),
               rg[k].op.kind = "fence", rg[k].op \notin lined \cup OpSet(ops)
        PROVE  /\ k <= n + 1
               /\ k > n => s = 0 /\ \A j \in 1 .. n : rg[j].op.kind # "store"
    <2>1. k \in 1 .. Len(rb) /\ rg[k] = rb[k]
      BY <1>a, <1>2
    <2>2. /\ k <= n + 1
          /\ k > n => s = 0 /\ \A j \in 1 .. n : rb[j].op.kind # "store"
      BY <1>2, <2>1 DEF FenceOK
    <2>3. \A j \in 1 .. n : rg[j] = rb[j]
      BY <1>a
    <2> QED
      BY <2>2, <2>3
  <1> QED
    BY <1>1, <1>2 DEF SerialOK, FenceOK

(* A register that belonged to someone is missing if it was missing.        *)
LEMMA MissingGrow ==
    ASSUME NEW rb \in Seq(Entry), NEW f, NEW ops \in Seq(Op), NEW rg, Grown(rb, ops, rg),
           RegsOK(rb, f), RegsOK(rg, f), NEW d,
           \A k \in 1 .. Len(ops) : ops[k].phy \notin Owned(rb, f), d \subseteq Owned(rb, f)
    PROVE  /\ Missing(rb, d) \subseteq Owned(rb, f)
           /\ Owned(rb, f) \subseteq Owned(rg, f)
           /\ Missing(rg, d) \cap Owned(rb, f) = Missing(rb, d)
           /\ \A p \in Owned(rg, f) \ Owned(rb, f) : p \in Missing(rg, d)
  <1>a. /\ \A k \in 1 .. Len(rb) : k \in 1 .. Len(rg) /\ rg[k] = rb[k]
        /\ \A k \in 1 .. Len(rg) : \/ k \in 1 .. Len(rb)
                                   \/ /\ \E j \in 1 .. Len(ops) : rg[k].op = ops[j]
                                      /\ rg[k].done = "no"
    BY GrowAt
  <1>1. ASSUME NEW p \in Missing(rb, d) PROVE p \in Owned(rb, f) /\ p \in Missing(rg, d)
    <2>1. PICK k \in 1 .. Len(rb) : /\ rb[k].op.rd # None /\ rb[k].done # "ok"
                                    /\ rb[k].op.phy \notin d /\ p = rb[k].op.phy
      BY DEF Missing
    <2>2. p # None
      BY <2>1 DEF RegsOK
    <2>3. k \in 1 .. Len(rg) /\ rg[k] = rb[k]
      BY <1>a
    <2> QED
      BY <2>1, <2>2, <2>3 DEF Missing, Owned
  <1>2. ASSUME NEW p \in Missing(rg, d), p \in Owned(rb, f) PROVE p \in Missing(rb, d)
    <2>1. PICK k \in 1 .. Len(rg) : /\ rg[k].op.rd # None /\ rg[k].done # "ok"
                                    /\ rg[k].op.phy \notin d /\ p = rg[k].op.phy
      BY DEF Missing
    <2>2. k \in 1 .. Len(rb)
      BY <1>a, <1>2, <2>1
    <2> QED
      BY <1>a, <2>1, <2>2 DEF Missing
  <1>3. Owned(rb, f) \subseteq Owned(rg, f)
    BY <1>a DEF Owned
  <1>4. ASSUME NEW p \in Owned(rg, f) \ Owned(rb, f) PROVE p \in Missing(rg, d)
    <2>1. PICK k \in 1 .. Len(rg) : p = rg[k].op.phy /\ p # None
      BY DEF Owned
    <2>2. k \notin 1 .. Len(rb)
      BY <1>a, <2>1 DEF Owned
    <2>3. rg[k].done = "no" /\ rg[k].op.rd # None
      BY <1>a, <2>1, <2>2 DEF RegsOK
    <2>4. p \notin d
      OBVIOUS
    <2> QED
      BY <2>1, <2>3, <2>4 DEF Missing
  <1> QED
    BY <1>1, <1>2, <1>3, <1>4

(* What has been delivered are targets of instructions that are still open. *)
LEMMA DeliveredIs ==
    ASSUME NEW results, NEW p
    PROVE  p \in Delivered(results) <=>
               \E r \in results : ~ r.fault /\ r.op.rd # None /\ p = r.op.phy
  BY DEF Delivered

(* A register on the feedback path belongs to an unfinished entry.          *)
LEMMA DeliveredOpen ==
    ASSUME NEW rb \in Seq(Entry), NEW f, RegsOK(rb, f), NEW results, OpsOf(results) \subseteq Open(rb)
    PROVE  /\ \A p \in Delivered(results) :
                 \E k \in 1 .. Len(rb) : /\ rb[k].done = "no" /\ rb[k].op.rd # None
                                         /\ p = rb[k].op.phy /\ p # None
                                         /\ rb[k].op \in OpsOf(results)
           /\ Delivered(results) \subseteq Phy
           /\ Delivered(results) \subseteq Owned(rb, f)
  <1>1. ASSUME NEW p \in Delivered(results)
        PROVE  \E k \in 1 .. Len(rb) : /\ rb[k].done = "no" /\ rb[k].op.rd # None
                                       /\ p = rb[k].op.phy /\ p # None
                                       /\ rb[k].op \in OpsOf(results)
    <2>1. PICK r \in results : r.op.rd # None /\ p = r.op.phy
      BY DeliveredIs
    <2>2. r.op \in OpsOf(results)
      BY DEF OpsOf
    <2>3. PICK k \in 1 .. Len(rb) : rb[k].done = "no" /\ r.op = rb[k].op
      BY <2>2 DEF Open
    <2>4. p # None
      BY <2>1, <2>3 DEF RegsOK
    <2> QED
      BY <2>1, <2>2, <2>3, <2>4
  <1>2. ASSUME NEW p \in Delivered(results) PROVE p \in Phy /\ p \in Owned(rb, f)
    <2>1. PICK k \in 1 .. Len(rb) : p = rb[k].op.phy /\ p # None
      BY <1>1
    <2>2. rb[k].op.phy \in Phy \cup {None}
      BY EntryTypes
    <2> QED
      BY <2>1, <2>2 DEF Owned
  <1> QED
    BY <1>1, <1>2

(* What two sets of results deliver.                                        *)
LEMMA DeliveredTwo ==
    ASSUME NEW ewb, NEW wbc
    PROVE  Delivered(ewb \cup wbc) = Delivered(ewb) \cup Delivered(wbc)
  BY DeliveredIs DEF Delivered

(* Two lots of results that share no instruction deliver different ones.    *)
LEMMA DeliveredApart ==
    ASSUME NEW rb \in Seq(Entry), NEW f, RegsOK(rb, f), NEW ewb, NEW wbc,
           OpsOf(ewb) \subseteq Open(rb), OpsOf(wbc) \subseteq Open(rb),
           OpsOf(ewb) \cap OpsOf(wbc) = {}
    PROVE  Delivered(ewb) \cap Delivered(wbc) = {}
  <1>1. ASSUME NEW p \in Delivered(ewb), p \in Delivered(wbc) PROVE FALSE
    <2>1. PICK j \in 1 .. Len(rb) : p = rb[j].op.phy /\ p # None /\ rb[j].op \in OpsOf(ewb)
      BY <1>1, DeliveredOpen
    <2>2. PICK k \in 1 .. Len(rb) : p = rb[k].op.phy /\ p # None /\ rb[k].op \in OpsOf(wbc)
      BY <1>1, DeliveredOpen
    <2>3. j = k
      BY <2>1, <2>2 DEF RegsOK
    <2> QED
      BY <2>1, <2>2, <2>3
  <1> QED
    BY <1>1

(* Every source is a register in use.                                       *)
LEMMA SrcsOwned ==
    ASSUME NEW rb \in Seq(Entry), NEW f \in [Arch -> Phy], RegsOK(rb, f), NEW k \in 1 .. Len(rb)
    PROVE  rb[k].op.srcs \subseteq Owned(rb, f)
  <1>1. ASSUME NEW p \in rb[k].op.srcs PROVE p \in Owned(rb, f)
    <2>1. PICK a \in Arch : p = Last(f, rb, a, k - 1)
      BY DEF RegsOK
    <2>2. k - 1 \in 0 .. Len(rb) /\ \A j \in 1 .. k - 1 : j \in 1 .. Len(rb)
      OBVIOUS
    <2>3. PICK i \in 0 .. Len(rb) : i = k - 1
      BY <2>2
    <2>4. p \in Phy /\ (p = f[a] \/ \E j \in 1 .. i : p = rb[j].op.phy)
      BY <2>1, <2>3, LastTyped
    <2> QED
      BY <2>2, <2>3, <2>4, NoneApart DEF Owned
  <1> QED
    BY <1>1

(* An instruction that is open reads registers that belong to someone.      *)
LEMMA OpenOwned ==
    ASSUME NEW rb \in Seq(Entry), NEW f \in [Arch -> Phy], RegsOK(rb, f), NEW op \in Open(rb)
    PROVE  op.srcs \subseteq Owned(rb, f)
  <1>1. PICK k \in 1 .. Len(rb) : op = rb[k].op
    BY DEF Open
  <1> QED
    BY <1>1, SrcsOwned

(* The valid bits over the end of a pass.                                   *)
BitsCase(rb, f, ops, rg, n, rx, g, ewb, wbc, dv) ==
    /\ rb \in Seq(Entry) /\ f \in [Arch -> Phy] /\ RegsOK(rb, f)
    /\ ops \in Seq(Op) /\ rg \in Seq(Entry) /\ Grown(rb, ops, rg) /\ RegsOK(rg, f)
    /\ \A k \in 1 .. Len(ops) : ops[k].phy \notin Owned(rb, f)
    /\ n \in 0 .. Len(rb) /\ Dropped(rg, n, rx)
    /\ \A a \in Arch : g[a] = Last(f, rb, a, n)
    /\ OpsOf(ewb) \subseteq Open(rb) /\ OpsOf(wbc) \subseteq Open(rb)
    /\ OpsOf(ewb) \cap OpsOf(wbc) = {}
    /\ dv = Owned(rb, f) \ (Missing(rb, Delivered(ewb \cup wbc)) \cup Delivered(ewb \cup wbc))
Freed(rb, f, n, g) ==
    ({f[a] : a \in Arch} \cup {rb[k].op.phy : k \in 1 .. n}) \ {g[a] : a \in Arch}
BitsAre(rb, f, n, rx, g, ewb, wbc, dv) ==
    (dv \ Freed(rb, f, n, g)) \cup Delivered(wbc)
      = Owned(rx, g) \ (Missing(rx, Delivered(ewb \cup wbc)) \cup Delivered(ewb))

(* The valid bits after a front step: the new targets cleared, the released *)
(* registers gone, the results of wb written.                               *)
LEMMA BitsPass ==
    ASSUME NEW rb, NEW f, NEW ops, NEW rg, NEW n, NEW rx, NEW g, NEW ewb, NEW wbc, NEW dv,
           BitsCase(rb, f, ops, rg, n, rx, g, ewb, wbc, dv)
    PROVE  BitsAre(rb, f, n, rx, g, ewb, wbc, dv)
  <1> USE DEF BitsCase, BitsAre, Freed
  <1> DEFINE d == Delivered(ewb \cup wbc)
             W == Delivered(wbc)
             E == Delivered(ewb)
             R == ({f[a] : a \in Arch} \cup {rb[k].op.phy : k \in 1 .. n}) \ {g[a] : a \in Arch}
             M == Missing(rb, d)
             N == Missing(rg, d)
             O == Owned(rb, f)
             P == Owned(rg, f)
  <1>a. /\ Len(rb) \in Nat /\ n \in Nat
        /\ \A k \in 1 .. Len(rb) : k \in 1 .. Len(rg) /\ rg[k] = rb[k]
        /\ \A k \in 1 .. n : k \in 1 .. Len(rb)
    BY GrowAt
  <1>1. d = E \cup W /\ E \cap W = {} /\ d \subseteq O /\ W \subseteq O
    <2>1. d = E \cup W
      BY DeliveredTwo
    <2>2. E \cap W = {}
      BY DeliveredApart
    <2>3. E \subseteq O
      BY DeliveredOpen
    <2>4. W \subseteq O
      BY DeliveredOpen
    <2> QED
      BY <2>1, <2>2, <2>3, <2>4
  <1>2. M \subseteq O /\ O \subseteq P /\ N \cap O = M /\ \A p \in P \ O : p \in N
    <2>1. d \subseteq O
      BY <1>1
    <2> HIDE DEF d
    <2>2. M \subseteq O
      BY <2>1, MissingGrow
    <2>3. O \subseteq P
      BY <1>a DEF Owned
    <2>4. N \cap O = M
      BY <2>1, MissingGrow
    <2>5. \A p \in P \ O : p \in N
      BY <2>1, MissingGrow
    <2> QED
      BY <2>2, <2>3, <2>4, <2>5
  <1>3. \A a \in Arch : Last(f, rg, a, n) = Last(f, rb, a, n)
    <2>1. \A k \in 1 .. n : rg[k].op.rd = rb[k].op.rd /\ rg[k].op.phy = rb[k].op.phy
      BY <1>a
    <2> QED
      BY <1>a, <2>1, LastSame
  <1>4. Owned(rx, g) = P \ R
    <2>1. \A a \in Arch : g[a] = Last(f, rg, a, n)
      BY <1>3
    <2>2. Owned(rx, g) = P \ (({f[a] : a \in Arch} \cup {rg[k].op.phy : k \in 1 .. n}) \ {g[a] : a \in Arch})
      <3>1. rg \in Seq(Entry) /\ f \in [Arch -> Phy] /\ RegsOK(rg, f) /\ Dropped(rg, n, rx)
        OBVIOUS
      <3> QED
        BY ONLY <2>1, <3>1, OwnedDrop DEF P
    <2>3. {rg[k].op.phy : k \in 1 .. n} = {rb[k].op.phy : k \in 1 .. n}
      BY <1>a
    <2> QED
      BY <2>2, <2>3
  <1>5. Missing(rx, d) = N
    BY MissingDrop
  <1>6. \A p \in M : p \notin d
    <2>1. ASSUME NEW p \in M PROVE p \notin d
      <3>1. PICK k \in 1 .. Len(rb) : rb[k].op.phy \notin d /\ p = rb[k].op.phy
        BY DEF Missing
      <3> QED
        BY <3>1
    <2> QED
      BY <2>1
  <1>7. ASSUME NEW p \in W PROVE p \notin R
    <2>1. PICK k \in 1 .. Len(rb) : rb[k].done = "no" /\ p = rb[k].op.phy /\ p # None
      BY DeliveredOpen
    <2>2. \A j \in 1 .. n : rb[j].done = "ok"
      BY <1>a DEF Dropped
    <2>3. \A j \in 1 .. n : j # k
      BY <2>1, <2>2
    <2>4. \A j \in 1 .. n : p # rb[j].op.phy
      BY <1>a, <2>1, <2>3 DEF RegsOK
    <2>5. \A a \in Arch : p # f[a]
      BY <2>1 DEF RegsOK
    <2> QED
      BY <2>4, <2>5
  <1>8. dv = O \ (M \cup d)
    OBVIOUS
  <1> HIDE DEF d, W, E, R, M, N, O, P
  <1>9. (dv \ R) \cup W = (P \ R) \ (N \cup E)
    BY <1>1, <1>2, <1>6, <1>7, <1>8
  <1> QED
    BY <1>4, <1>5, <1>9 DEF d, W, E, R

(* The ROB with a group behind it, before anything retires.                 *)
RobWith(ops) ==
    [k \in 1 .. Len(rob) + Len(ops) |->
        IF k <= Len(rob) THEN rob[k] ELSE [op |-> ops[k - Len(rob)], done |-> "no"]]

(* What the instructions of a group must satisfy.                           *)
GroupOK(ops) ==
    /\ ops \in Seq(Op) /\ Len(rob) + Len(ops) <= RobSize
    /\ \A k \in 1 .. Len(ops) : ops[k].id = (new_id + k - 1) % RobSize
    /\ \A k \in 1 .. Len(ops) : ops[k].rd = None <=> ops[k].phy = None
    /\ \A k \in 1 .. Len(ops) : ops[k].phy \notin Owned(rob, arf)
    /\ \A j, k \in 1 .. Len(ops) : ops[j].phy = ops[k].phy /\ ops[j].phy # None => j = k
    /\ \A k \in 1 .. Len(ops) : \A p \in ops[k].srcs :
          \E a \in Arch : p = Last(arf, RobWith(ops), a, Len(rob) + k - 1)
    /\ \A k \in 1 .. Len(ops) : ops[k].kind = "fence" => ops[k].srcs = {}

(* rob.push of a group.                                                     *)
LEMMA WithIs ==
    ASSUME TypeInv, NEW ops \in Seq(Op), Len(rob) + Len(ops) <= RobSize
    PROVE  /\ RobWith(ops) \in Seq(Entry) /\ Grown(rob, ops, RobWith(ops))
           /\ Len(RobWith(ops)) <= RobSize
  <1>0. rob \in Seq(Entry) /\ Len(rob) \in Nat /\ Len(ops) \in Nat
    BY DEF TypeInv
  <1> DEFINE rg == RobWith(ops)
  <1>1. rg = [k \in 1 .. Len(rob) + Len(ops) |->
                IF k <= Len(rob) THEN rob[k] ELSE [op |-> ops[k - Len(rob)], done |-> "no"]]
    BY DEF RobWith
  <1> HIDE DEF rg
  <1>2. ASSUME NEW k \in 1 .. Len(rob) + Len(ops) PROVE rg[k] \in Entry
    <2>1. CASE k <= Len(rob)
      <3>1. k \in 1 .. Len(rob) /\ rg[k] = rob[k]
        BY <1>0, <1>1, <2>1
      <3> QED
        BY <1>0, <3>1, EntryTypes
    <2>2. CASE ~ (k <= Len(rob))
      <3>1. k - Len(rob) \in 1 .. Len(ops) /\ rg[k] = [op |-> ops[k - Len(rob)], done |-> "no"]
        BY <1>0, <1>1, <2>2
      <3>2. ops[k - Len(rob)] \in Op
        BY <3>1
      <3> QED
        BY <3>1, <3>2 DEF Entry
    <2> QED
      BY <2>1, <2>2
  <1>3. DOMAIN rg = 1 .. Len(rob) + Len(ops) /\ Len(rob) + Len(ops) \in Nat
    BY <1>0, <1>1
  <1>4. rg \in [1 .. Len(rob) + Len(ops) -> Entry]
    BY <1>1, <1>2
  <1>5. rg \in Seq(Entry) /\ Len(rg) = Len(rob) + Len(ops)
    BY <1>3, <1>4
  <1>6. \A k \in 1 .. Len(rob) : rg[k] = rob[k]
    BY <1>0, <1>1
  <1>7. ASSUME NEW k \in 1 .. Len(ops) PROVE rg[Len(rob) + k] = [op |-> ops[k], done |-> "no"]
    <2>1. Len(rob) + k \in 1 .. Len(rob) + Len(ops) /\ ~ (Len(rob) + k <= Len(rob)) /\ (Len(rob) + k) - Len(rob) = k
      BY <1>0
    <2> QED
      BY <1>1, <2>1
  <1> QED
    BY <1>5, <1>6, <1>7 DEF Grown, rg

(* The ROB after the pass is that one without the first n.                  *)
LEMMA PassDrops ==
    ASSUME TypeInv, NEW ops \in Seq(Op), Len(rob) + Len(ops) <= RobSize,
           NEW n \in 0 .. Len(rob), \A k \in 1 .. n : rob[k].done = "ok", SyncPass(n, ops)
    PROVE  Dropped(RobWith(ops), n, rob') /\ rob' \in Seq(Entry) /\ Len(rob') <= RobSize
  <1>0. rob \in Seq(Entry) /\ Len(rob) \in Nat /\ Len(ops) \in Nat /\ n \in Nat /\ Len(rob) <= RobSize
        /\ RobSize \in Nat
    <2>1. rob \in Seq(Entry) /\ Len(rob) <= RobSize
      BY DEF TypeInv
    <2>2. Len(rob) \in Nat /\ Len(ops) \in Nat
      BY <2>1
    <2> QED
      BY <2>1, <2>2, IssueSizesAssumption
  <1> DEFINE s == SubSeq(rob, n + 1, Len(rob))
             t == [k \in 1 .. Len(ops) |-> [op |-> ops[k], done |-> "no"]]
             rg == RobWith(ops)
  <1>1. rob' = s \o t
    BY DEF SyncPass
  <1>2. s \in Seq(Entry) /\ Len(s) = Len(rob) - n /\ \A k \in 1 .. Len(rob) - n : s[k] = rob[n + k]
    BY <1>0
  <1>3. \A k \in 1 .. Len(ops) : [op |-> ops[k], done |-> "no"] \in Entry
    BY DEF Entry
  <1>4. t \in Seq(Entry) /\ Len(t) = Len(ops) /\ \A k \in 1 .. Len(ops) : t[k] = [op |-> ops[k], done |-> "no"]
    <2>1. t \in [1 .. Len(ops) -> Entry]
      BY <1>3
    <2> QED
      BY <1>0, <2>1
  <1> HIDE DEF s, t
  <1>5. rob' \in Seq(Entry) /\ Len(rob') = (Len(rob) - n) + Len(ops)
    <2>1. s \o t \in Seq(Entry) /\ Len(s \o t) = Len(s) + Len(t)
      BY <1>2, <1>4, ConcatProperties
    <2> QED
      BY <1>1, <1>2, <1>4, <2>1
  <1>6. \A k \in 1 .. Len(rob') : rob'[k] = IF k <= Len(s) THEN s[k] ELSE t[k - Len(s)]
    BY <1>1, <1>2, <1>4
  <1>7. /\ Len(rg) = Len(rob) + Len(ops) /\ \A k \in 1 .. Len(rob) : rg[k] = rob[k]
        /\ \A k \in 1 .. Len(ops) : rg[Len(rob) + k] = [op |-> ops[k], done |-> "no"]
    BY WithIs DEF Grown
  <1> HIDE DEF rg
  <1>8. ASSUME NEW k \in 1 .. Len(rob') PROVE rob'[k] = rg[n + k]
    <2>1. CASE k <= Len(rob) - n
      <3>1. k \in 1 .. Len(rob) - n /\ n + k \in 1 .. Len(rob) /\ k <= Len(s)
        BY <1>0, <1>2, <2>1
      <3> QED
        BY <1>2, <1>6, <1>7, <3>1
    <2>2. CASE ~ (k <= Len(rob) - n)
      <3>0. k - (Len(rob) - n) \in 1 .. Len(ops)
        BY <1>0, <1>5, <2>2
      <3>1. PICK j \in 1 .. Len(ops) : j = k - (Len(rob) - n)
        BY <3>0
      <3>2. ~ (k <= Len(s)) /\ k - Len(s) = j /\ n + k = Len(rob) + j
        BY <1>0, <1>2, <2>2, <3>1
      <3> QED
        <4>1. rob'[k] = t[j]
          BY <1>6, <3>2
        <4>2. t[j] = [op |-> ops[j], done |-> "no"] /\ rg[Len(rob) + j] = [op |-> ops[j], done |-> "no"]
          BY <1>4, <1>7
        <4> QED
          BY <3>2, <4>1, <4>2
    <2> QED
      BY <2>1, <2>2
  <1>9. /\ n \in 0 .. Len(rg) /\ Len(rob') = Len(rg) - n /\ Len(rob') <= RobSize
        /\ \A k \in 1 .. n : rg[k].done = "ok"
    <2>1. n \in 0 .. Len(rg) /\ Len(rob') = Len(rg) - n /\ Len(rob') <= RobSize
      <3>1. Len(rg) = Len(rob) + Len(ops)
        BY <1>7
      <3> QED
        BY <1>0, <1>5, <3>1
    <2>2. ASSUME NEW k \in 1 .. n PROVE rg[k].done = "ok"
      <3>1. k \in 1 .. Len(rob)
        BY <1>0
      <3> QED
        BY <1>7, <3>1
    <2> QED
      BY <2>1, <2>2
  <1> QED
    BY <1>5, <1>8, <1>9 DEF Dropped, rg

(* The numbers of the port and the queue.                                   *)
LEMMA PortFromIs ==
    ASSUME TypeInv
    PROVE  /\ FirstInput \in 0 .. Len(readreg_issue) /\ PortFrom \in 0 .. Len(readreg_issue)
           /\ Len(readreg_issue) \in Nat /\ Len(issue_q) \in Nat /\ Len(rename_readreg) \in Nat
  <1>1. /\ readreg_issue \in Seq(Item) /\ issue_q \in Seq(Item) /\ rename_readreg \in Seq(Op)
        /\ busy \in BOOLEAN /\ last_index \in Nat /\ (busy => last_index <= Len(readreg_issue))
    BY DEF TypeInv
  <1>2. Len(readreg_issue) \in Nat /\ Len(issue_q) \in Nat /\ Len(rename_readreg) \in Nat
    BY <1>1
  <1>3. FirstInput \in 0 .. Len(readreg_issue)
    BY <1>1, <1>2 DEF FirstInput
  <1> QED
    BY <1>2, <1>3 DEF PortFrom

(* The line, by position.                                                   *)
LineShape(q, port, from, ren, line) ==
    /\ Len(line) = Len(q) + (Len(port) - from) + Len(ren)
    /\ \A k \in 1 .. Len(q) : line[k] = q[k].op
    /\ \A k \in 1 .. Len(port) - from : line[Len(q) + k] = port[from + k].op
    /\ \A k \in 1 .. Len(ren) : line[Len(q) + (Len(port) - from) + k] = ren[k]

(* The line, position by position.                                          *)
LEMMA InLineIs ==
    ASSUME NEW q, NEW port, NEW from, NEW ren, Len(q) \in Nat, Len(port) \in Nat,
           from \in 0 .. Len(port), Len(ren) \in Nat
    PROVE  LineShape(q, port, from, ren, InLine(q, port, from, ren))
  <1>1. PICK a \in Nat : a = Len(q)
    OBVIOUS
  <1>2. PICK b \in Nat : b = Len(port) - from
    OBVIOUS
  <1>3. PICK c \in Nat : c = Len(ren)
    OBVIOUS
  <1> DEFINE line == InLine(q, port, from, ren)
  <1>4. line = [k \in 1 .. a + b + c |-> IF k <= a THEN q[k].op
                                     ELSE IF k <= a + b THEN port[from + k - a].op ELSE ren[k - a - b]]
    BY <1>1, <1>2, <1>3 DEF InLine
  <1> HIDE DEF line
  <1>5. Len(line) = a + b + c
    BY <1>4
  <1>6. \A k \in 1 .. a : line[k] = q[k].op
    BY <1>4
  <1>7. ASSUME NEW k \in 1 .. b PROVE line[a + k] = port[from + k].op
    <2>1. a + k \in 1 .. a + b + c /\ ~ (a + k <= a) /\ a + k <= a + b /\ from + (a + k) - a = from + k
      OBVIOUS
    <2> QED
      BY <1>4, <2>1
  <1>8. ASSUME NEW k \in 1 .. c PROVE line[a + b + k] = ren[k]
    <2>1. /\ a + b + k \in 1 .. a + b + c /\ ~ (a + b + k <= a) /\ ~ (a + b + k <= a + b)
          /\ (a + b + k) - a - b = k
      OBVIOUS
    <2> QED
      BY <1>4, <2>1
  <1>9. Len(q) = a /\ Len(port) - from = b /\ Len(ren) = c
    BY <1>1, <1>2, <1>3
  <1> QED
    BY <1>5, <1>6, <1>7, <1>8, <1>9 DEF line, LineShape

(* The same for the state.                                                  *)
LEMMA LineIs ==
    ASSUME TypeInv
    PROVE  /\ Len(Line) = Len(issue_q) + (Len(readreg_issue) - PortFrom) + Len(rename_readreg)
           /\ Len(Line) \in Nat
           /\ \A k \in 1 .. Len(issue_q) : Line[k] = issue_q[k].op
           /\ \A k \in 1 .. Len(readreg_issue) - PortFrom :
                 Line[Len(issue_q) + k] = readreg_issue[PortFrom + k].op
           /\ \A k \in 1 .. Len(rename_readreg) :
                 Line[Len(issue_q) + (Len(readreg_issue) - PortFrom) + k] = rename_readreg[k]
  <1>1. /\ PortFrom \in 0 .. Len(readreg_issue) /\ Len(readreg_issue) \in Nat
        /\ Len(issue_q) \in Nat /\ Len(rename_readreg) \in Nat
    BY PortFromIs
  <1>2. LineShape(issue_q, readreg_issue, PortFrom, rename_readreg, Line)
    BY <1>1, InLineIs DEF Line
  <1>3. Len(Line) \in Nat
    BY <1>1, <1>2 DEF LineShape
  <1> QED
    BY <1>2, <1>3 DEF LineShape

(* What is in line.                                                         *)
LEMMA LinedHas ==
    ASSUME TypeInv
    PROVE  /\ \A k \in 1 .. Len(issue_q) : issue_q[k].op \in Lined
           /\ \A k \in PortFrom + 1 .. Len(readreg_issue) : readreg_issue[k].op \in Lined
           /\ \A k \in 1 .. Len(rename_readreg) : rename_readreg[k] \in Lined
  <1>1. /\ PortFrom \in 0 .. Len(readreg_issue) /\ Len(readreg_issue) \in Nat
        /\ Len(issue_q) \in Nat /\ Len(rename_readreg) \in Nat
    BY PortFromIs
  <1>a. /\ Len(Line) = Len(issue_q) + (Len(readreg_issue) - PortFrom) + Len(rename_readreg)
        /\ \A k \in 1 .. Len(issue_q) : Line[k] = issue_q[k].op
        /\ \A k \in 1 .. Len(readreg_issue) - PortFrom :
              Line[Len(issue_q) + k] = readreg_issue[PortFrom + k].op
        /\ \A k \in 1 .. Len(rename_readreg) :
              Line[Len(issue_q) + (Len(readreg_issue) - PortFrom) + k] = rename_readreg[k]
    BY LineIs
  <1>2. ASSUME NEW k \in 1 .. Len(issue_q) PROVE issue_q[k].op \in Lined
    <2>1. k \in 1 .. Len(Line) /\ Line[k] = issue_q[k].op
      BY <1>1, <1>a
    <2> QED
      BY <2>1 DEF Lined
  <1>3. ASSUME NEW k \in PortFrom + 1 .. Len(readreg_issue) PROVE readreg_issue[k].op \in Lined
    <2>1. PICK j \in 1 .. Len(readreg_issue) - PortFrom : k = PortFrom + j
      <3>1. k - PortFrom \in 1 .. Len(readreg_issue) - PortFrom /\ k = PortFrom + (k - PortFrom)
        BY <1>1
      <3> QED
        BY <3>1
    <2>2. Len(issue_q) + j \in 1 .. Len(Line)
      BY <1>1, <1>a
    <2>3. Line[Len(issue_q) + j] = readreg_issue[k].op
      BY <2>1, <1>a
    <2> QED
      BY <2>2, <2>3 DEF Lined
  <1>4. ASSUME NEW k \in 1 .. Len(rename_readreg) PROVE rename_readreg[k] \in Lined
    <2>1. Len(issue_q) + (Len(readreg_issue) - PortFrom) + k \in 1 .. Len(Line)
      BY <1>1, <1>a
    <2>2. Line[Len(issue_q) + (Len(readreg_issue) - PortFrom) + k] = rename_readreg[k]
      BY <1>a
    <2> QED
      BY <2>1, <2>2 DEF Lined
  <1> QED
    BY <1>2, <1>3, <1>4

(* line2 is line with the instructions ops behind it.                       *)
Longer(line, ops, line2) ==
    /\ Len(line) \in Nat /\ Len(line2) = Len(line) + Len(ops)
    /\ \A k \in 1 .. Len(line) : line2[k] = line[k]
    /\ \A k \in 1 .. Len(ops) : line2[Len(line) + k] = ops[k]

(* The instructions of a longer line.                                       *)
LEMMA LongerSet ==
    ASSUME NEW line, NEW ops, Len(ops) \in Nat, NEW line2, Longer(line, ops, line2)
    PROVE  {line2[k] : k \in 1 .. Len(line2)} = {line[k] : k \in 1 .. Len(line)} \cup OpSet(ops)
  <1>a. /\ Len(line) \in Nat /\ Len(line2) = Len(line) + Len(ops)
        /\ \A k \in 1 .. Len(line) : line2[k] = line[k]
        /\ \A k \in 1 .. Len(ops) : line2[Len(line) + k] = ops[k]
    BY DEF Longer
  <1>1. ASSUME NEW k \in 1 .. Len(line2)
        PROVE  line2[k] \in {line[i] : i \in 1 .. Len(line)} \cup OpSet(ops)
    <2>1. CASE k \in 1 .. Len(line)
      BY <1>a, <2>1
    <2>2. CASE k \notin 1 .. Len(line)
      <3>1. k - Len(line) \in 1 .. Len(ops) /\ Len(line) + (k - Len(line)) = k
        BY <1>a, <2>2
      <3>2. line2[k] = ops[k - Len(line)]
        BY <1>a, <3>1
      <3> QED
        BY <3>1, <3>2 DEF OpSet
    <2> QED
      BY <2>1, <2>2
  <1>2. ASSUME NEW k \in 1 .. Len(line) PROVE line[k] \in {line2[i] : i \in 1 .. Len(line2)}
    <2>1. k \in 1 .. Len(line2)
      BY <1>a
    <2> QED
      BY <1>a, <2>1
  <1>3. ASSUME NEW k \in 1 .. Len(ops) PROVE ops[k] \in {line2[i] : i \in 1 .. Len(line2)}
    <2>1. Len(line) + k \in 1 .. Len(line2)
      BY <1>a
    <2> QED
      BY <1>a, <2>1
  <1> QED
    BY <1>1, <1>2, <1>3 DEF OpSet

(* SlotOps and Issued depend on the units and on held only.                 *)
LEMMA SlotsKept ==
    ASSUME UNCHANGED <<units, held>>
    PROVE  (\A u : SlotOps(u)' = SlotOps(u)) /\ Issued' = Issued
  BY DEF SlotOps, Issued

(* The registers without a value, by the ROB.                               *)
LEMMA UndeliveredIs ==
    Undelivered = Missing(rob, Delivered(execute_wb \cup wb_commit))
  BY DEF Undelivered, Missing

(* The instructions with a result that is not in the ROB yet.               *)
LEMMA ExecutedIs ==
    Executed = OpsOf(execute_wb) \cup OpsOf(wb_commit)
  BY DEF Executed, OpsOf

(* The end of a pass with the group ops.                                    *)
PassStep(ops) ==
    /\ IssueInv /\ step = "front" /\ GroupOK(ops) /\ SyncPass(feedback.retire, ops)
    /\ UNCHANGED <<issueVars, held, execute_wb, wb_commit>>
    /\ Longer(Line, ops, Line')

(* What a front step starts from.                                           *)
LEMMA PassFacts ==
    ASSUME NEW ops, PassStep(ops)
    PROVE  /\ ops \in Seq(Op) /\ rob \in Seq(Entry) /\ Len(rob) \in Nat /\ arf \in [Arch -> Phy]
           /\ RobWith(ops) \in Seq(Entry) /\ Grown(rob, ops, RobWith(ops)) /\ Len(RobWith(ops)) <= RobSize
           /\ feedback.retire \in 0 .. Len(rob) /\ Len(rob) <= RobSize
           /\ Dropped(RobWith(ops), feedback.retire, rob') /\ rob' \in Seq(Entry) /\ Len(rob') <= RobSize
           /\ IdsOK(RobWith(ops), new_id') /\ IdsOK(rob, new_id)
           /\ RegsOK(rob, arf) /\ RegsOK(RobWith(ops), arf)
           /\ arf' = [a \in Arch |-> Last(arf, rob, a, feedback.retire)]
           /\ \A a \in Arch : Last(arf, rob, a, feedback.retire) = Last(arf, RobWith(ops), a, feedback.retire)
  <1>1. /\ ops \in Seq(Op) /\ rob \in Seq(Entry) /\ Len(rob) \in Nat /\ arf \in [Arch -> Phy]
        /\ TypeInv /\ Len(rob) + Len(ops) <= RobSize /\ Len(rob) <= RobSize
        /\ RegsOK(rob, arf) /\ IdsOK(rob, new_id)
    BY DEF PassStep, IssueInv, TypeInv, GroupOK, RegsInv, IdsInv
  <1>2. RobWith(ops) \in Seq(Entry) /\ Grown(rob, ops, RobWith(ops)) /\ Len(RobWith(ops)) <= RobSize
    BY <1>1, WithIs
  <1>3. feedback.retire \in 0 .. Len(rob) /\ \A k \in 1 .. feedback.retire : rob[k].done = "ok"
    <2>1. feedback.retire \in Nat /\ feedback.retire <= Len(rob)
      BY DEF PassStep, IssueInv, TypeInv, PassInv
    <2> QED
      BY <1>1, <2>1 DEF PassStep, IssueInv, PassInv
  <1>4. SyncPass(feedback.retire, ops)
    BY DEF PassStep
  <1>5. Dropped(RobWith(ops), feedback.retire, rob') /\ rob' \in Seq(Entry) /\ Len(rob') <= RobSize
    BY <1>1, <1>3, <1>4, PassDrops
  <1>6. IdsOK(RobWith(ops), new_id')
    <2>1. new_id' = (new_id + Len(ops)) % RobSize
      BY <1>4 DEF SyncPass
    <2>2. \A k \in 1 .. Len(ops) : ops[k].id = (new_id + k - 1) % RobSize
      BY DEF PassStep, GroupOK
    <2>3. IdsOK(RobWith(ops), (new_id + Len(ops)) % RobSize)
      BY <1>1, <1>2, <2>2, IdsGrow
    <2> QED
      BY <2>1, <2>3
  <1>7. RegsOK(RobWith(ops), arf)
    <2>1. /\ \A k \in 1 .. Len(ops) : ops[k].rd = None <=> ops[k].phy = None
          /\ \A k \in 1 .. Len(ops) : ops[k].phy \notin Owned(rob, arf)
          /\ \A j, k \in 1 .. Len(ops) : ops[j].phy = ops[k].phy /\ ops[j].phy # None => j = k
          /\ \A k \in 1 .. Len(ops) : \A p \in ops[k].srcs :
                \E a \in Arch : p = Last(arf, RobWith(ops), a, Len(rob) + k - 1)
          /\ \A k \in 1 .. Len(ops) : ops[k].kind = "fence" => ops[k].srcs = {}
      BY DEF PassStep, GroupOK
    <2> QED
      BY <1>1, <1>2, <2>1, RegsGrow
  <1>8. arf' = [a \in Arch |-> Last(arf, rob, a, feedback.retire)]
    <2>1. feedback.retire \in Nat
      BY <1>3
    <2>2. \A a \in Arch : MapAfter(RobOps(feedback.retire), a) = Last(arf, rob, a, feedback.retire)
      BY <2>1, MapIsLast
    <2>3. arf' = [a \in Arch |-> MapAfter(RobOps(feedback.retire), a)]
      BY <1>4 DEF SyncPass, ArfAfter
    <2> QED
      BY <2>2, <2>3
  <1>9. \A a \in Arch : Last(arf, rob, a, feedback.retire) = Last(arf, RobWith(ops), a, feedback.retire)
    <2>1. \A k \in 1 .. feedback.retire : k \in 1 .. Len(rob)
      BY <1>1, <1>3
    <2>2. \A k \in 1 .. feedback.retire : RobWith(ops)[k].op = rob[k].op
      BY <1>2, <2>1 DEF Grown
    <2>3. feedback.retire \in Nat
      BY <1>3
    <2> QED
      BY <2>2, <2>3, LastSame
  <1> QED
    BY <1>1, <1>2, <1>3, <1>5, <1>6, <1>7, <1>8, <1>9

(* A front step keeps ids, registers and the course of the pass.            *)
LEMMA PassIdsRegs ==
    ASSUME NEW ops, PassStep(ops)
    PROVE  IdsInv' /\ RegsInv' /\ PassInv' /\ arf' \in [Arch -> Phy]
  <1>1. IdsInv'
    <2>1. IdsOK(rob', new_id')
      BY PassFacts, IdsDrop
    <2> QED
      BY <2>1 DEF IdsInv, IdsOK
  <1>2. arf' \in [Arch -> Phy]
    <2>1. \A a \in Arch : Last(arf, rob, a, feedback.retire) \in Phy
      BY PassFacts, LastTyped
    <2> QED
      BY <2>1, PassFacts
  <1>3. RegsInv'
    <2>1. \A a \in Arch : arf'[a] = Last(arf, RobWith(ops), a, feedback.retire)
      BY PassFacts
    <2>2. RegsOK(rob', arf')
      BY <2>1, PassFacts, RegsDrop
    <2> QED
      BY <2>2 DEF RegsInv, RegsOK, Last
  <1>4. PassInv'
    <2>1. /\ step' = "back" /\ execute_feedback' = {} /\ wb_feedback' = {}
          /\ feedback' = [retire |-> 0, next_handle_rob_id |-> 0]
      BY DEF PassStep, SyncPass
    <2>2. feedback'.retire = 0 /\ 1 .. 0 = {} /\ Len(rob') \in Nat
      BY <2>1, PassFacts
    <2> QED
      BY <2>1, <2>2 DEF PassInv
  <1> QED
    BY <1>1, <1>2, <1>3, <1>4

(* It adds the renamed group to the line and moves nothing else.            *)
LEMMA PassPlaces ==
    ASSUME NEW ops, PassStep(ops)
    PROVE  PlaceInv' /\ SlotInv' /\ Lined' = Lined \cup OpSet(ops)
  <1> DEFINE rg == RobWith(ops)
  <1>0. Longer(Line, ops, Line') /\ Len(ops) \in Nat
    BY PassFacts DEF PassStep
  <1>1. Lined' = Lined \cup OpSet(ops)
    <2>1. {Line'[k] : k \in 1 .. Len(Line')} = {Line[k] : k \in 1 .. Len(Line)} \cup OpSet(ops)
      BY ONLY <1>0, LongerSet
    <2> QED
      BY <2>1 DEF Lined
  <1>2. /\ Open(rob') = Open(rob) \cup OpSet(ops)
        /\ \A k \in 1 .. Len(rob) : rob[k].op \notin OpSet(ops)
    <2>1. Open(rob') = Open(rg)
      BY PassFacts, OpenDrop
    <2>2. Open(rg) = Open(rob) \cup OpSet(ops)
      BY PassFacts, OpenGrow
    <2>3. \A k \in 1 .. Len(rob) : rob[k].op \notin OpSet(ops)
      BY PassFacts, NewApart
    <2> QED
      BY <2>1, <2>2, <2>3
  <1>3. Open(rob) \cap OpSet(ops) = {}
    BY <1>2 DEF Open
  <1>4. LineOK(rob, Line) /\ PlaceOK(rob, Lined, Issued, execute_wb, wb_commit)
    BY DEF PassStep, IssueInv, PlaceInv
  <1>5. Lined \subseteq Open(rob) /\ Issued \subseteq Open(rob)
    BY <1>4 DEF PlaceOK
  <1>6. Issued' = Issued /\ execute_wb' = execute_wb /\ wb_commit' = wb_commit
        /\ held' = held /\ \A u : SlotOps(u)' = SlotOps(u)
    BY SlotsKept DEF PassStep, issueVars
  <1>7. PlaceOK(rob', Lined', Issued', execute_wb', wb_commit')
    BY <1>1, <1>2, <1>3, <1>4, <1>6 DEF PlaceOK
  <1>8. LineOK(rob', Line')
    <2>1. \A k \in 1 .. Len(Line) : Line[k] \in Open(rob)
      BY <1>5 DEF Lined
    <2>2. LineOK(rg, Line')
      <3>1. /\ Len(Line) \in Nat /\ Len(Line') = Len(Line) + Len(ops)
            /\ \A k \in 1 .. Len(Line) : Line'[k] = Line[k]
            /\ \A k \in 1 .. Len(ops) : Line'[Len(Line) + k] = ops[k]
        BY <1>0 DEF Longer
      <3>2. rob \in Seq(Entry) /\ ops \in Seq(Op) /\ Grown(rob, ops, rg)
        BY PassFacts
      <3> HIDE DEF rg
      <3> QED
        BY ONLY <1>4, <2>1, <3>1, <3>2, LineGrow
    <2>3. Open(rg) = Open(rob')
      BY PassFacts, OpenDrop
    <2>4. \A k \in 1 .. Len(Line') : Line'[k] \in Open(rg)
      BY <1>1, <1>2, <1>5, <2>3 DEF Lined
    <2> QED
      BY <2>2, <2>4, PassFacts, LineDrop
  <1>9. ASSUME held # None, NEW o \in SlotOps("lsu") PROVE Precedes(rob', held, o)
    <2>1. Precedes(rob, held, o)
      BY <1>9 DEF PassStep, IssueInv, SlotInv
    <2>2. Precedes(rg, held, o)
      BY <2>1, PassFacts, PrecedesGrow
    <2>3. held \in Open(rg)
      <3>1. held \in Issued
        BY <1>9 DEF Issued
      <3>2. Open(rg) = Open(rob) \cup OpSet(ops)
        BY PassFacts, OpenGrow
      <3> QED
        BY <1>5, <3>1, <3>2
    <2> QED
      BY <2>2, <2>3, PassFacts, PrecedesDrop
  <1>10. /\ \A u \in Unit : \A o \in SlotOps(u) : op_unit(o.kind) = u
         /\ held # None => held.kind = "store"
    BY DEF PassStep, IssueInv, SlotInv
  <1>11. SlotInv'
    BY <1>6, <1>9, <1>10 DEF SlotInv, Precedes
  <1>12. PlaceInv'
    BY <1>7, <1>8 DEF PlaceInv, PlaceOK, LineOK, Open, OpsOf, Precedes
  <1> QED
    BY <1>1, <1>11, <1>12

(* It keeps the order of what was sent.                                     *)
LEMMA PassOrder ==
    ASSUME NEW ops, PassStep(ops)
    PROVE  OrderInv' /\ SentInv'
  <1> DEFINE rg == RobWith(ops)
             n == feedback.retire
  <1>0. /\ rob \in Seq(Entry) /\ ops \in Seq(Op) /\ rg \in Seq(Entry) /\ Grown(rob, ops, rg)
        /\ Len(rg) <= RobSize /\ IdsOK(rg, new_id') /\ Dropped(rg, n, rob') /\ n \in 0 .. Len(rob)
    BY PassFacts
  <1>1. Lined' = Lined \cup OpSet(ops) /\ Issued' = Issued
    BY PassPlaces, SlotsKept DEF PassStep, issueVars
  <1>2. /\ BarrierOK(rob, Lined) /\ LsuOK(rob, Lined) /\ LsuOK(rob, Lined \cup Issued)
        /\ SerialOK(rob, Lined, n, is_inst_waiting, inst_waiting_rob_id)
        /\ FenceOK(rob, Lined, n, stored)
    BY DEF PassStep, IssueInv, OrderInv, SentInv
  <1>3. /\ is_inst_waiting' = is_inst_waiting /\ inst_waiting_rob_id' = inst_waiting_rob_id
        /\ feedback'.retire = 0
        /\ stored' = (IF stored > 0 THEN stored - 1 ELSE 0) + StoresIn(n)
    BY DEF PassStep, SyncPass, issueVars
  <1> DEFINE L == Lined \cup OpSet(ops)
             K == (Lined \cup Issued) \cup OpSet(ops)
  <1> HIDE DEF rg, n
  <1>4. BarrierOK(rg, L) /\ LsuOK(rg, L) /\ LsuOK(rg, K)
    BY <1>0, <1>2, OrderGrow
  <1>5. BarrierOK(rob', L) /\ LsuOK(rob', L) /\ LsuOK(rob', K)
    <2> HIDE DEF L, K
    <2> QED
      BY <1>0, <1>4, OrderDrop
  <1>6. K = L \cup Issued
    OBVIOUS
  <1>7. OrderInv'
    <2>1. BarrierOK(rob', Lined') /\ LsuOK(rob', Lined') /\ LsuOK(rob', Lined' \cup Issued')
      BY <1>1, <1>5, <1>6
    <2> QED
      BY <2>1 DEF OrderInv, BarrierOK, LsuOK
  <1>8. /\ SerialOK(rg, L, n, is_inst_waiting, inst_waiting_rob_id)
        /\ FenceOK(rg, L, n, stored)
    BY <1>0, <1>2, SentGrow
  <1>9. (stored = 0 /\ \A j \in 1 .. n : rg[j].op.kind # "store") => stored' = 0
    <2>1. SUFFICES ASSUME stored = 0, \A j \in 1 .. n : rg[j].op.kind # "store" PROVE stored' = 0
      OBVIOUS
    <2>2. \A j \in 1 .. n : rg[j] = rob[j]
      <3>1. \A j \in 1 .. n : j \in 1 .. Len(rob)
        BY <1>0
      <3> QED
        BY <1>0, <3>1 DEF Grown
    <2>3. {k \in 1 .. n : rob[k].op.kind = "store"} = {}
      BY <2>1, <2>2
    <2>4. StoresIn(n) = 0
      BY <2>3, FS_EmptySet DEF StoresIn
    <2> QED
      BY <1>3, <2>1, <2>4
  <1>10. /\ SerialOK(rob', L, 0, is_inst_waiting, inst_waiting_rob_id)
         /\ FenceOK(rob', L, 0, stored')
    <2> HIDE DEF L
    <2> QED
      BY <1>0, <1>8, <1>9, SentDrop
  <1>11. SentInv'
    <2>1. /\ SerialOK(rob', Lined', feedback'.retire, is_inst_waiting', inst_waiting_rob_id')
          /\ FenceOK(rob', Lined', feedback'.retire, stored')
      BY <1>1, <1>3, <1>10
    <2> QED
      BY <2>1 DEF SentInv, SerialOK, FenceOK
  <1> QED
    BY <1>7, <1>11

(* What is missing after the pass, of what belonged to someone before.      *)
LEMMA PassMissing ==
    ASSUME NEW ops, PassStep(ops)
    PROVE  /\ Undelivered' \cap Owned(rob, arf) = Undelivered
           /\ \A op \in Open(rob) : op.srcs \cap Undelivered' = op.srcs \cap Undelivered
  <1> DEFINE rg == RobWith(ops)
             d == Delivered(execute_wb \cup wb_commit)
  <1>0. /\ rob \in Seq(Entry) /\ ops \in Seq(Op) /\ rg \in Seq(Entry) /\ Grown(rob, ops, rg)
        /\ Dropped(rg, feedback.retire, rob') /\ RegsOK(rob, arf) /\ RegsOK(rg, arf) /\ arf \in [Arch -> Phy]
    BY PassFacts
  <1>1. Undelivered = Missing(rob, d)
    BY UndeliveredIs
  <1>2. Undelivered' = Missing(rob', d)
    <2>1. execute_wb' = execute_wb /\ wb_commit' = wb_commit
      BY DEF PassStep
    <2> QED
      BY <2>1 DEF Undelivered, Missing, Delivered
  <1>3. d \subseteq Owned(rob, arf)
    <2>1. OpsOf(execute_wb) \subseteq Open(rob) /\ OpsOf(wb_commit) \subseteq Open(rob)
      BY DEF PassStep, IssueInv, PlaceInv, PlaceOK
    <2>2. Delivered(execute_wb) \subseteq Owned(rob, arf)
      BY <1>0, <2>1, DeliveredOpen
    <2>3. Delivered(wb_commit) \subseteq Owned(rob, arf)
      BY <1>0, <2>1, DeliveredOpen
    <2> QED
      BY <2>2, <2>3, DeliveredTwo
  <1>4. \A k \in 1 .. Len(ops) : ops[k].phy \notin Owned(rob, arf)
    BY DEF PassStep, GroupOK
  <1> HIDE DEF rg, d
  <1>5. Missing(rg, d) \cap Owned(rob, arf) = Missing(rob, d)
    BY <1>0, <1>3, <1>4, MissingGrow
  <1>6. Missing(rob', d) = Missing(rg, d)
    BY <1>0, MissingDrop
  <1>7. Undelivered' \cap Owned(rob, arf) = Undelivered
    BY <1>1, <1>2, <1>5, <1>6
  <1>8. \A op \in Open(rob) : op.srcs \subseteq Owned(rob, arf)
    BY <1>0, OpenOwned
  <1> QED
    BY <1>7, <1>8

(* It keeps the valid bits exact.                                           *)
LEMMA PassBits ==
    ASSUME NEW ops, PassStep(ops)
    PROVE  BitsInv' /\ data_valid' \in SUBSET Phy
  <1> DEFINE rg == RobWith(ops)
             n == feedback.retire
             R == ({arf[a] : a \in Arch} \cup {rob[k].op.phy : k \in 1 .. n}) \ {arf'[a] : a \in Arch}
  <1>0. /\ rob \in Seq(Entry) /\ ops \in Seq(Op) /\ rg \in Seq(Entry) /\ Grown(rob, ops, rg) /\ n \in 0 .. Len(rob)
        /\ Dropped(rg, n, rob') /\ RegsOK(rob, arf) /\ RegsOK(rg, arf) /\ arf \in [Arch -> Phy]
        /\ \A a \in Arch : arf'[a] = Last(arf, rob, a, n)
    BY PassFacts
  <1>1. /\ OpsOf(execute_wb) \subseteq Open(rob) /\ OpsOf(wb_commit) \subseteq Open(rob)
        /\ OpsOf(execute_wb) \cap OpsOf(wb_commit) = {}
    BY DEF PassStep, IssueInv, PlaceInv, PlaceOK
  <1>2. \A k \in 1 .. Len(ops) : ops[k].phy \notin Owned(rob, arf)
    BY DEF PassStep, GroupOK
  <1>3. data_valid = Owned(rob, arf) \ (Missing(rob, Delivered(execute_wb \cup wb_commit))
                                          \cup Delivered(execute_wb \cup wb_commit))
    BY UndeliveredIs DEF PassStep, IssueInv, BitsInv, Late
  <1>4. data_valid' = (data_valid \ R) \cup Delivered(wb_commit)
    <2>1. wb_feedback = Delivered(wb_commit)
      BY DEF PassStep, IssueInv, PassInv
    <2> QED
      BY <2>1 DEF PassStep, SyncPass
  <1>5. execute_wb' = execute_wb /\ wb_commit' = wb_commit /\ step' = "back"
    BY DEF PassStep, SyncPass
  <1> HIDE DEF rg, n
  <1>6. data_valid' = Owned(rob', arf') \ (Missing(rob', Delivered(execute_wb \cup wb_commit))
                                              \cup Delivered(execute_wb))
    <2>1. (data_valid \ Freed(rob, arf, n, arf')) \cup Delivered(wb_commit)
          = Owned(rob', arf') \ (Missing(rob', Delivered(execute_wb \cup wb_commit))
                                    \cup Delivered(execute_wb))
      <3>1. BitsCase(rob, arf, ops, rg, n, rob', arf', execute_wb, wb_commit, data_valid)
        BY ONLY <1>0, <1>1, <1>2, <1>3 DEF BitsCase
      <3>2. BitsAre(rob, arf, n, rob', arf', execute_wb, wb_commit, data_valid)
        BY ONLY <3>1, BitsPass
      <3> QED
        BY <3>2 DEF BitsAre
    <2> QED
      BY <1>4, <2>1 DEF Freed
  <1>7. BitsInv'
    <2>1. Undelivered' = Missing(rob', Delivered(execute_wb \cup wb_commit))
      BY <1>5 DEF Undelivered, Missing, Delivered
    <2>2. Late' = Delivered(execute_wb)
      BY <1>5 DEF Late, Delivered
    <2> QED
      BY <1>6, <2>1, <2>2 DEF BitsInv, Owned
  <1>8. data_valid' \in SUBSET Phy
    <2>1. Delivered(wb_commit) \subseteq Phy
      BY <1>0, <1>1, DeliveredOpen
    <2>2. data_valid \in SUBSET Phy
      BY DEF PassStep, IssueInv, TypeInv
    <2> QED
      BY <1>4, <2>1, <2>2
  <1> QED
    BY <1>7, <1>8

(* The same for any sequence with the targets of the entries.               *)
LEMMA MapIs ==
    ASSUME NEW s, Len(s) \in Nat, NEW rb, NEW a,
           \A k \in 1 .. Len(s) : s[k].rd = rb[k].op.rd /\ s[k].phy = rb[k].op.phy
    PROVE  MapAfter(s, a) = Last(arf, rb, a, Len(s))
  <1> DEFINE K == {k \in 1 .. Len(s) : rb[k].op.rd = a}
             x == CHOOSE k \in K : \A j \in K : j <= k
  <1>4. {k \in 1 .. Len(s) : s[k].rd = a} = K
    OBVIOUS
  <1>5. CASE K = {}
    BY <1>4, <1>5 DEF MapAfter, Last
  <1>6. CASE K # {}
    <2>1. x \in K
      <3>1. K \subseteq 1 .. Len(s)
        OBVIOUS
      <3> HIDE DEF K
      <3> QED
        BY <1>6, <3>1, NewestIs
    <2>2. s[x].phy = rb[x].op.phy
      <3> HIDE DEF x
      <3> QED
        BY <2>1
    <2>3. MapAfter(s, a) = s[x].phy
      BY <1>4, <1>6 DEF MapAfter
    <2>4. Last(arf, rb, a, Len(s)) = rb[x].op.phy
      BY <1>6 DEF Last
    <2> QED
      BY <2>2, <2>3, <2>4
  <1> QED
    BY <1>5, <1>6

(* A group to be renamed, and its registers.                                *)
GroupIn(n, group, new) ==
    /\ n \in 0 .. RenameWidth /\ group \in [1 .. n -> Decoded]
    /\ Renamable(group) /\ new \in Allocations(group)

(* What decode and the free list hand to rename.                            *)
LEMMA GroupIs ==
    ASSUME NEW n, NEW group, NEW new, GroupIn(n, group, new)
    PROVE  /\ n \in Nat /\ Len(group) = n
           /\ \A k \in 1 .. n : group[k] \in Decoded
           /\ \A k \in 1 .. n : new[k] \in Free \cup {None} /\ (new[k] = None <=> group[k].rd = None)
           /\ \A j, k \in 1 .. n : new[j] = new[k] /\ new[j] # None => j = k
           /\ Len(rob) + n <= RobSize
  <1>1. n \in Nat /\ group \in [1 .. n -> Decoded]
    BY IssueSizesAssumption DEF GroupIn
  <1>2. Len(group) = n
    BY <1>1
  <1>3. Renamable(group) /\ new \in Allocations(group)
    BY DEF GroupIn
  <1> QED
    BY <1>1, <1>2, <1>3 DEF Renamable, Allocations

(* The renamed instructions.                                                *)
LEMMA RenamedIs ==
    ASSUME TypeInv, RegsInv, new_id \in RobId, NEW n, NEW group, NEW new, GroupIn(n, group, new)
    PROVE  /\ Renamed(group, new) \in Seq(Op) /\ Len(Renamed(group, new)) = n
           /\ \A k \in 1 .. n : /\ Renamed(group, new)[k].id = (new_id + k - 1) % RobSize
                                /\ Renamed(group, new)[k].kind = group[k].kind
                                /\ Renamed(group, new)[k].rd = group[k].rd
                                /\ Renamed(group, new)[k].phy = new[k]
           /\ \A k \in 1 .. n : \A p \in Renamed(group, new)[k].srcs : \E a \in group[k].rs :
                 /\ a \in Arch
                 /\ p = Last(arf, RobWith(Renamed(group, new)), a, Len(rob) + k - 1)
  <1>0. /\ n \in Nat /\ Len(group) = n /\ rob \in Seq(Entry) /\ Len(rob) \in Nat /\ arf \in [Arch -> Phy]
        /\ \A k \in 1 .. n : group[k] \in Decoded
        /\ \A k \in 1 .. n : new[k] \in Free \cup {None} /\ (new[k] = None <=> group[k].rd = None)
    BY GroupIs DEF TypeInv
  <1>1. \A k \in 1 .. n : /\ group[k].kind \in Kinds /\ group[k].rd \in Arch \cup {None}
                          /\ group[k].rs \subseteq Arch
    BY <1>0 DEF Decoded, Sources
  <1> DEFINE ops == Renamed(group, new)
             t(k) == RobTargets \o Targets(group, new, k - 1)
  <1>2. ops = [k \in 1 .. n |->
                [id |-> (new_id + k - 1) % RobSize, kind |-> group[k].kind,
                 rd |-> group[k].rd, phy |-> new[k],
                 srcs |-> {MapAfter(t(k), a) : a \in group[k].rs}]]
    BY <1>0 DEF Renamed
  <1> HIDE DEF ops
  <1>3. ASSUME NEW k \in 1 .. n
        PROVE  /\ Len(t(k)) = Len(rob) + k - 1 /\ Len(t(k)) \in Nat
               /\ \A i \in 1 .. Len(t(k)) :
                     /\ t(k)[i].rd = RobWith(ops)[i].op.rd
                     /\ t(k)[i].phy = RobWith(ops)[i].op.phy
                     /\ t(k)[i].rd \in Arch => t(k)[i].phy \in Phy
    <2> DEFINE s == RobTargets
               r == Targets(group, new, k - 1)
    <2>1. s = [i \in 1 .. Len(rob) |-> [rd |-> rob[i].op.rd, phy |-> rob[i].op.phy]]
      BY DEF RobTargets
    <2>2. r = [i \in 1 .. k - 1 |-> [rd |-> group[i].rd, phy |-> new[i]]]
      BY DEF Targets
    <2>3. k - 1 \in Nat
      BY <1>0
    <2>4. /\ Len(s) = Len(rob) /\ Len(r) = k - 1
          /\ \A i \in 1 .. Len(rob) : s[i].rd = rob[i].op.rd /\ s[i].phy = rob[i].op.phy
          /\ \A i \in 1 .. k - 1 : r[i].rd = group[i].rd /\ r[i].phy = new[i]
      BY <1>0, <2>1, <2>2, <2>3
    <2>5. \E T : s \in Seq(T) /\ r \in Seq(T)
      <3> DEFINE T == {s[i] : i \in 1 .. Len(rob)} \cup {r[i] : i \in 1 .. k - 1}
      <3>1. s \in [1 .. Len(rob) -> T]
        <4> HIDE DEF s, r
        <4> QED
          BY <2>1 DEF s
      <3>2. r \in [1 .. k - 1 -> T]
        <4> HIDE DEF s, r
        <4> QED
          BY <2>2 DEF r
      <3> HIDE DEF s, r, T
      <3>3. s \in Seq(T) /\ r \in Seq(T)
        <4>1. PICK m \in Nat : m = k - 1
          BY <2>3
        <4>2. PICK l \in Nat : l = Len(rob)
          BY <1>0
        <4>3. s \in [1 .. l -> T] /\ r \in [1 .. m -> T]
          BY <3>1, <3>2, <4>1, <4>2
        <4> QED
          BY ONLY <4>3, m \in Nat, l \in Nat
      <3> QED
        BY <3>3
    <2> HIDE DEF s, r
    <2>6. PICK T : s \in Seq(T) /\ r \in Seq(T)
      BY <2>5
    <2>7. /\ Len(s \o r) = Len(s) + Len(r)
          /\ \A i \in 1 .. Len(s) + Len(r) : (s \o r)[i] = IF i <= Len(s) THEN s[i] ELSE r[i - Len(s)]
      BY <2>6, ConcatProperties
    <2>8. Len(s \o r) = Len(rob) + k - 1 /\ Len(s \o r) \in Nat
      BY <1>0, <2>3, <2>4, <2>7
    <2>w. RobWith(ops) = [i \in 1 .. Len(rob) + Len(ops) |->
              IF i <= Len(rob) THEN rob[i] ELSE [op |-> ops[i - Len(rob)], done |-> "no"]]
      BY DEF RobWith
    <2>l. Len(ops) = n
      BY <1>0, <1>2
    <2>9. ASSUME NEW i \in 1 .. Len(s \o r)
          PROVE  /\ (s \o r)[i].rd = RobWith(ops)[i].op.rd
                 /\ (s \o r)[i].phy = RobWith(ops)[i].op.phy
                 /\ (s \o r)[i].rd \in Arch => (s \o r)[i].phy \in Phy
      <3>1. CASE i <= Len(rob)
        <4>1. i \in 1 .. Len(rob) /\ (s \o r)[i] = s[i] /\ RobWith(ops)[i] = rob[i]
          BY <1>0, <2>4, <2>7, <2>8, <2>w, <2>l, <3>1
        <4>2. rob[i].op.rd \in Arch => rob[i].op.phy \in Phy
          <5>1. rob[i].op.phy \in Phy \cup {None}
            BY <1>0, <4>1, EntryTypes
          <5>2. rob[i].op.rd = None <=> rob[i].op.phy = None
            BY <4>1 DEF RegsInv, RegsOK
          <5> QED
            BY <5>1, <5>2, NoneApart
        <4> QED
          BY <2>4, <4>1, <4>2
      <3>2. CASE ~ (i <= Len(rob))
        <4>1. PICK j \in 1 .. k - 1 : j = i - Len(rob)
          <5>1. i - Len(rob) \in 1 .. k - 1
            BY <1>0, <2>8, <3>2
          <5> QED
            BY <5>1
        <4>2. j \in 1 .. n /\ i \in 1 .. Len(rob) + Len(ops) /\ i \in 1 .. Len(s) + Len(r) /\ ~ (i <= Len(s))
          BY <1>0, <2>4, <2>7, <2>l, <3>2, <4>1
        <4>3. (s \o r)[i] = r[j]
          BY <2>4, <2>7, <4>1, <4>2
        <4>4. RobWith(ops)[i].op = ops[j]
          BY <2>w, <3>2, <4>1, <4>2
        <4>5. ops[j].rd = group[j].rd /\ ops[j].phy = new[j]
          BY <1>2, <4>2
        <4>6. group[j].rd \in Arch => new[j] \in Phy
          <5>1. new[j] \in Free \cup {None} /\ (new[j] = None <=> group[j].rd = None)
            BY <1>0, <4>2
          <5> QED
            BY <5>1, NoneApart DEF Free
        <4> QED
          BY <2>4, <4>3, <4>4, <4>5, <4>6
      <3> QED
        BY <3>1, <3>2
    <2> QED
      BY <2>8, <2>9 DEF s, r
  <1> HIDE DEF t
  <1>4. ASSUME NEW k \in 1 .. n, NEW a \in Arch
        PROVE  /\ MapAfter(t(k), a) = Last(arf, RobWith(ops), a, Len(rob) + k - 1)
               /\ MapAfter(t(k), a) \in Phy
    <2>1. /\ Len(t(k)) = Len(rob) + k - 1 /\ Len(t(k)) \in Nat
          /\ \A i \in 1 .. Len(t(k)) : /\ t(k)[i].rd = RobWith(ops)[i].op.rd
                                       /\ t(k)[i].phy = RobWith(ops)[i].op.phy
                                       /\ t(k)[i].rd \in Arch => t(k)[i].phy \in Phy
      BY <1>3
    <2>2. MapAfter(t(k), a) = Last(arf, RobWith(ops), a, Len(t(k)))
      BY <2>1, MapIs
    <2>3. Last(arf, RobWith(ops), a, Len(t(k))) \in Phy
      <3>1. CASE Last(arf, RobWith(ops), a, Len(t(k))) = arf[a]
        BY <1>0, <3>1
      <3>2. CASE Last(arf, RobWith(ops), a, Len(t(k))) # arf[a]
        <4>1. PICK i \in 1 .. Len(t(k)) : /\ RobWith(ops)[i].op.rd = a
                                          /\ Last(arf, RobWith(ops), a, Len(t(k))) = RobWith(ops)[i].op.phy
          BY <2>1, <3>2, LastCases
        <4> QED
          BY <2>1, <4>1
      <3> QED
        BY <3>1, <3>2
    <2> QED
      BY <2>1, <2>2, <2>3
  <1>5. ASSUME NEW k \in 1 .. n
        PROVE  /\ ops[k].id = (new_id + k - 1) % RobSize /\ ops[k].kind = group[k].kind
               /\ ops[k].rd = group[k].rd /\ ops[k].phy = new[k]
               /\ ops[k].srcs = {MapAfter(t(k), a) : a \in group[k].rs}
               /\ ops[k] \in Op
    <2> DEFINE idk == (new_id + k - 1) % RobSize
               srck == {MapAfter(t(k), a) : a \in group[k].rs}
    <2>1. ops[k] = [id |-> idk, kind |-> group[k].kind,
                    rd |-> group[k].rd, phy |-> new[k], srcs |-> srck]
      BY <1>2 DEF t
    <2>2. idk \in RobId
      <3>1. k - 1 \in 0 .. RobSize
        <4>1. Len(rob) + n <= RobSize /\ RobSize \in Nat
          BY GroupIs, IssueSizesAssumption
        <4> QED
          BY <1>0, <4>1
      <3>2. (new_id + (k - 1)) % RobSize \in RobId
        BY <3>1, RingId
      <3>3. new_id + (k - 1) = new_id + k - 1
        BY DEF RobId
      <3> QED
        BY <3>2, <3>3
    <2>3. srck \in SUBSET Phy
      BY <1>1, <1>4
    <2>4. group[k].kind \in Kinds /\ group[k].rd \in Arch \cup {None} /\ new[k] \in Phy \cup {None}
      BY <1>0, <1>1 DEF Free
    <2> HIDE DEF idk, srck
    <2>5. ops[k] \in Op
      BY <2>1, <2>2, <2>3, <2>4 DEF Op
    <2> QED
      BY <2>1, <2>5 DEF idk, srck
  <1>6. ops \in Seq(Op) /\ Len(ops) = n
    <2>1. ops \in [1 .. n -> Op]
      BY <1>2, <1>5
    <2> QED
      BY <1>0, <2>1
  <1>7. ASSUME NEW k \in 1 .. n, NEW p \in ops[k].srcs
        PROVE  \E a \in group[k].rs : a \in Arch /\ p = Last(arf, RobWith(ops), a, Len(rob) + k - 1)
    <2>1. PICK a \in group[k].rs : p = MapAfter(t(k), a)
      BY <1>5
    <2> QED
      BY <1>1, <1>4, <2>1
  <1> QED
    BY <1>5, <1>6, <1>7 DEF ops

(* A renamed group satisfies what a front step asks of one.                 *)
LEMMA RenamedGroup ==
    ASSUME IssueInv, NEW n, NEW group, NEW new, GroupIn(n, group, new)
    PROVE  GroupOK(Renamed(group, new))
  <1>0. TypeInv /\ RegsInv /\ new_id \in RobId /\ arf \in [Arch -> Phy] /\ rob \in Seq(Entry)
    BY DEF IssueInv, TypeInv
  <1> DEFINE ops == Renamed(group, new)
  <1>1. /\ ops \in Seq(Op) /\ Len(ops) = n
        /\ \A k \in 1 .. n : /\ ops[k].id = (new_id + k - 1) % RobSize
                             /\ ops[k].kind = group[k].kind /\ ops[k].rd = group[k].rd
                             /\ ops[k].phy = new[k]
        /\ \A k \in 1 .. n : \A p \in ops[k].srcs : \E a \in group[k].rs :
              a \in Arch /\ p = Last(arf, RobWith(ops), a, Len(rob) + k - 1)
    BY <1>0, RenamedIs
  <1>2. /\ \A k \in 1 .. n : group[k] \in Decoded
        /\ \A k \in 1 .. n : new[k] \in Free \cup {None} /\ (new[k] = None <=> group[k].rd = None)
        /\ \A j, k \in 1 .. n : new[j] = new[k] /\ new[j] # None => j = k
        /\ Len(rob) + n <= RobSize
    BY GroupIs
  <1> HIDE DEF ops
  <1>3. \A k \in 1 .. n : new[k] \notin Owned(rob, arf)
    <2>1. None \notin Owned(rob, arf)
      BY <1>0, NoneApart DEF Owned
    <2>2. \A p \in Free : p \notin Owned(rob, arf)
      BY DEF Free, Owned
    <2> QED
      BY <1>2, <2>1, <2>2
  <1>4. ASSUME NEW k \in 1 .. n, ops[k].kind = "fence" PROVE ops[k].srcs = {}
    <2>1. group[k].rs = {}
      BY <1>1, <1>2, <1>4 DEF Decoded
    <2> QED
      BY <1>1, <2>1
  <1> QED
    <2>1. \A k \in 1 .. n : ops[k].rd = None <=> ops[k].phy = None
      BY <1>1, <1>2
    <2>2. \A k \in 1 .. n : ops[k].phy \notin Owned(rob, arf)
      BY <1>1, <1>3
    <2>3. \A j, k \in 1 .. n : ops[j].phy = ops[k].phy /\ ops[j].phy # None => j = k
      BY <1>1, <1>2
    <2>4. \A k \in 1 .. n : \A p \in ops[k].srcs :
             \E a \in Arch : p = Last(arf, RobWith(ops), a, Len(rob) + k - 1)
      BY <1>1
    <2>5. \A k \in 1 .. n : ops[k].kind = "fence" => ops[k].srcs = {}
      BY <1>4
    <2>6. \A k \in 1 .. n : ops[k].id = (new_id + k - 1) % RobSize
      BY <1>1
    <2>7. GroupOK(ops)
      BY <1>1, <1>2, <2>1, <2>2, <2>3, <2>4, <2>5, <2>6 DEF GroupOK
    <2> QED
      BY <2>7 DEF ops

(* So does no instruction at all.                                           *)
LEMMA EmptyGroup ==
    ASSUME IssueInv
    PROVE  GroupOK(<< >>)
  <1>1. << >> \in Seq(Op) /\ Len(<< >>) = 0 /\ 1 .. 0 = {}
    OBVIOUS
  <1>2. Len(rob) + 0 <= RobSize
    BY DEF IssueInv, TypeInv
  <1> QED
    BY <1>1, <1>2 DEF GroupOK

(* What is left to show is that the ports are in order.                     *)
LEMMA PassKeeps ==
    ASSUME NEW ops, PassStep(ops),
           rename_readreg' \in Seq(Op), readreg_issue' \in Seq(Item),
           busy => last_index <= Len(readreg_issue'),
           \A k \in PortFrom' + 1 .. Len(readreg_issue') :
              /\ readreg_issue'[k].op.srcs \cap Undelivered' \subseteq readreg_issue'[k].waiting
              /\ readreg_issue'[k].waiting \subseteq readreg_issue'[k].op.srcs
    PROVE  IssueInv'
  <1>1. IssueInv /\ step = "front" /\ SyncPass(feedback.retire, ops)
        /\ UNCHANGED <<issueVars, held, execute_wb, wb_commit>>
    BY DEF PassStep
  <1>2. rob' \in Seq(Entry) /\ Len(rob') <= RobSize /\ arf' \in [Arch -> Phy]
        /\ data_valid' \in SUBSET Phy /\ feedback.retire \in Nat
    BY PassFacts, PassIdsRegs, PassBits
  <1>3. new_id' \in RobId
    <2>1. Len(ops) \in 0 .. RobSize
      <3>1. /\ Len(rob) \in Nat /\ Len(ops) \in Nat /\ Len(rob) + Len(ops) <= RobSize /\ RobSize \in Nat
        BY <1>1, PassFacts, IssueSizesAssumption DEF PassStep, GroupOK
      <3> QED
        BY <3>1
    <2>2. new_id \in RobId
      BY <1>1 DEF IssueInv, TypeInv
    <2>3. (new_id + Len(ops)) % RobSize \in RobId
      BY <2>1, <2>2, RingId
    <2> QED
      BY <1>1, <2>3 DEF SyncPass
  <1>4. stored' \in Nat
    <2>1. IsFiniteSet({k \in 1 .. feedback.retire : rob[k].op.kind = "store"})
      <3>1. IsFiniteSet(1 .. feedback.retire)
        BY <1>2, FS_Interval
      <3> QED
        BY <3>1, FS_Subset
    <2>2. StoresIn(feedback.retire) \in Nat
      BY <2>1, FS_CardinalityType DEF StoresIn
    <2>3. stored \in Nat
      BY <1>1 DEF IssueInv, TypeInv
    <2>4. stored' = (IF stored > 0 THEN stored - 1 ELSE 0) + StoresIn(feedback.retire)
      BY <1>1 DEF SyncPass
    <2> QED
      BY <2>2, <2>3, <2>4
  <1>5. feedback' \in [retire : Nat, next_handle_rob_id : RobId]
    <2>1. 0 \in RobId
      BY IssueSizesAssumption DEF RobId
    <2> QED
      BY <1>1, <2>1 DEF SyncPass
  <1>6. TypeInv'
    <2>1. TypeInv
      BY <1>1 DEF IssueInv
    <2>2. step' = "back" /\ execute_feedback' = {} /\ wb_feedback' = {}
      BY <1>1 DEF SyncPass
    <2>3. /\ busy' = busy /\ last_index' = last_index /\ issue_q' = issue_q
          /\ is_inst_waiting' = is_inst_waiting /\ inst_waiting_rob_id' = inst_waiting_rob_id
          /\ units' = units /\ unit_index' = unit_index /\ held' = held
          /\ execute_wb' = execute_wb /\ wb_commit' = wb_commit
      BY <1>1 DEF issueVars
    <2> QED
      BY <1>2, <1>3, <1>4, <1>5, <2>1, <2>2, <2>3 DEF TypeInv
  <1>7. OperandInv'
    <2>0. /\ OperandInv /\ issue_q' = issue_q /\ execute_wb' = execute_wb /\ wb_commit' = wb_commit
          /\ step' = "back" /\ Issued' = Issued /\ TypeInv
      BY <1>1, SlotsKept DEF IssueInv, issueVars, SyncPass
    <2>1. PlaceOK(rob, Lined, Issued, execute_wb, wb_commit)
      BY <1>1 DEF IssueInv, PlaceInv
    <2>2. ASSUME NEW k \in 1 .. Len(issue_q)
          PROVE  issue_q[k].waiting = issue_q[k].op.srcs \cap Undelivered'
      <3>1. issue_q[k].waiting = issue_q[k].op.srcs \cap Undelivered
        BY <1>1, <2>0 DEF OperandInv
      <3>2. issue_q[k].op \in Lined
        BY <2>0, LinedHas
      <3>3. issue_q[k].op \in Open(rob)
        BY <2>1, <3>2 DEF PlaceOK
      <3> QED
        BY <3>1, <3>3, PassMissing
    <2>3. ASSUME NEW op \in Issued \cup Executed PROVE op.srcs \cap Undelivered' = {}
      <3>1. op.srcs \cap Undelivered = {}
        BY <2>0 DEF OperandInv
      <3>2. op \in Open(rob)
        BY <2>1, ExecutedIs DEF PlaceOK
      <3> QED
        BY <3>1, <3>2, PassMissing
    <2>4. Executed' = Executed
      BY <2>0 DEF Executed
    <2> QED
      BY <2>0, <2>2, <2>3, <2>4 DEF OperandInv
  <1> QED
    BY <1>6, <1>7, PassIdsRegs, PassBits, PassPlaces, PassOrder DEF IssueInv

(* A pass in which the readreg stage is stalled.                            *)
LEMMA FrontStalledKeeps ==
    ASSUME IssueInv, FrontStalled
    PROVE  IssueInv'
  <1>0. /\ step = "front" /\ busy /\ SyncPass(feedback.retire, << >>)
        /\ UNCHANGED <<issueVars, held, execute_wb, wb_commit, rename_readreg, readreg_issue>>
        /\ TypeInv
    BY DEF FrontStalled, IssueInv
  <1>1. /\ busy' = busy /\ last_index' = last_index /\ issue_q' = issue_q /\ step' = "back"
        /\ rename_readreg' = rename_readreg /\ readreg_issue' = readreg_issue
    BY <1>0 DEF issueVars, SyncPass
  <1>2. PortFrom' = PortFrom
    BY <1>0, <1>1 DEF PortFrom, FirstInput
  <1>3. Line' = Line
    BY <1>1, <1>2 DEF Line, InLine
  <1>4. Longer(Line, << >>, Line')
    <2>1. Len(Line) \in Nat
      BY <1>0, LineIs
    <2>2. Len(<< >>) = 0 /\ 1 .. 0 = {} /\ Len(Line) + 0 = Len(Line)
      BY <2>1
    <2> QED
      BY <1>3, <2>1, <2>2 DEF Longer
  <1>5. PassStep(<< >>)
    BY <1>0, <1>4, EmptyGroup DEF PassStep
  <1>6. ASSUME NEW k \in PortFrom + 1 .. Len(readreg_issue)
        PROVE  /\ readreg_issue[k].op.srcs \cap Undelivered' \subseteq readreg_issue[k].waiting
               /\ readreg_issue[k].waiting \subseteq readreg_issue[k].op.srcs
    <2>1. /\ readreg_issue[k].op.srcs \cap Undelivered \subseteq readreg_issue[k].waiting
          /\ readreg_issue[k].waiting \subseteq readreg_issue[k].op.srcs
      BY DEF IssueInv, OperandInv
    <2>2. readreg_issue[k].op \in Lined
      BY <1>0, LinedHas
    <2>3. readreg_issue[k].op \in Open(rob)
      BY <2>2 DEF IssueInv, PlaceInv, PlaceOK
    <2> QED
      BY <1>5, <2>1, <2>3, PassMissing
  <1>7. rename_readreg' \in Seq(Op) /\ readreg_issue' \in Seq(Item) /\ (busy => last_index <= Len(readreg_issue'))
    BY <1>0, <1>1 DEF TypeInv
  <1> QED
    BY <1>1, <1>2, <1>5, <1>6, <1>7, PassKeeps

(* An operand that readreg does not find is one that is missing.            *)
LEMMA ReadregWaits ==
    ASSUME IssueInv, step = "front", NEW op \in Open(rob)
    PROVE  readreg(op).op = op /\ readreg(op).waiting = op.srcs \cap Undelivered
  <1>1. op.srcs \subseteq Owned(rob, arf)
    <2>1. rob \in Seq(Entry) /\ arf \in [Arch -> Phy] /\ RegsOK(rob, arf)
      BY DEF IssueInv, TypeInv, RegsInv
    <2> QED
      BY <2>1, OpenOwned
  <1>2. data_valid = Owned(rob, arf) \ (Undelivered \cup Delivered(execute_wb \cup wb_commit))
    BY DEF IssueInv, BitsInv, Late
  <1>3. Delivered(execute_wb \cup wb_commit) = execute_feedback \cup wb_feedback
    BY DeliveredTwo DEF IssueInv, PassInv
  <1>4. Undelivered \cap Delivered(execute_wb \cup wb_commit) = {}
    <2>1. ASSUME NEW p \in Undelivered PROVE p \notin Delivered(execute_wb \cup wb_commit)
      BY DEF Undelivered
    <2> QED
      BY <2>1
  <1>5. readreg(op).op = op /\ readreg(op).waiting = op.srcs \ (data_valid \cup execute_feedback \cup wb_feedback)
    BY DEF readreg
  <1> QED
    BY <1>1, <1>2, <1>3, <1>4, <1>5

(* A pass in which readreg and rename run.                                  *)
LEMMA FrontRunKeeps ==
    ASSUME IssueInv, FrontRun
    PROVE  IssueInv'
  <1>0. /\ step = "front" /\ ~ busy /\ TypeInv
        /\ readreg_issue' = [k \in 1 .. Len(rename_readreg) |-> readreg(rename_readreg[k])]
        /\ UNCHANGED <<issueVars, held, execute_wb, wb_commit>>
    BY DEF FrontRun, IssueInv
  <1>1. PICK n \in 0 .. RenameWidth : \E group \in [1 .. n -> Decoded] :
          /\ Renamable(group)
          /\ \E new \in Allocations(group) :
                /\ rename_readreg' = Renamed(group, new)
                /\ SyncPass(feedback.retire, Renamed(group, new))
    BY DEF FrontRun
  <1>2. PICK group \in [1 .. n -> Decoded] :
          /\ Renamable(group)
          /\ \E new \in Allocations(group) :
                /\ rename_readreg' = Renamed(group, new)
                /\ SyncPass(feedback.retire, Renamed(group, new))
    BY <1>1
  <1>3. PICK new \in Allocations(group) :
                /\ rename_readreg' = Renamed(group, new)
                /\ SyncPass(feedback.retire, Renamed(group, new))
    BY <1>2
  <1>4. PICK ops : ops = Renamed(group, new)
    OBVIOUS
  <1>5. GroupOK(ops) /\ ops \in Seq(Op) /\ Len(ops) \in Nat
    <2>1. GroupIn(n, group, new)
      BY <1>2, <1>3 DEF GroupIn
    <2>2. GroupOK(ops)
      BY <1>4, <2>1, RenamedGroup
    <2> QED
      BY <2>2 DEF GroupOK
  <1>6. /\ rename_readreg \in Seq(Op) /\ Len(rename_readreg) \in Nat
        /\ Len(issue_q) \in Nat /\ Len(readreg_issue) \in Nat
    BY <1>0 DEF TypeInv
  <1>7. /\ busy' = FALSE /\ issue_q' = issue_q /\ step' = "back" /\ rename_readreg' = ops
    <2>1. busy \in BOOLEAN
      BY <1>0 DEF TypeInv
    <2> QED
      BY <1>0, <1>3, <1>4, <2>1 DEF issueVars, SyncPass
  <1>8. PortFrom = Len(readreg_issue) /\ PortFrom' = 0
    BY <1>0, <1>7 DEF PortFrom, FirstInput
  <1>9. /\ Len(readreg_issue') = Len(rename_readreg)
        /\ \A k \in 1 .. Len(rename_readreg) : readreg_issue'[k] = readreg(rename_readreg[k])
    BY <1>0, <1>6
  <1>10. ASSUME NEW k \in 1 .. Len(rename_readreg)
         PROVE  rename_readreg[k] \in Open(rob) /\ rename_readreg[k] \in Op
    <2>1. rename_readreg[k] \in Lined
      BY <1>0, LinedHas
    <2> QED
      BY <1>6, <2>1 DEF IssueInv, PlaceInv, PlaceOK
  <1>11. ASSUME NEW k \in 1 .. Len(rename_readreg)
         PROVE  /\ readreg_issue'[k].op = rename_readreg[k]
                /\ readreg_issue'[k].waiting = rename_readreg[k].srcs \cap Undelivered
    BY <1>0, <1>9, <1>10, ReadregWaits
  <1>12. Longer(Line, ops, Line')
    <2>1. /\ Len(Line) = Len(issue_q) + Len(rename_readreg) /\ Len(Line) \in Nat
          /\ \A k \in 1 .. Len(issue_q) : Line[k] = issue_q[k].op
          /\ \A k \in 1 .. Len(rename_readreg) : Line[Len(issue_q) + k] = rename_readreg[k]
      <3>1. Len(readreg_issue) - PortFrom = 0
        BY <1>6, <1>8
      <3>2. /\ Len(Line) = Len(issue_q) + 0 + Len(rename_readreg) /\ Len(Line) \in Nat
            /\ \A k \in 1 .. Len(issue_q) : Line[k] = issue_q[k].op
            /\ \A k \in 1 .. Len(rename_readreg) : Line[Len(issue_q) + 0 + k] = rename_readreg[k]
        BY <1>0, <3>1, LineIs
      <3> QED
        BY <1>6, <3>2
    <2>2. /\ Len(Line') = Len(issue_q) + Len(rename_readreg) + Len(ops)
          /\ \A k \in 1 .. Len(issue_q) : Line'[k] = issue_q[k].op
          /\ \A k \in 1 .. Len(rename_readreg) : Line'[Len(issue_q) + k] = readreg_issue'[k].op
          /\ \A k \in 1 .. Len(ops) : Line'[Len(issue_q) + Len(rename_readreg) + k] = ops[k]
      <3>1. Line' = InLine(issue_q, readreg_issue', 0, ops)
        BY <1>7, <1>8 DEF Line, InLine
      <3>2. LineShape(issue_q, readreg_issue', 0, ops, Line')
        <4>1. 0 \in 0 .. Len(readreg_issue') /\ Len(readreg_issue') \in Nat
          BY <1>6, <1>9
        <4> QED
          BY <1>5, <1>6, <3>1, <4>1, InLineIs
      <3>3. Len(readreg_issue') - 0 = Len(rename_readreg) /\ \A k \in 1 .. Len(rename_readreg) : 0 + k = k
        BY <1>6, <1>9
      <3> QED
        BY <1>6, <3>2, <3>3 DEF LineShape
    <2>3. ASSUME NEW k \in 1 .. Len(Line) PROVE Line'[k] = Line[k]
      <3>1. CASE k \in 1 .. Len(issue_q)
        BY <2>1, <2>2, <3>1
      <3>2. CASE k \notin 1 .. Len(issue_q)
        <4>1. k - Len(issue_q) \in 1 .. Len(rename_readreg) /\ Len(issue_q) + (k - Len(issue_q)) = k
          BY <1>6, <2>1, <3>2
        <4>2. PICK j \in 1 .. Len(rename_readreg) : k = Len(issue_q) + j
          BY <4>1
        <4> QED
          BY <1>11, <2>1, <2>2, <4>2
      <3> QED
        BY <3>1, <3>2
    <2> QED
      BY <2>1, <2>2, <2>3 DEF Longer
  <1>13. PassStep(ops)
    BY <1>0, <1>3, <1>4, <1>5, <1>12 DEF PassStep
  <1>14. readreg_issue' \in Seq(Item)
    <2>1. \A k \in 1 .. Len(rename_readreg) : readreg(rename_readreg[k]) \in Item
      <3>1. ASSUME NEW k \in 1 .. Len(rename_readreg) PROVE readreg(rename_readreg[k]) \in Item
        <4>1. rename_readreg[k] \in Op
          BY <1>6
        <4>2. rename_readreg[k].srcs \in SUBSET Phy
          BY <4>1 DEF Op
        <4> QED
          BY <4>1, <4>2 DEF readreg, Item
      <3> QED
        BY <3>1
    <2>2. readreg_issue' \in [1 .. Len(rename_readreg) -> Item]
      BY <1>0, <2>1
    <2> QED
      BY <1>6, <2>2
  <1>15. ASSUME NEW k \in PortFrom' + 1 .. Len(readreg_issue')
         PROVE  /\ readreg_issue'[k].op.srcs \cap Undelivered' \subseteq readreg_issue'[k].waiting
                /\ readreg_issue'[k].waiting \subseteq readreg_issue'[k].op.srcs
    <2>1. k \in 1 .. Len(rename_readreg)
      BY <1>6, <1>8, <1>9
    <2>2. rename_readreg[k].srcs \cap Undelivered' = rename_readreg[k].srcs \cap Undelivered
      BY <1>10, <1>13, <2>1, PassMissing
    <2> QED
      BY <1>11, <2>1, <2>2
  <1> QED
    BY <1>0, <1>5, <1>7, <1>13, <1>14, <1>15, PassKeeps

(* The state after a reset or a flush.                                      *)
Emptied ==
    /\ step = "back" /\ feedback \in [retire : {0}, next_handle_rob_id : RobId]
    /\ rob = << >> /\ new_id = 0
    /\ arf \in [Arch -> Phy] /\ (\A a, b \in Arch : arf[a] = arf[b] => a = b)
    /\ data_valid = {arf[a] : a \in Arch}
    /\ rename_readreg = << >> /\ readreg_issue = << >>
    /\ busy = FALSE /\ last_index \in Nat /\ issue_q = << >>
    /\ is_inst_waiting = FALSE /\ inst_waiting_rob_id \in RobId
    /\ units = [u \in Unit |-> [i \in 0 .. UnitNum(u) - 1 |-> None]]
    /\ DOMAIN unit_index = Unit /\ (\A u \in Unit : unit_index[u] \in 0 .. UnitNum(u) - 1)
    /\ held = None /\ execute_wb = {} /\ wb_commit = {}
    /\ execute_feedback = {} /\ wb_feedback = {} /\ stored \in Nat

(* The invariant of an empty pipeline.                                      *)
LEMMA EmptiedHolds ==
    Emptied => IssueInv
  <1> SUFFICES ASSUME Emptied PROVE IssueInv
    OBVIOUS
  <1>0. /\ Len(rob) = 0 /\ Len(issue_q) = 0 /\ Len(readreg_issue) = 0 /\ Len(rename_readreg) = 0
        /\ 1 .. 0 = {} /\ RobSize \in Nat \ {0} /\ IssueQueueSize \in Nat /\ 0 \in RobId
        /\ feedback.retire = 0
    BY IssueSizesAssumption DEF Emptied, RobId
  <1>1. TypeInv
    <2>1. IsFiniteSet({})
      BY FS_EmptySet
    <2>2. rob \in Seq(Entry) /\ rename_readreg \in Seq(Op) /\ readreg_issue \in Seq(Item) /\ issue_q \in Seq(Item)
      BY DEF Emptied
    <2>3. \A u \in Unit : units[u] \in [0 .. UnitNum(u) - 1 -> Op \cup {None}]
      BY DEF Emptied
    <2>4. DOMAIN units = Unit
      BY DEF Emptied
    <2>5. data_valid \in SUBSET Phy
      BY DEF Emptied
    <2>6. feedback \in [retire : Nat, next_handle_rob_id : RobId]
      BY DEF Emptied
    <2>7. /\ step \in {"back", "issue", "front"} /\ Len(rob) <= RobSize /\ new_id \in RobId
          /\ arf \in [Arch -> Phy] /\ last_index \in Nat
          /\ Len(issue_q) <= IssueQueueSize
      BY <1>0 DEF Emptied
    <2>b. busy \in BOOLEAN /\ (busy => last_index <= Len(readreg_issue))
      BY DEF Emptied
    <2>8. /\ is_inst_waiting \in BOOLEAN /\ inst_waiting_rob_id \in RobId
          /\ DOMAIN unit_index = Unit /\ (\A u \in Unit : unit_index[u] \in 0 .. UnitNum(u) - 1)
          /\ held \in Op \cup {None} /\ stored \in Nat
      BY DEF Emptied
    <2>9. /\ execute_wb \in SUBSET Result /\ IsFiniteSet(execute_wb)
          /\ wb_commit \in SUBSET Result /\ IsFiniteSet(wb_commit)
          /\ execute_feedback \in SUBSET (Phy \cup {None}) /\ wb_feedback \in SUBSET (Phy \cup {None})
      BY <2>1 DEF Emptied
    <2> QED
      BY <2>2, <2>3, <2>4, <2>5, <2>6, <2>7, <2>b, <2>8, <2>9 DEF TypeInv
  <1>2. \A u : u \in Unit => SlotOps(u) = {}
    BY DEF Emptied, SlotOps
  <1>3. Issued = {}
    BY <1>2 DEF Emptied, Issued
  <1>4. Len(Line) = 0 /\ Lined = {}
    <2>1. FirstInput = 0 /\ PortFrom = 0
      BY DEF Emptied, FirstInput, PortFrom
    <2>2. Len(Line) = 0
      BY <1>0, <1>1, <2>1, LineIs
    <2> QED
      BY <1>0, <2>2 DEF Lined
  <1>5. Open(rob) = {} /\ Undelivered = {} /\ OpsOf({}) = {} /\ Executed = {} /\ Delivered({}) = {}
    BY <1>0 DEF Open, Undelivered, OpsOf, Executed, Delivered, Emptied
  <1>6. IdsInv
    <2>1. (0 + 0) % RobSize = 0
      BY <1>0
    <2> QED
      BY <1>0, <2>1 DEF IdsInv, IdsOK, Emptied
  <1>7. PassInv
    BY <1>0, <1>2 DEF PassInv, Emptied
  <1>8. RegsInv
    BY <1>0 DEF RegsInv, RegsOK, Emptied
  <1>9. BitsInv
    BY <1>0, <1>5 DEF BitsInv, Owned, Late, Emptied
  <1>10. PlaceInv
    BY <1>0, <1>3, <1>4, <1>5 DEF PlaceInv, LineOK, PlaceOK, Emptied
  <1>11. SlotInv
    BY <1>2 DEF SlotInv, Emptied
  <1>12. OperandInv
    <2>1. PortFrom = 0 /\ 0 + 1 .. 0 = {}
      BY DEF Emptied, FirstInput, PortFrom
    <2> QED
      BY <1>0, <1>3, <1>5, <2>1 DEF OperandInv
  <1>13. OrderInv /\ SentInv
    BY <1>0 DEF OrderInv, BarrierOK, LsuOK, SentInv, SerialOK, FenceOK
  <1> QED
    BY <1>1, <1>6, <1>7, <1>8, <1>9, <1>10, <1>11, <1>12, <1>13 DEF IssueInv

(* The program starts with one.                                             *)
LEMMA InitHolds ==
    Init => IssueInv
  <1> SUFFICES ASSUME Init PROVE IssueInv
    OBVIOUS
  <1>1. 0 \in RobId
    BY IssueSizesAssumption DEF RobId
  <1>2. \A u \in Unit : 0 \in 0 .. UnitNum(u) - 1
    BY UnitsExist
  <1>3. Emptied
    BY <1>1, <1>2 DEF Init, Emptied
  <1> QED
    BY <1>3, EmptiedHolds

(* commit retires finished entries from the front.                          *)
LEMMA RetireNumIs ==
    ASSUME TypeInv
    PROVE  /\ RetireNum \in Retirable /\ RetireNum \in 0 .. Len(rob)
           /\ \A k \in 1 .. RetireNum : rob[k].done = "ok"
  <1>1. CommitWidth \in Nat /\ Len(rob) \in Nat
    BY IssueSizesAssumption DEF TypeInv
  <1>2. Retirable \subseteq 0 .. CommitWidth
    BY DEF Retirable
  <1>3. 0 \in Retirable
    BY <1>1 DEF Retirable
  <1>4. \E n \in Retirable : \A m \in Retirable : m <= n
    BY <1>1, <1>2, <1>3, Greatest
  <1>5. RetireNum \in Retirable
    BY <1>4 DEF RetireNum
  <1> QED
    BY <1>1, <1>5 DEF Retirable

(* A flush leaves an empty pipeline.                                        *)
LEMMA FlushHolds ==
    ASSUME IssueInv, NEW n \in FlushPoints, Flush(n)
    PROVE  Emptied'
  <1>0. TypeInv /\ RegsOK(rob, arf) /\ rob \in Seq(Entry) /\ arf \in [Arch -> Phy] /\ Len(rob) \in Nat
    BY DEF IssueInv, TypeInv, RegsInv
  <1>1. n \in 0 .. Len(rob)
    <2>1. CASE n = RetireNum
      BY <1>0, <2>1, RetireNumIs
    <2>2. CASE n # RetireNum
      <3>1. n = 0 \/ n \in Retirable
        BY <2>2 DEF FlushPoints
      <3> QED
        BY <1>0, <3>1 DEF Retirable
    <2> QED
      BY <2>1, <2>2
  <1>2. arf' = [a \in Arch |-> Last(arf, rob, a, n)]
    <2>1. n \in Nat
      BY <1>1
    <2>2. \A a \in Arch : MapAfter(RobOps(n), a) = Last(arf, rob, a, n)
      BY <2>1, MapIsLast
    <2>3. arf' = [a \in Arch |-> MapAfter(RobOps(n), a)]
      BY DEF Flush, ArfAfter
    <2> QED
      BY <2>2, <2>3
  <1>3. arf' \in [Arch -> Phy]
    <2>1. \A a \in Arch : Last(arf, rob, a, n) \in Phy
      BY <1>0, <1>1, LastTyped
    <2> QED
      BY <1>2, <2>1
  <1>4. \A a, b \in Arch : arf'[a] = arf'[b] => a = b
    BY <1>0, <1>1, <1>2, LastInjective
  <1>5. stored' \in Nat
    <2>1. IsFiniteSet({k \in 1 .. n : rob[k].op.kind = "store"})
      <3>1. IsFiniteSet(1 .. n)
        BY <1>1, FS_Interval
      <3> QED
        BY <3>1, FS_Subset
    <2>2. StoresIn(n) \in Nat
      BY <2>1, FS_CardinalityType DEF StoresIn
    <2>3. stored \in Nat
      BY <1>0 DEF TypeInv
    <2> QED
      BY <2>2, <2>3 DEF Flush
  <1>6. units' = [u \in Unit |-> [i \in 0 .. UnitNum(u) - 1 |-> None]]
    <2>1. \A u \in Unit : DOMAIN units[u] = 0 .. UnitNum(u) - 1
      BY <1>0 DEF TypeInv
    <2>2. units' = [u \in Unit |-> [i \in DOMAIN units[u] |-> None]]
      BY DEF Flush
    <2> QED
      BY <2>1, <2>2
  <1>7. feedback' \in [retire : {0}, next_handle_rob_id : RobId] /\ execute_feedback' = {} /\ wb_feedback' = {}
    <2>1. step = "back" /\ UNCHANGED <<feedback, execute_feedback, wb_feedback>>
      BY DEF Flush
    <2>2. feedback \in [retire : Nat, next_handle_rob_id : RobId]
      BY <1>0 DEF TypeInv
    <2>3. feedback.retire = 0 /\ execute_feedback = {} /\ wb_feedback = {}
      BY <2>1 DEF IssueInv, PassInv
    <2>4. feedback \in [retire : {0}, next_handle_rob_id : RobId]
      BY <2>2, <2>3
    <2> QED
      BY <2>1, <2>3, <2>4
  <1>8. /\ step' = "back" /\ last_index' \in Nat /\ inst_waiting_rob_id' \in RobId
        /\ DOMAIN unit_index' = Unit /\ (\A u \in Unit : unit_index'[u] \in 0 .. UnitNum(u) - 1)
    BY <1>0 DEF Flush, TypeInv
  <1>9. /\ rob' = << >> /\ new_id' = 0 /\ data_valid' = {arf'[a] : a \in Arch}
        /\ rename_readreg' = << >> /\ readreg_issue' = << >>
        /\ busy' = FALSE /\ is_inst_waiting' = FALSE /\ issue_q' = << >>
        /\ held' = None /\ execute_wb' = {} /\ wb_commit' = {}
    BY DEF Flush
  <1> QED
    BY <1>3, <1>4, <1>5, <1>6, <1>7, <1>8, <1>9 DEF Emptied

(* So it keeps the invariant.                                               *)
LEMMA FlushKeeps ==
    ASSUME IssueInv, NEW n \in FlushPoints, Flush(n)
    PROVE  IssueInv'
  BY FlushHolds, EmptiedHolds, PTL

(* rm is rb with the results of wbc entered.                                *)
Finished(rb, wbc, rm) ==
    /\ Len(rm) = Len(rb)
    /\ \A k \in 1 .. Len(rb) : rm[k].op = rb[k].op
    /\ \A k \in 1 .. Len(rb) : rb[k].op \in OpsOf(wbc) =>
          /\ rm[k].done # "no"
          /\ rm[k].done = "ok" <=> \A r \in wbc : r.op = rb[k].op => ~ r.fault
    /\ \A k \in 1 .. Len(rb) : rb[k].op \notin OpsOf(wbc) => rm[k].done = rb[k].done

(* commit enters the results of wb in the ROB.                              *)
LEMMA MarkedIs ==
    ASSUME IssueInv
    PROVE  Marked \in Seq(Entry) /\ Finished(rob, wb_commit, Marked)
  <1>0. /\ rob \in Seq(Entry) /\ Len(rob) \in Nat /\ Len(rob) <= RobSize /\ IdsOK(rob, new_id)
        /\ wb_commit \in SUBSET Result /\ OpsOf(wb_commit) \subseteq Open(rob)
    BY DEF IssueInv, TypeInv, IdsInv, PlaceInv, PlaceOK
  <1>1. ASSUME NEW k \in 1 .. Len(rob), NEW r \in wb_commit, r.op.id = rob[k].op.id
        PROVE  r.op = rob[k].op
    <2>1. r.op \in Open(rob)
      BY <1>0 DEF OpsOf
    <2>2. PICK j \in 1 .. Len(rob) : r.op = rob[j].op
      BY <2>1 DEF Open
    <2>3. j = k
      BY <1>0, <1>1, <2>2, IdsDiffer
    <2> QED
      BY <2>2, <2>3
  <1> DEFINE m == Marked
             done(k) == IF \E r \in wb_commit : r.op.id = rob[k].op.id /\ r.fault THEN "fault" ELSE "ok"
  <1>2. m = [k \in 1 .. Len(rob) |-> IF \E r \in wb_commit : r.op.id = rob[k].op.id
                                      THEN [rob[k] EXCEPT !.done = done(k)] ELSE rob[k]]
    BY DEF Marked
  <1> HIDE DEF m
  <1>3. \A k \in 1 .. Len(rob) : rob[k] \in Entry
    BY <1>0, EntryTypes
  <1>4. ASSUME NEW k \in 1 .. Len(rob), \E r \in wb_commit : r.op.id = rob[k].op.id
        PROVE  /\ m[k] \in Entry /\ m[k].op = rob[k].op /\ rob[k].op \in OpsOf(wb_commit)
               /\ m[k].done # "no"
               /\ m[k].done = "ok" <=> \A r \in wb_commit : r.op = rob[k].op => ~ r.fault
    <2>1. PICK d : d = done(k)
      OBVIOUS
    <2>2. m[k] = [rob[k] EXCEPT !.done = d]
      BY <1>2, <1>4, <2>1
    <2>3. d \in {"ok", "fault"}
      BY <2>1
    <2>4. m[k] \in Entry /\ m[k].op = rob[k].op /\ m[k].done = d
      BY <1>3, <2>2, <2>3 DEF Entry
    <2>5. rob[k].op \in OpsOf(wb_commit)
      BY <1>1, <1>4 DEF OpsOf
    <2>6. d = "ok" <=> \A r \in wb_commit : r.op = rob[k].op => ~ r.fault
      <3>1. d = "ok" <=> ~ \E r \in wb_commit : r.op.id = rob[k].op.id /\ r.fault
        BY <2>1
      <3> QED
        BY <1>1, <3>1
    <2> QED
      BY <2>3, <2>4, <2>5, <2>6
  <1>5. ASSUME NEW k \in 1 .. Len(rob), ~ \E r \in wb_commit : r.op.id = rob[k].op.id
        PROVE  m[k] = rob[k] /\ m[k] \in Entry /\ rob[k].op \notin OpsOf(wb_commit)
    <2>1. m[k] = rob[k]
      BY <1>2, <1>5
    <2> QED
      BY <1>3, <1>5, <2>1 DEF OpsOf
  <1>6. m \in [1 .. Len(rob) -> Entry]
    BY <1>2, <1>4, <1>5
  <1>7. m \in Seq(Entry) /\ Len(m) = Len(rob)
    BY <1>0, <1>6
  <1>8. Finished(rob, wb_commit, m)
    BY <1>4, <1>5, <1>7 DEF Finished
  <1> QED
    BY <1>7, <1>8 DEF m

(* Those entries are finished then.                                         *)
LEMMA OpenFinished ==
    ASSUME NEW rb \in Seq(Entry), Len(rb) <= RobSize, NEW next, IdsOK(rb, next),
           NEW wbc, NEW rm, Finished(rb, wbc, rm), OpsOf(wbc) \subseteq Open(rb)
    PROVE  /\ Open(rm) = Open(rb) \ OpsOf(wbc)
           /\ \A k \in 1 .. Len(rb) : rb[k].done = "ok" => rm[k].done = "ok"
  <1>a. /\ Len(rm) = Len(rb)
        /\ \A k \in 1 .. Len(rb) : rm[k].op = rb[k].op
        /\ \A k \in 1 .. Len(rb) : rb[k].op \in OpsOf(wbc) => rm[k].done # "no"
        /\ \A k \in 1 .. Len(rb) : rb[k].op \notin OpsOf(wbc) => rm[k].done = rb[k].done
    BY DEF Finished
  <1>b. \A j, k \in 1 .. Len(rb) : rb[j].op = rb[k].op => j = k
    BY IdsDiffer
  <1>c. ASSUME NEW k \in 1 .. Len(rb), rb[k].op \in OpsOf(wbc) PROVE rb[k].done = "no"
    <2>1. PICK j \in 1 .. Len(rb) : rb[j].done = "no" /\ rb[k].op = rb[j].op
      BY <1>c DEF Open
    <2> QED
      BY <1>b, <2>1
  <1>1. ASSUME NEW o \in Open(rm) PROVE o \in Open(rb) \ OpsOf(wbc)
    <2>1. PICK k \in 1 .. Len(rm) : rm[k].done = "no" /\ o = rm[k].op
      BY DEF Open
    <2> QED
      BY <1>a, <2>1 DEF Open
  <1>2. ASSUME NEW o \in Open(rb) \ OpsOf(wbc) PROVE o \in Open(rm)
    <2>1. PICK k \in 1 .. Len(rb) : rb[k].done = "no" /\ o = rb[k].op
      BY DEF Open
    <2> QED
      BY <1>a, <2>1 DEF Open
  <1>3. \A k \in 1 .. Len(rb) : rb[k].done = "ok" => rm[k].done = "ok"
    BY <1>a, <1>c
  <1> QED
    BY <1>1, <1>2, <1>3

(* Entering results changes neither order nor registers.                    *)
LEMMA SameOps ==
    ASSUME NEW rb \in Seq(Entry), NEW rm, Len(rm) = Len(rb),
           \A k \in 1 .. Len(rb) : rm[k].op = rb[k].op
    PROVE  /\ \A next : IdsOK(rb, next) => IdsOK(rm, next)
           /\ \A f : RegsOK(rb, f) => RegsOK(rm, f)
           /\ \A f : Owned(rm, f) = Owned(rb, f)
           /\ \A x, y : Precedes(rb, x, y) => Precedes(rm, x, y)
           /\ \A line : LineOK(rb, line) => LineOK(rm, line)
           /\ \A lined : BarrierOK(rb, lined) => BarrierOK(rm, lined)
           /\ \A lined : LsuOK(rb, lined) => LsuOK(rm, lined)
  <1>1. \A next : IdsOK(rb, next) => IdsOK(rm, next)
    BY DEF IdsOK
  <1>2. ASSUME NEW f, RegsOK(rb, f) PROVE RegsOK(rm, f)
    <2>1. ASSUME NEW k \in 1 .. Len(rm), NEW p \in rm[k].op.srcs
          PROVE  \E a \in Arch : p = Last(f, rm, a, k - 1)
      <3>1. PICK a \in Arch : p = Last(f, rb, a, k - 1)
        BY <1>2 DEF RegsOK
      <3>2. PICK i \in Nat : i = k - 1
        OBVIOUS
      <3>3. \A x \in 1 .. i : x \in 1 .. Len(rb)
        BY <3>2
      <3>4. \A x \in 1 .. i : rm[x].op.rd = rb[x].op.rd /\ rm[x].op.phy = rb[x].op.phy
        BY <3>3
      <3>5. Last(f, rm, a, i) = Last(f, rb, a, i)
        BY ONLY <3>4, i \in Nat, LastSame
      <3> QED
        BY <3>1, <3>2, <3>5
    <2>2. /\ \A a, b \in Arch : f[a] = f[b] => a = b
          /\ \A k \in 1 .. Len(rm) : rm[k].op.rd = None <=> rm[k].op.phy = None
          /\ \A k \in 1 .. Len(rm) : \A a \in Arch : rm[k].op.phy # f[a]
          /\ \A j, k \in 1 .. Len(rm) : rm[j].op.phy = rm[k].op.phy /\ rm[j].op.phy # None => j = k
          /\ \A k \in 1 .. Len(rm) : rm[k].op.kind = "fence" => rm[k].op.srcs = {}
      BY <1>2 DEF RegsOK
    <2> QED
      BY <2>1, <2>2 DEF RegsOK
  <1>3. ASSUME NEW f PROVE Owned(rm, f) = Owned(rb, f)
    <2>1. {rm[k].op.phy : k \in 1 .. Len(rm)} = {rb[k].op.phy : k \in 1 .. Len(rb)}
      OBVIOUS
    <2> QED
      BY <2>1 DEF Owned
  <1>4. \A x, y : Precedes(rb, x, y) => Precedes(rm, x, y)
    BY DEF Precedes
  <1>5. \A line : LineOK(rb, line) => LineOK(rm, line)
    BY <1>4 DEF LineOK
  <1>6. \A lined : BarrierOK(rb, lined) => BarrierOK(rm, lined)
    BY DEF BarrierOK
  <1>7. \A lined : LsuOK(rb, lined) => LsuOK(rm, lined)
    BY DEF LsuOK
  <1> QED
    BY <1>1, <1>2, <1>3, <1>4, <1>5, <1>6, <1>7

(* When results are entered and new ones come, what is missing is what was  *)
(* missing less what the new ones deliver.                                  *)
MissingCase(rb, f, next, ewb, wbc, new, rm) ==
    /\ rb \in Seq(Entry) /\ Len(rb) <= RobSize /\ IdsOK(rb, next) /\ RegsOK(rb, f)
    /\ Finished(rb, wbc, rm)
    /\ OpsOf(ewb) \subseteq Open(rb) /\ OpsOf(wbc) \subseteq Open(rb) /\ OpsOf(new) \subseteq Open(rb)
    /\ OpsOf(ewb) \cap OpsOf(wbc) = {} /\ OpsOf(new) \cap OpsOf(wbc) = {} /\ OpsOf(new) \cap OpsOf(ewb) = {}
    /\ \A r, s \in wbc : r.op = s.op => r = s
MissingThen(rb, ewb, wbc, new, rm) ==
    /\ Delivered(new) \subseteq Missing(rb, Delivered(ewb \cup wbc))
    /\ Missing(rm, Delivered(new \cup ewb)) = Missing(rb, Delivered(ewb \cup wbc)) \ Delivered(new)

(* The registers without a value after the results have moved one stage on. *)
LEMMA MissingFinished ==
    ASSUME NEW rb, NEW f, NEW next, NEW ewb, NEW wbc, NEW new, NEW rm,
           MissingCase(rb, f, next, ewb, wbc, new, rm)
    PROVE  MissingThen(rb, ewb, wbc, new, rm)
  <1> USE DEF MissingCase
  <1> DEFINE d == Delivered(ewb \cup wbc)
             e == Delivered(new \cup ewb)
  <1>a. /\ Len(rm) = Len(rb)
        /\ \A k \in 1 .. Len(rb) : rm[k].op = rb[k].op
        /\ \A k \in 1 .. Len(rb) : rb[k].op \in OpsOf(wbc) =>
              (rm[k].done = "ok" <=> \A r \in wbc : r.op = rb[k].op => ~ r.fault)
        /\ \A k \in 1 .. Len(rb) : rb[k].op \notin OpsOf(wbc) => rm[k].done = rb[k].done
    BY DEF Finished
  <1>b. \A j, k \in 1 .. Len(rb) : rb[j].op = rb[k].op => j = k
    BY IdsDiffer
  <1>c. \A k \in 1 .. Len(rb) : rb[k].op \in Open(rb) => rb[k].done = "no"
    BY <1>b DEF Open
  <1>d. \A j, k \in 1 .. Len(rb) : rb[j].op.phy = rb[k].op.phy /\ rb[j].op.rd # None => j = k
    BY DEF RegsOK
  <1>1. d = Delivered(ewb) \cup Delivered(wbc) /\ e = Delivered(new) \cup Delivered(ewb)
    BY DeliveredTwo
  <1>2. /\ Delivered(ewb) \cap Delivered(new) = {} /\ Delivered(wbc) \cap Delivered(new) = {}
        /\ Delivered(ewb) \cap Delivered(wbc) = {}
    <2>1. Delivered(ewb) \cap Delivered(new) = {}
      BY DeliveredApart
    <2>2. Delivered(wbc) \cap Delivered(new) = {}
      BY DeliveredApart
    <2>3. Delivered(ewb) \cap Delivered(wbc) = {}
      BY DeliveredApart
    <2> QED
      BY <2>1, <2>2, <2>3
  <1> HIDE DEF d, e
  <1>3. ASSUME NEW p \in Delivered(new) PROVE p \in Missing(rb, d)
    <2>1. PICK k \in 1 .. Len(rb) : rb[k].done = "no" /\ rb[k].op.rd # None /\ p = rb[k].op.phy
      BY DeliveredOpen
    <2>2. p \notin d
      BY <1>1, <1>2
    <2>3. rb[k].done # "ok"
      BY <2>1
    <2> QED
      BY <2>1, <2>2, <2>3 DEF Missing
  <1>4. ASSUME NEW k \in 1 .. Len(rb), rb[k].op.rd # None
        PROVE  (rm[k].done # "ok") <=> (rb[k].done # "ok" /\ rb[k].op.phy \notin Delivered(wbc))
    <2>1. CASE rb[k].op \in OpsOf(wbc)
      <3>1. rb[k].done = "no"
        BY <1>c, <2>1
      <3>2. PICK r \in wbc : r.op = rb[k].op
        BY <2>1 DEF OpsOf
      <3>3. rm[k].done = "ok" <=> ~ r.fault
        BY <1>a, <2>1, <3>2
      <3>4. rb[k].op.phy \in Delivered(wbc) <=> ~ r.fault
        <4>1. ASSUME ~ r.fault PROVE rb[k].op.phy \in Delivered(wbc)
          BY <1>4, <3>2, <4>1, DeliveredIs
        <4>2. ASSUME rb[k].op.phy \in Delivered(wbc) PROVE ~ r.fault
          <5>1. PICK s \in wbc : ~ s.fault /\ s.op.rd # None /\ s.op.phy = rb[k].op.phy
            BY <4>2, DeliveredIs
          <5>2. s.op \in Open(rb)
            BY DEF OpsOf
          <5>3. PICK j \in 1 .. Len(rb) : s.op = rb[j].op
            BY <5>2 DEF Open
          <5>4. j = k
            BY <1>4, <1>d, <5>1, <5>3
          <5>5. s = r
            BY <3>2, <5>3, <5>4
          <5> QED
            BY <5>1, <5>5
        <4> QED
          BY <4>1, <4>2
      <3> QED
        BY <3>1, <3>3, <3>4
    <2>2. CASE rb[k].op \notin OpsOf(wbc)
      <3>1. rb[k].op.phy \notin Delivered(wbc)
        <4>1. SUFFICES ASSUME rb[k].op.phy \in Delivered(wbc) PROVE FALSE
          OBVIOUS
        <4>2. PICK j \in 1 .. Len(rb) : rb[k].op.phy = rb[j].op.phy /\ rb[j].op \in OpsOf(wbc)
          BY <4>1, DeliveredOpen
        <4>3. j = k
          BY <1>4, <1>d, <4>2
        <4> QED
          BY <2>2, <4>2, <4>3
      <3> QED
        BY <1>a, <2>2, <3>1
    <2> QED
      BY <2>1, <2>2
  <1>5. ASSUME NEW p \in Missing(rm, e) PROVE p \in Missing(rb, d) \ Delivered(new)
    <2>1. PICK k \in 1 .. Len(rm) : /\ rm[k].op.rd # None /\ rm[k].done # "ok"
                                    /\ rm[k].op.phy \notin e /\ p = rm[k].op.phy
      BY DEF Missing
    <2>2. k \in 1 .. Len(rb) /\ rm[k].op = rb[k].op
      BY <1>a
    <2>3. rb[k].done # "ok" /\ rb[k].op.phy \notin Delivered(wbc)
      BY <1>4, <2>1, <2>2
    <2>4. p \notin d /\ p \notin Delivered(new)
      BY <1>1, <2>1, <2>2, <2>3
    <2> QED
      BY <2>1, <2>2, <2>3, <2>4 DEF Missing
  <1>6. ASSUME NEW p \in Missing(rb, d) \ Delivered(new) PROVE p \in Missing(rm, e)
    <2>1. PICK k \in 1 .. Len(rb) : /\ rb[k].op.rd # None /\ rb[k].done # "ok"
                                    /\ rb[k].op.phy \notin d /\ p = rb[k].op.phy
      BY DEF Missing
    <2>2. k \in 1 .. Len(rm) /\ rm[k].op = rb[k].op
      BY <1>a
    <2>3. rm[k].done # "ok" /\ p \notin e
      BY <1>1, <1>4, <2>1
    <2> QED
      BY <2>1, <2>2, <2>3 DEF Missing
  <1> QED
    BY <1>3, <1>5, <1>6 DEF d, e, MissingThen

(* What the units finish in a pass.                                         *)
Worked(bad) ==
    SlotOps("alu") \cup SlotOps("bru") \cup SlotOps("csr") \cup SlotOps("div") \cup SlotOps("mul")
      \cup (LsuWork \ LsuHolds(bad))

(* One result for each instruction.                                         *)
LEMMA OpsOfResults ==
    ASSUME NEW ops, NEW bad
    PROVE  /\ OpsOf(Results(ops, bad)) = ops
           /\ \A r, s \in Results(ops, bad) : r.op = s.op => r = s
  <1>1. OpsOf(Results(ops, bad)) = ops
    <2>1. \A r : r \in Results(ops, bad) <=> \E o \in ops : r = [op |-> o, fault |-> o \in bad]
      BY DEF Results
    <2>2. ASSUME NEW o \in ops PROVE o \in OpsOf(Results(ops, bad))
      <3>1. [op |-> o, fault |-> o \in bad] \in Results(ops, bad)
        BY <2>1
      <3>2. [op |-> o, fault |-> o \in bad].op = o
        OBVIOUS
      <3> QED
        BY <3>1, <3>2 DEF OpsOf
    <2>3. ASSUME NEW o \in OpsOf(Results(ops, bad)) PROVE o \in ops
      <3>1. PICK r \in Results(ops, bad) : o = r.op
        BY DEF OpsOf
      <3>2. PICK p \in ops : r = [op |-> p, fault |-> p \in bad]
        BY <2>1
      <3> QED
        BY <3>1, <3>2
    <2> QED
      BY <2>2, <2>3
  <1>2. \A r, s \in Results(ops, bad) : r.op = s.op => r = s
    BY DEF Results
  <1> QED
    BY <1>1, <1>2

(* The six units work on what their ports hold.                             *)
LEMMA ResultsAre ==
    ASSUME SlotInv, NEW bad \in SUBSET Faultable
    PROVE  alu_run(bad) \cup bru_run \cup csr_run(bad) \cup div_run \cup lsu_run(bad) \cup mul_run
           = Results(Worked(bad), bad)
  <1>1. \A u \in Unit : \A o \in SlotOps(u) : op_unit(o.kind) = u
    BY DEF SlotInv
  <1>2. \A o \in bad : op_unit(o.kind) \in {"alu", "csr", "lsu"}
    BY <1>1 DEF Faultable, Unit
  <1>3. \A u \in {"bru", "div", "mul"} : \A o \in SlotOps(u) : o \notin bad
    BY <1>1, <1>2 DEF Unit
  <1>4. \A u \in {"bru", "div", "mul"} : Results(SlotOps(u), {}) = Results(SlotOps(u), bad)
    <2>1. ASSUME NEW u \in {"bru", "div", "mul"} PROVE Results(SlotOps(u), {}) = Results(SlotOps(u), bad)
      <3>1. \A o \in SlotOps(u) : [op |-> o, fault |-> o \in {}] = [op |-> o, fault |-> o \in bad]
        BY <1>3
      <3> QED
        BY <3>1 DEF Results
    <2> QED
      BY <2>1
  <1>5. bru_run = Results(SlotOps("bru"), bad) /\ div_run = Results(SlotOps("div"), bad)
        /\ mul_run = Results(SlotOps("mul"), bad)
    BY <1>4 DEF bru_run, div_run, mul_run
  <1>7. /\ alu_run(bad) = Results(SlotOps("alu"), bad) /\ csr_run(bad) = Results(SlotOps("csr"), bad)
        /\ lsu_run(bad) = Results(LsuWork \ LsuHolds(bad), bad)
    BY DEF alu_run, csr_run, lsu_run
  <1>8. Results(Worked(bad), bad) =
           Results(SlotOps("alu"), bad) \cup Results(SlotOps("bru"), bad) \cup Results(SlotOps("csr"), bad)
             \cup Results(SlotOps("div"), bad) \cup Results(SlotOps("mul"), bad)
             \cup Results(LsuWork \ LsuHolds(bad), bad)
    <2> DEFINE a == SlotOps("alu")
               b == SlotOps("bru")
               c == SlotOps("csr")
               d == SlotOps("div")
               e == SlotOps("mul")
               f == LsuWork \ LsuHolds(bad)
    <2>1. Worked(bad) = a \cup b \cup c \cup d \cup e \cup f
      BY DEF Worked
    <2> HIDE DEF a, b, c, d, e, f
    <2>2. Results(Worked(bad), bad) =
             Results(a, bad) \cup Results(b, bad) \cup Results(c, bad) \cup Results(d, bad)
               \cup Results(e, bad) \cup Results(f, bad)
      BY <2>1 DEF Results
    <2> QED
      BY <2>2 DEF a, b, c, d, e, f
  <1> QED
    BY <1>5, <1>7, <1>8

(* What the ports and the load/store unit hold.                             *)
LEMMA IssuedIs ==
    Issued = SlotOps("alu") \cup SlotOps("bru") \cup SlotOps("csr") \cup SlotOps("div")
               \cup SlotOps("lsu") \cup SlotOps("mul") \cup ({held} \ {None})
  BY DEF Issued, Unit

(* The LSU has one place.                                                   *)
LEMMA OneLsu ==
    ASSUME TypeInv
    PROVE  /\ \A o, p \in SlotOps("lsu") : o = p
           /\ None \notin SlotOps("lsu")
  <1>1. DOMAIN units["lsu"] = 0 .. 0
    <2>1. units["lsu"] \in [0 .. UnitNum("lsu") - 1 -> Op \cup {None}]
      BY UnitsExist DEF TypeInv
    <2> QED
      BY <2>1, UnitsExist
  <1>2. \A i, j \in DOMAIN units["lsu"] : i = j
    BY <1>1
  <1> QED
    BY <1>2 DEF SlotOps

(* What was in the units has been worked on or is still there.              *)
LEMMA WorkSplits ==
    ASSUME IssueInv, NEW bad \in SUBSET Faultable,
           held' = IF LsuHolds(bad) = {} THEN None ELSE CHOOSE o \in LsuHolds(bad) : TRUE,
           units' = [u \in Unit |-> [i \in DOMAIN units[u] |->
                        IF u = "lsu" /\ held # None THEN units[u][i] ELSE None]]
    PROVE  /\ Issued = Worked(bad) \cup Issued' /\ Worked(bad) \cap Issued' = {}
           /\ \A u \in Unit \ {"lsu"} : SlotOps(u)' = {}
           /\ held = None => SlotOps("lsu")' = {}
           /\ held # None => SlotOps("lsu")' = SlotOps("lsu") /\ held' \in {held, None}
           /\ held' # None => held'.kind = "store"
           /\ held' \in Op \cup {None}
           /\ \A o \in Worked(bad) : Lsu(o) =>
                 /\ held # None => o = held /\ Issued' = SlotOps("lsu")
                 /\ held = None => Issued' = {}
  <1>0. TypeInv /\ SlotInv /\ Len(rob) \in Nat /\ Len(rob) <= RobSize /\ IdsOK(rob, new_id)
        /\ held \in Op \cup {None}
    BY DEF IssueInv, TypeInv, IdsInv
  <1>1. \A u \in Unit : DOMAIN units[u] = 0 .. UnitNum(u) - 1
    BY <1>0 DEF TypeInv
  <1>2. \A u \in Unit : SlotOps(u) \subseteq Op /\ None \notin SlotOps(u)
    <2>1. ASSUME NEW u \in Unit PROVE SlotOps(u) \subseteq Op /\ None \notin SlotOps(u)
      <3>1. units[u] \in [0 .. UnitNum(u) - 1 -> Op \cup {None}]
        BY <1>0 DEF TypeInv
      <3>2. \A i \in DOMAIN units[u] : units[u][i] \in Op \cup {None}
        BY <1>1, <3>1
      <3> QED
        BY <3>2 DEF SlotOps
    <2> QED
      BY <2>1
  <1>3. \A u \in Unit \ {"lsu"} : SlotOps(u)' = {}
    BY DEF SlotOps
  <1>4. held = None => SlotOps("lsu")' = {}
    BY UnitsExist DEF SlotOps
  <1>5. held # None => SlotOps("lsu")' = SlotOps("lsu")
    <2>1. ASSUME held # None PROVE SlotOps("lsu")' = SlotOps("lsu")
      <3>1. units'["lsu"] = [i \in DOMAIN units["lsu"] |-> units["lsu"][i]]
        BY <2>1, UnitsExist
      <3> QED
        <4>1. DOMAIN units'["lsu"] = DOMAIN units["lsu"]
          BY <3>1
        <4>2. \A i \in DOMAIN units["lsu"] : units'["lsu"][i] = units["lsu"][i]
          BY <3>1
        <4> QED
          BY <4>1, <4>2 DEF SlotOps
    <2> QED
      BY <2>1
  <1>6. Issued' = SlotOps("lsu")' \cup ({held'} \ {None})
    <2>1. Issued' = (UNION {SlotOps(u)' : u \in Unit}) \cup ({held'} \ {None})
      BY DEF Issued, SlotOps
    <2>2. UNION {SlotOps(u)' : u \in Unit} = SlotOps("lsu")'
      BY <1>3, UnitsExist
    <2> QED
      BY <2>1, <2>2
  <1>7. /\ LsuHolds(bad) \subseteq LsuWork /\ \A o, p \in LsuWork : o = p
        /\ LsuWork \subseteq Op /\ None \notin LsuWork
    BY <1>0, <1>2, OneLsu, UnitsExist DEF LsuHolds, LsuWork
  <1>8. LsuHolds(bad) = {held'} \ {None}
    <2>1. CASE LsuHolds(bad) = {}
      BY <2>1
    <2>2. CASE LsuHolds(bad) # {}
      <3>1. held' \in LsuHolds(bad)
        BY <2>2
      <3> QED
        BY <1>7, <3>1
    <2> QED
      BY <2>1, <2>2
  <1>9. held' # None => held'.kind = "store"
    BY <1>8 DEF LsuHolds
  <1>10. held' \in Op \cup {None}
    BY <1>7, <1>8
  <1>11. held # None => held \notin SlotOps("lsu")
    <2>1. SUFFICES ASSUME held # None, held \in SlotOps("lsu") PROVE FALSE
      OBVIOUS
    <2>2. Precedes(rob, held, held)
      BY <1>0, <2>1 DEF SlotInv
    <2>3. PICK a, b \in 1 .. Len(rob) : a < b /\ rob[a].op = rob[b].op
      BY <2>2 DEF Precedes
    <2>4. a = b
      BY <1>0, <2>3, IdsDiffer
    <2> QED
      BY <2>3, <2>4
  <1>12. /\ \A u \in Unit : \A o \in SlotOps(u) : op_unit(o.kind) = u
         /\ held # None => op_unit(held.kind) = "lsu"
    BY <1>0, UnitsExist DEF SlotInv
  <1>a. /\ "alu" \in Unit /\ "bru" \in Unit /\ "csr" \in Unit /\ "div" \in Unit /\ "lsu" \in Unit /\ "mul" \in Unit
    BY DEF Unit
  <1>u. /\ "alu" # "lsu" /\ "bru" # "lsu" /\ "csr" # "lsu" /\ "div" # "lsu" /\ "mul" # "lsu"
    OBVIOUS
  <1> DEFINE other == SlotOps("alu") \cup SlotOps("bru") \cup SlotOps("csr") \cup SlotOps("div") \cup SlotOps("mul")
  <1>13. \A o \in other : ~ Lsu(o)
    BY <1>12, <1>a, <1>u DEF Lsu
  <1>14. Worked(bad) = other \cup (LsuWork \ LsuHolds(bad))
    BY DEF Worked
  <1>15. Issued = other \cup SlotOps("lsu") \cup ({held} \ {None})
    BY IssuedIs
  <1>16. /\ \A o \in SlotOps("lsu") : Lsu(o)
         /\ held # None => Lsu(held)
    BY <1>12, <1>a DEF Lsu
  <1> HIDE DEF other
  <1>17. CASE held = None
    <2>1. LsuWork = SlotOps("lsu") /\ Issued' = LsuHolds(bad)
      BY <1>4, <1>6, <1>8, <1>17 DEF LsuWork
    <2>2. Issued = Worked(bad) \cup Issued' /\ Worked(bad) \cap Issued' = {}
      BY <1>7, <1>13, <1>14, <1>15, <1>16, <1>17, <2>1
    <2>3. ASSUME NEW o \in Worked(bad), Lsu(o) PROVE Issued' = {}
      BY <1>7, <1>13, <1>14, <2>1, <2>3
    <2> QED
      BY <1>3, <1>4, <1>9, <1>10, <1>17, <2>2, <2>3
  <1>18. CASE held # None
    <2>1. LsuWork = {held} /\ Issued' = SlotOps("lsu") \cup LsuHolds(bad)
      BY <1>5, <1>6, <1>8, <1>18 DEF LsuWork
    <2>2. held' \in {held, None}
      BY <1>7, <1>8, <2>1
    <2>3. Issued = Worked(bad) \cup Issued' /\ Worked(bad) \cap Issued' = {}
      BY <1>7, <1>11, <1>13, <1>14, <1>15, <1>16, <1>18, <2>1
    <2>4. ASSUME NEW o \in Worked(bad), Lsu(o) PROVE o = held /\ Issued' = SlotOps("lsu")
      BY <1>7, <1>13, <1>14, <2>1, <2>4
    <2> QED
      BY <1>3, <1>5, <1>9, <1>10, <1>18, <2>2, <2>3, <2>4
  <1> QED
    BY <1>17, <1>18

(* A step of commit, wb and the units in which bad have exceptions.         *)
BackStep(bad) ==
    /\ IssueInv /\ step = "back" /\ bad \in SUBSET Faultable
    /\ held' = (IF LsuHolds(bad) = {} THEN None ELSE CHOOSE o \in LsuHolds(bad) : TRUE)
    /\ execute_wb' = Results(Worked(bad), bad)
    /\ execute_feedback' = Delivered(execute_wb')
    /\ units' = [u \in Unit |-> [i \in DOMAIN units[u] |->
                   IF u = "lsu" /\ held # None THEN units[u][i] ELSE None]]
    /\ wb_commit' = execute_wb
    /\ wb_feedback' = Delivered(execute_wb)
    /\ rob' = Marked
    /\ feedback' = [retire |-> RetireNum,
                    next_handle_rob_id |-> IF RetireNum < Len(rob) THEN rob[RetireNum + 1].op.id
                                           ELSE new_id]
    /\ step' = "issue"
    /\ UNCHANGED <<new_id, arf, data_valid, stored, busy, last_index, issue_q,
                   is_inst_waiting, inst_waiting_rob_id, unit_index,
                   rename_readreg, readreg_issue>>

(* A back step, with the faults of the pass named.                          *)
LEMMA BackRunIs ==
    ASSUME IssueInv, BackRun
    PROVE  \E bad : BackStep(bad)
  <1> DEFINE results(bad) == alu_run(bad) \cup bru_run \cup csr_run(bad) \cup div_run
                               \cup lsu_run(bad) \cup mul_run
  <1>1. PICK bad \in SUBSET (IF "fault" \in Events THEN Faultable ELSE {}) :
          /\ held' = IF LsuHolds(bad) = {} THEN None ELSE CHOOSE o \in LsuHolds(bad) : TRUE
          /\ execute_wb' = results(bad)
          /\ execute_feedback' = Delivered(results(bad))
    BY DEF BackRun
  <1>2. bad \in SUBSET Faultable
    OBVIOUS
  <1>3. results(bad) = Results(Worked(bad), bad)
    BY <1>2, ResultsAre DEF IssueInv
  <1> HIDE DEF results
  <1>4. BackStep(bad)
    BY <1>1, <1>2, <1>3 DEF BackRun, BackStep
  <1> QED
    BY <1>4

(* What it starts from.                                                     *)
LEMMA BackFacts ==
    ASSUME NEW bad, BackStep(bad)
    PROVE  /\ rob \in Seq(Entry) /\ Len(rob) \in Nat /\ Len(rob) <= RobSize /\ arf \in [Arch -> Phy]
           /\ IdsOK(rob, new_id) /\ RegsOK(rob, arf)
           /\ rob' \in Seq(Entry) /\ Len(rob') = Len(rob)
           /\ \A k \in 1 .. Len(rob) : rob'[k].op = rob[k].op
           /\ Finished(rob, wb_commit, rob')
           /\ OpsOf(execute_wb') = Worked(bad)
           /\ Issued = Worked(bad) \cup Issued' /\ Worked(bad) \cap Issued' = {}
           /\ Lined' = Lined /\ Line' = Line /\ PortFrom' = PortFrom
           /\ PlaceOK(rob, Lined, Issued, execute_wb, wb_commit)
  <1>1. IssueInv /\ rob' = Marked /\ bad \in SUBSET Faultable
        /\ execute_wb' = Results(Worked(bad), bad)
        /\ held' = (IF LsuHolds(bad) = {} THEN None ELSE CHOOSE o \in LsuHolds(bad) : TRUE)
        /\ units' = [u \in Unit |-> [i \in DOMAIN units[u] |->
                       IF u = "lsu" /\ held # None THEN units[u][i] ELSE None]]
    BY DEF BackStep
  <1>2. /\ rob \in Seq(Entry) /\ Len(rob) \in Nat /\ Len(rob) <= RobSize /\ arf \in [Arch -> Phy]
        /\ IdsOK(rob, new_id) /\ RegsOK(rob, arf) /\ PlaceOK(rob, Lined, Issued, execute_wb, wb_commit)
    BY <1>1 DEF IssueInv, TypeInv, IdsInv, RegsInv, PlaceInv
  <1>3. rob' \in Seq(Entry) /\ Finished(rob, wb_commit, rob')
    BY <1>1, MarkedIs
  <1>4. Len(rob') = Len(rob) /\ \A k \in 1 .. Len(rob) : rob'[k].op = rob[k].op
    BY <1>3 DEF Finished
  <1>5. OpsOf(execute_wb') = Worked(bad)
    BY <1>1, OpsOfResults
  <1>6. Issued = Worked(bad) \cup Issued' /\ Worked(bad) \cap Issued' = {}
    BY <1>1, WorkSplits
  <1>7. PortFrom' = PortFrom
    BY DEF BackStep, PortFrom, FirstInput
  <1>8. Line' = Line
    BY <1>7 DEF BackStep, Line, InLine
  <1>9. Lined' = Lined
    BY <1>8 DEF Lined
  <1> QED
    BY <1>2, <1>3, <1>4, <1>5, <1>6, <1>7, <1>8, <1>9

(* Every instruction that leaves a port is in execute_wb afterwards.        *)
LEMMA BackPlaces ==
    ASSUME NEW bad, BackStep(bad)
    PROVE  IdsInv' /\ RegsInv' /\ PlaceInv' /\ SlotInv'
  <1>0. rob \in Seq(Entry) /\ Len(rob') = Len(rob) /\ \A k \in 1 .. Len(rob) : rob'[k].op = rob[k].op
    BY BackFacts
  <1>1. IdsInv'
    <2>1. IdsOK(rob', new_id) /\ new_id' = new_id
      BY <1>0, BackFacts, SameOps DEF BackStep
    <2> QED
      BY <2>1 DEF IdsInv, IdsOK
  <1>2. RegsInv'
    <2>1. RegsOK(rob', arf) /\ arf' = arf
      BY <1>0, BackFacts, SameOps DEF BackStep
    <2>2. RegsOK(rob', arf')
      BY <2>1
    <2> QED
      BY <2>2 DEF RegsInv, RegsOK, Last
  <1>3. LineOK(rob', Line')
    <2>1. LineOK(rob, Line) /\ Line' = Line
      BY BackFacts DEF BackStep, IssueInv, PlaceInv
    <2> QED
      BY <1>0, <2>1, SameOps
  <1>4. PlaceOK(rob', Lined', Issued', execute_wb', wb_commit')
    <2>1. PlaceOK(rob, Lined, Issued, execute_wb, wb_commit)
      BY BackFacts
    <2>2. Open(rob') = Open(rob) \ OpsOf(wb_commit)
      BY <2>1, BackFacts, OpenFinished DEF PlaceOK
    <2>3. /\ OpsOf(execute_wb') = Worked(bad) /\ Lined' = Lined /\ wb_commit' = execute_wb
          /\ Issued = Worked(bad) \cup Issued' /\ Worked(bad) \cap Issued' = {}
      BY BackFacts DEF BackStep
    <2>4. \A r, s \in execute_wb' : r.op = s.op => r = s
      BY OpsOfResults DEF BackStep
    <2> QED
      BY <2>1, <2>2, <2>3, <2>4 DEF PlaceOK
  <1>5. PlaceInv'
    BY <1>3, <1>4 DEF PlaceInv, PlaceOK, LineOK, Open, OpsOf, Precedes
  <1>6. /\ IssueInv /\ bad \in SUBSET Faultable
        /\ held' = (IF LsuHolds(bad) = {} THEN None ELSE CHOOSE o \in LsuHolds(bad) : TRUE)
        /\ units' = [u \in Unit |-> [i \in DOMAIN units[u] |->
                       IF u = "lsu" /\ held # None THEN units[u][i] ELSE None]]
    BY DEF BackStep
  <1>7. /\ \A u \in Unit \ {"lsu"} : SlotOps(u)' = {}
        /\ held = None => SlotOps("lsu")' = {}
        /\ held # None => SlotOps("lsu")' = SlotOps("lsu") /\ held' \in {held, None}
        /\ held' # None => held'.kind = "store"
    BY <1>6, WorkSplits
  <1>8. /\ \A u \in Unit : \A o \in SlotOps(u) : op_unit(o.kind) = u
        /\ held # None => \A o \in SlotOps("lsu") : Precedes(rob, held, o)
    BY <1>6 DEF IssueInv, SlotInv
  <1>9. \A u \in Unit : \A o \in SlotOps(u)' : op_unit(o.kind) = u
    BY <1>7, <1>8, UnitsExist
  <1>10. ASSUME held' # None, NEW o \in SlotOps("lsu")' PROVE Precedes(rob', held', o)
    <2>1. held # None /\ o \in SlotOps("lsu") /\ held' = held
      BY <1>7, <1>10
    <2>2. Precedes(rob, held, o)
      BY <1>8, <2>1
    <2>3. Precedes(rob', held, o)
      BY <1>0, <2>2, SameOps
    <2> QED
      BY <2>1, <2>3
  <1>11. SlotInv'
    BY <1>7, <1>9, <1>10 DEF SlotInv, Precedes
  <1> QED
    BY <1>1, <1>2, <1>5, <1>11

(* The registers execute delivers are exactly those that stop missing.      *)
LEMMA BackMissing ==
    ASSUME NEW bad, BackStep(bad)
    PROVE  /\ Delivered(execute_wb') \subseteq Undelivered
           /\ Undelivered' = Undelivered \ Delivered(execute_wb')
  <1>1. PlaceOK(rob, Lined, Issued, execute_wb, wb_commit) /\ wb_commit' = execute_wb
        /\ OpsOf(execute_wb') \subseteq Issued
    BY BackFacts DEF BackStep
  <1>2. MissingCase(rob, arf, new_id, execute_wb, wb_commit, execute_wb', rob')
    BY <1>1, BackFacts DEF MissingCase, PlaceOK
  <1>3. MissingThen(rob, execute_wb, wb_commit, execute_wb', rob')
    BY <1>2, MissingFinished
  <1>4. Undelivered = Missing(rob, Delivered(execute_wb \cup wb_commit))
    BY UndeliveredIs
  <1>5. Undelivered' = Missing(rob', Delivered(execute_wb' \cup execute_wb))
    BY <1>1 DEF Undelivered, Missing, Delivered
  <1> QED
    BY <1>3, <1>4, <1>5 DEF MissingThen

(* Valid bits and wake-up flags stay exact.                                 *)
LEMMA BackOperands ==
    ASSUME NEW bad, BackStep(bad)
    PROVE  BitsInv' /\ OperandInv'
  <1> DEFINE N == Delivered(execute_wb')
  <1>0. /\ N \subseteq Undelivered /\ Undelivered' = Undelivered \ N /\ execute_feedback' = N
    BY BackMissing DEF BackStep
  <1> HIDE DEF N
  <1>1. BitsInv'
    <2>1. Owned(rob, arf)' = Owned(rob, arf)
      <3>1. Owned(rob', arf) = Owned(rob, arf) /\ arf' = arf
        BY BackFacts, SameOps DEF BackStep
      <3> QED
        BY <3>1 DEF Owned
    <2>2. data_valid = Owned(rob, arf) \ (Undelivered \cup Delivered(execute_wb)) /\ data_valid' = data_valid
      BY DEF BackStep, IssueInv, BitsInv, Late
    <2>3. Late' = N \cup Delivered(execute_wb)
      <3>1. Late' = Delivered(execute_wb' \cup execute_wb)
        BY DEF BackStep, Late, Delivered
      <3> QED
        BY <3>1, DeliveredTwo DEF N
    <2> QED
      BY <1>0, <2>1, <2>2, <2>3 DEF BitsInv
  <1>2. ASSUME NEW k \in 1 .. Len(issue_q)
        PROVE  issue_q[k].waiting = issue_q[k].op.srcs \cap (Undelivered' \cup execute_feedback')
    <2>1. issue_q[k].waiting = issue_q[k].op.srcs \cap Undelivered
      BY DEF BackStep, IssueInv, OperandInv
    <2> QED
      BY <1>0, <2>1
  <1>3. ASSUME NEW k \in PortFrom + 1 .. Len(readreg_issue)
        PROVE  /\ readreg_issue[k].op.srcs \cap Undelivered' \subseteq readreg_issue[k].waiting
               /\ readreg_issue[k].waiting \subseteq readreg_issue[k].op.srcs
    <2>1. /\ readreg_issue[k].op.srcs \cap Undelivered \subseteq readreg_issue[k].waiting
          /\ readreg_issue[k].waiting \subseteq readreg_issue[k].op.srcs
      BY DEF BackStep, IssueInv, OperandInv
    <2> QED
      BY <1>0, <2>1
  <1>4. ASSUME NEW op \in Issued' \cup Executed' PROVE op.srcs \cap Undelivered' = {}
    <2>1. Executed' = OpsOf(execute_wb') \cup OpsOf(execute_wb)
      <3>1. wb_commit' = execute_wb
        BY DEF BackStep
      <3> QED
        BY <3>1 DEF Executed, OpsOf
    <2>2. op \in Issued \cup Executed
      BY <2>1, BackFacts, ExecutedIs
    <2>3. op.srcs \cap Undelivered = {}
      BY <2>2 DEF BackStep, IssueInv, OperandInv
    <2> QED
      BY <1>0, <2>3
  <1>5. /\ issue_q' = issue_q /\ readreg_issue' = readreg_issue /\ PortFrom' = PortFrom /\ step' = "issue"
    BY BackFacts DEF BackStep
  <1>6. OperandInv'
    BY <1>2, <1>3, <1>4, <1>5 DEF OperandInv
  <1> QED
    BY <1>1, <1>6

(* The values of a function with a finite domain are as many, if it repeats *)
(* none.                                                                    *)
LEMMA ImageFinite ==
    ASSUME NEW S, IsFiniteSet(S), NEW f, f = [x \in S |-> f[x]]
    PROVE  /\ IsFiniteSet({f[x] : x \in S})
           /\ (\A x, y \in S : f[x] = f[y] => x = y) => Cardinality({f[x] : x \in S}) = Cardinality(S)
  <1> DEFINE T == {f[x] : x \in S}
  <1>1. f \in [S -> T]
    OBVIOUS
  <1>2. f \in Surjection(S, T)
    BY <1>1 DEF Surjection
  <1> HIDE DEF T
  <1>3. ASSUME \A x, y \in S : f[x] = f[y] => x = y
        PROVE  f \in Injection(S, T)
    BY <1>1, <1>3 DEF Injection, IsInjective
  <1>4. IsFiniteSet(T) /\ (Cardinality(T) = Cardinality(S) <=> f \in Injection(S, T))
    BY <1>2, FS_Surjection
  <1> QED
    BY <1>3, <1>4 DEF T

(* The unfinished instructions are finitely many.                           *)
LEMMA OpenFinite ==
    ASSUME NEW rb \in Seq(Entry)
    PROVE  IsFiniteSet(Open(rb)) /\ Open(rb) \subseteq Op
  <1>1. IsFiniteSet(1 .. Len(rb))
    BY FS_Interval
  <1>2. IsFiniteSet({rb[k].op : k \in 1 .. Len(rb)})
    <2> DEFINE f == [k \in 1 .. Len(rb) |-> rb[k].op]
    <2>1. f = [k \in 1 .. Len(rb) |-> f[k]] /\ {f[k] : k \in 1 .. Len(rb)} = {rb[k].op : k \in 1 .. Len(rb)}
      OBVIOUS
    <2> HIDE DEF f
    <2>2. IsFiniteSet({f[k] : k \in 1 .. Len(rb)})
      BY <1>1, <2>1, ImageFinite
    <2> QED
      BY <2>1, <2>2
  <1>3. Open(rb) \subseteq {rb[k].op : k \in 1 .. Len(rb)}
    BY DEF Open
  <1>4. IsFiniteSet(Open(rb))
    BY <1>2, <1>3, FS_Subset
  <1>5. Open(rb) \subseteq Op
    BY EntryTypes DEF Open
  <1> QED
    BY <1>4, <1>5

(* The order of what was sent.                                              *)
LEMMA BackPass ==
    ASSUME NEW bad, BackStep(bad)
    PROVE  PassInv' /\ OrderInv' /\ SentInv'
  <1>0. /\ rob \in Seq(Entry) /\ Len(rob) \in Nat /\ Len(rob) <= RobSize
        /\ Len(rob') = Len(rob) /\ IdsOK(rob, new_id)
        /\ \A k \in 1 .. Len(rob) : rob'[k].op = rob[k].op
        /\ Finished(rob, wb_commit, rob') /\ PlaceOK(rob, Lined, Issued, execute_wb, wb_commit)
        /\ Lined' = Lined
    BY BackFacts
  <1>1. RetireNum \in 0 .. Len(rob) /\ \A k \in 1 .. RetireNum : rob[k].done = "ok"
    BY RetireNumIs DEF BackStep, IssueInv
  <1>2. PICK n \in 0 .. Len(rob) : n = RetireNum
    BY <1>1
  <1>3. /\ feedback'.retire = n
        /\ feedback'.next_handle_rob_id = IF n < Len(rob) THEN rob[n + 1].op.id ELSE new_id
        /\ new_id' = new_id /\ step' = "issue" /\ execute_feedback' = Delivered(execute_wb')
        /\ wb_feedback' = Delivered(execute_wb) /\ wb_commit' = execute_wb
        /\ is_inst_waiting' = is_inst_waiting /\ inst_waiting_rob_id' = inst_waiting_rob_id
        /\ stored' = stored
    BY <1>2 DEF BackStep
  <1>4. ASSUME NEW k \in 1 .. n PROVE rob'[k].done = "ok"
    <2>1. k \in 1 .. Len(rob) /\ rob[k].done = "ok"
      BY <1>0, <1>1, <1>2
    <2>2. OpsOf(wb_commit) \subseteq Open(rob)
      BY <1>0 DEF PlaceOK
    <2> QED
      BY <1>0, <2>1, <2>2, OpenFinished
  <1>5. feedback'.next_handle_rob_id = IF n < Len(rob') THEN rob'[n + 1].op.id ELSE new_id'
    <2>1. n < Len(rob) => n + 1 \in 1 .. Len(rob)
      BY <1>0
    <2> QED
      BY <1>0, <1>3, <2>1
  <1>6. \A u \in Unit \ {"lsu"} : SlotOps(u)' = {}
    BY WorkSplits DEF BackStep
  <1>7. PassInv'
    <2>1. n <= Len(rob')
      BY <1>0
    <2>2. wb_feedback' = Delivered(wb_commit')
      BY <1>3
    <2> QED
      BY <1>3, <1>4, <1>5, <1>6, <2>1, <2>2 DEF PassInv, Delivered
  <1>8. LsuOK(rob', Lined' \cup Issued')
    <2>0. BarrierOK(rob, Lined) /\ LsuOK(rob, Lined) /\ LsuOK(rob, Lined \cup Issued)
      BY DEF BackStep, IssueInv, OrderInv
    <2>1. ASSUME NEW j \in 1 .. Len(rob), NEW k \in 1 .. Len(rob), j < k, Lsu(rob[j].op), Lsu(rob[k].op),
                 rob[j].op \in Lined \cup Issued'
          PROVE  rob[k].op \in Lined \cup Issued'
      <3>1. /\ Issued = Worked(bad) \cup Issued' /\ Worked(bad) \cap Issued' = {} /\ Lined \cap Issued = {}
        BY <1>0, BackFacts DEF PlaceOK
      <3>2. rob[k].op \in Lined \cup Issued
        BY <2>0, <2>1, <3>1 DEF LsuOK
      <3>3. SUFFICES ASSUME rob[k].op \in Worked(bad) PROVE FALSE
        BY <3>1, <3>2
      <3>4. rob[k].op \notin Lined
        BY <3>1, <3>3
      <3>5. rob[j].op \notin Lined
        BY <2>0, <2>1, <3>4 DEF LsuOK
      <3>6. /\ held # None => rob[k].op = held /\ Issued' = SlotOps("lsu")
            /\ held = None => Issued' = {}
        BY <2>1, <3>3, WorkSplits DEF BackStep
      <3>7. held # None /\ rob[k].op = held /\ rob[j].op \in SlotOps("lsu")
        BY <2>1, <3>5, <3>6
      <3>8. Precedes(rob, rob[k].op, rob[j].op)
        BY <3>7 DEF BackStep, IssueInv, SlotInv
      <3>9. PICK a, b \in 1 .. Len(rob) : a < b /\ rob[a].op = rob[k].op /\ rob[b].op = rob[j].op
        BY <3>8 DEF Precedes
      <3>10. a = k /\ b = j
        BY <1>0, <3>9, IdsDiffer
      <3> QED
        BY <2>1, <3>9, <3>10
    <2> QED
      BY <1>0, <2>1 DEF LsuOK
  <1>9. OrderInv'
    <2>1. BarrierOK(rob, Lined) /\ LsuOK(rob, Lined)
      BY DEF BackStep, IssueInv, OrderInv
    <2>2. BarrierOK(rob', Lined') /\ LsuOK(rob', Lined')
      BY <1>0, <2>1, SameOps
    <2> QED
      BY <1>8, <2>2 DEF OrderInv, BarrierOK, LsuOK
  <1>10. /\ SerialOK(rob, Lined, 0, is_inst_waiting, inst_waiting_rob_id)
         /\ FenceOK(rob, Lined, 0, stored)
    BY DEF BackStep, IssueInv, SentInv, PassInv
  <1>11. SerialOK(rob', Lined', n, is_inst_waiting', inst_waiting_rob_id')
    <2>1. ASSUME NEW k \in 1 .. Len(rob), Serial(rob[k].op.kind), rob[k].op \notin Lined
          PROVE  /\ k <= n + 1
                 /\ k > n => /\ is_inst_waiting /\ inst_waiting_rob_id = rob[k].op.id
                             /\ \A j \in k + 1 .. Len(rob) : rob[j].op \in Lined
      <3>1. /\ k <= 0 + 1
            /\ k > 0 => /\ is_inst_waiting /\ inst_waiting_rob_id = rob[k].op.id
                        /\ \A j \in k + 1 .. Len(rob) : rob[j].op \in Lined
        BY <1>10, <2>1 DEF SerialOK
      <3>2. k > 0 /\ k <= n + 1
        BY <3>1
      <3> QED
        BY <3>1, <3>2
    <2>2. \A k \in 1 .. Len(rob) : \A j \in k + 1 .. Len(rob) : j \in 1 .. Len(rob)
      BY <1>0
    <2> QED
      BY <1>0, <1>3, <2>1, <2>2 DEF SerialOK
  <1>12. FenceOK(rob', Lined', n, stored')
    <2>1. ASSUME NEW k \in 1 .. Len(rob), rob[k].op.kind = "fence", rob[k].op \notin Lined
          PROVE  /\ k <= n + 1
                 /\ k > n => stored = 0 /\ \A j \in 1 .. n : rob[j].op.kind # "store"
      <3>1. k <= 0 + 1 /\ (k > 0 => stored = 0)
        BY <1>10, <2>1 DEF FenceOK
      <3>2. k > 0 /\ k <= n + 1 /\ (k > n => n = 0)
        BY <3>1
      <3>3. 1 .. 0 = {}
        OBVIOUS
      <3> QED
        BY <3>1, <3>2, <3>3
    <2>2. \A j \in 1 .. n : j \in 1 .. Len(rob)
      BY <1>0
    <2> QED
      BY <1>0, <1>3, <2>1, <2>2 DEF FenceOK
  <1>13. SentInv'
    BY <1>3, <1>11, <1>12 DEF SentInv, SerialOK, FenceOK
  <1> QED
    BY <1>7, <1>9, <1>13

(* And the types.                                                           *)
LEMMA BackTypes ==
    ASSUME NEW bad, BackStep(bad)
    PROVE  TypeInv'
  <1>0. TypeInv /\ IssueInv /\ bad \in SUBSET Faultable
    BY DEF BackStep, IssueInv
  <1>1. rob' \in Seq(Entry) /\ Len(rob') <= RobSize
    BY BackFacts
  <1>2. feedback' \in [retire : Nat, next_handle_rob_id : RobId]
    <2>1. RetireNum \in 0 .. Len(rob) /\ rob \in Seq(Entry) /\ Len(rob) \in Nat /\ new_id \in RobId
      BY <1>0, RetireNumIs DEF TypeInv
    <2>2. PICK n \in 0 .. Len(rob) : n = RetireNum
      BY <2>1
    <2>3. n < Len(rob) => rob[n + 1].op.id \in RobId
      <3>1. n < Len(rob) => n + 1 \in 1 .. Len(rob)
        BY <2>1
      <3> QED
        BY <2>1, <3>1, EntryTypes
    <2>4. PICK x : x = IF n < Len(rob) THEN rob[n + 1].op.id ELSE new_id
      OBVIOUS
    <2>5. x \in RobId
      BY <2>1, <2>3, <2>4
    <2>6. feedback' = [retire |-> n, next_handle_rob_id |-> x]
      BY <2>2, <2>4 DEF BackStep
    <2> QED
      BY <2>1, <2>5, <2>6
  <1>3. DOMAIN units' = Unit /\ \A u \in Unit : units'[u] \in [0 .. UnitNum(u) - 1 -> Op \cup {None}]
    <2>1. units' = [u \in Unit |-> [i \in DOMAIN units[u] |->
                       IF u = "lsu" /\ held # None THEN units[u][i] ELSE None]]
      BY DEF BackStep
    <2>2. ASSUME NEW u \in Unit PROVE units'[u] \in [0 .. UnitNum(u) - 1 -> Op \cup {None}]
      <3>1. units[u] \in [0 .. UnitNum(u) - 1 -> Op \cup {None}]
        BY <1>0 DEF TypeInv
      <3>2. units'[u] = [i \in 0 .. UnitNum(u) - 1 |-> IF u = "lsu" /\ held # None THEN units[u][i] ELSE None]
        BY <2>1, <3>1
      <3> QED
        BY <3>1, <3>2
    <2> QED
      BY <2>1, <2>2
  <1>4. held' \in Op \cup {None}
    BY <1>0, WorkSplits DEF BackStep
  <1>5. Worked(bad) \subseteq Op /\ IsFiniteSet(Worked(bad))
    <2>1. rob \in Seq(Entry) /\ Worked(bad) \subseteq Open(rob)
      BY BackFacts DEF PlaceOK
    <2>2. IsFiniteSet(Open(rob)) /\ Open(rob) \subseteq Op
      BY <2>1, OpenFinite
    <2> QED
      BY <2>1, <2>2, FS_Subset
  <1>6. execute_wb' \in SUBSET Result /\ IsFiniteSet(execute_wb')
    <2>1. execute_wb' = {[op |-> o, fault |-> o \in bad] : o \in Worked(bad)}
      BY DEF BackStep, Results
    <2>2. IsFiniteSet({[op |-> o, fault |-> o \in bad] : o \in Worked(bad)})
      <3> DEFINE f == [o \in Worked(bad) |-> [op |-> o, fault |-> o \in bad]]
      <3>1. /\ f = [o \in Worked(bad) |-> f[o]]
            /\ {f[o] : o \in Worked(bad)} = {[op |-> o, fault |-> o \in bad] : o \in Worked(bad)}
        OBVIOUS
      <3> HIDE DEF f
      <3>2. IsFiniteSet({f[o] : o \in Worked(bad)})
        BY <1>5, <3>1, ImageFinite
      <3> QED
        BY <3>1, <3>2
    <2>3. \A o \in Worked(bad) : [op |-> o, fault |-> o \in bad] \in Result
      BY <1>5 DEF Result
    <2> QED
      BY <2>1, <2>2, <2>3
  <1>7. \A results \in SUBSET Result : Delivered(results) \in SUBSET (Phy \cup {None})
    <2>1. ASSUME NEW results \in SUBSET Result, NEW p \in Delivered(results) PROVE p \in Phy \cup {None}
      <3>1. PICK r \in results : p = r.op.phy
        BY DeliveredIs
      <3>2. r.op \in Op
        BY DEF Result
      <3> QED
        BY <3>1, <3>2 DEF Op
    <2> QED
      BY <2>1
  <1>8. execute_feedback' \in SUBSET (Phy \cup {None}) /\ wb_feedback' \in SUBSET (Phy \cup {None})
    <2>1. execute_wb \in SUBSET Result
      BY <1>0 DEF TypeInv
    <2>2. execute_feedback' = Delivered(execute_wb') /\ wb_feedback' = Delivered(execute_wb)
      BY DEF BackStep
    <2> QED
      BY <1>6, <1>7, <2>1, <2>2
  <1>9. /\ step' \in {"back", "issue", "front"} /\ wb_commit' = execute_wb
        /\ UNCHANGED <<new_id, arf, data_valid, stored, busy, last_index, issue_q,
                   is_inst_waiting, inst_waiting_rob_id, unit_index, rename_readreg, readreg_issue>>
    BY DEF BackStep
  <1> QED
    BY <1>0, <1>1, <1>2, <1>3, <1>4, <1>6, <1>8, <1>9 DEF TypeInv

(* The back end's step.                                                     *)
LEMMA BackRunKeeps ==
    ASSUME IssueInv, BackRun
    PROVE  IssueInv'
  <1>1. PICK bad : BackStep(bad)
    BY BackRunIs
  <1> QED
    BY <1>1, BackPlaces, BackOperands, BackPass, BackTypes DEF IssueInv

(* Where the two loops of issue::run start.                                 *)
SelectStart == [list |-> << >>, has_lsu_op |-> FALSE, stop |-> FALSE,
                available |-> [u \in Unit |->
                    Cardinality({i \in DOMAIN units[u] : units[u][i] = None})]]
DispatchStart == [units |-> units, index |-> unit_index, stop |-> FALSE,
                  waiting |-> is_inst_waiting /\ ~ OutputEnabled,
                  waiting_id |-> inst_waiting_rob_id]
In(list, k) == \E j \in 1 .. Len(list) : list[j] = k
RestStep(list, r, n) == IF In(list, n) THEN r ELSE Append(r, n)

(* The recursive function of the selection loop exists.                     *)
LEMMA SelectLoopDefined ==
    ASSUME Len(issue_q) \in Nat
    PROVE  SelectLoop = [n \in 0 .. Len(issue_q) |->
                           IF n = 0 THEN SelectStart ELSE SelectStep(SelectLoop[n - 1], n)]
  <1> DEFINE N == Len(issue_q)
             start == SelectStart
             Iterates(g, m) == g = [n \in 0 .. m |-> IF n = 0 THEN start ELSE SelectStep(g[n - 1], n)]
             T == {m \in Nat : \E g : Iterates(g, m)}
  <1>0. SelectLoop = CHOOSE g : Iterates(g, N)
    BY DEF SelectLoop, SelectStart
  <1> HIDE DEF start
  <1>1. 0 \in T
    <2>1. Iterates([n \in 0 .. 0 |-> start], 0)
      OBVIOUS
    <2> QED
      BY <2>1, Zenon
  <1>2. ASSUME NEW m \in Nat, m \in T PROVE m + 1 \in T
    <2>1. PICK g : Iterates(g, m)
      BY <1>2
    <2> DEFINE h == [n \in 0 .. m + 1 |-> IF n <= m THEN g[n] ELSE SelectStep(g[m], m + 1)]
    <2>2. ASSUME NEW n \in 0 .. m + 1
          PROVE  h[n] = IF n = 0 THEN start ELSE SelectStep(h[n - 1], n)
      <3>1. CASE n = 0
        <4>1. g[0] = start
          BY <2>1
        <4> QED
          BY <3>1, <4>1
      <3>2. CASE n # 0 /\ n <= m
        <4>1. g[n] = SelectStep(g[n - 1], n)
          BY <2>1, <3>2
        <4>2. h[n] = g[n] /\ h[n - 1] = g[n - 1]
          BY <3>2
        <4> QED
          BY <3>2, <4>1, <4>2
      <3>3. CASE n = m + 1
        <4>1. h[n - 1] = g[m] /\ n # 0
          BY <3>3
        <4>2. h[n] = SelectStep(g[m], m + 1)
          BY <3>3
        <4> QED
          BY <3>3, <4>1, <4>2
      <3> QED
        BY <3>1, <3>2, <3>3
    <2>3. Iterates(h, m + 1)
      BY <2>2
    <2>4. m + 1 \in Nat
      OBVIOUS
    <2> HIDE DEF h, Iterates
    <2> QED
      BY <2>3, <2>4
  <1>3. N \in T
    <2> HIDE DEF T
    <2> QED
      BY <1>1, <1>2, NatInductionSet
  <1>4. PICK g : Iterates(g, N)
    BY <1>3
  <1> HIDE DEF Iterates
  <1>5. Iterates(SelectLoop, N)
    BY <1>0, <1>4
  <1> QED
    BY <1>5 DEF Iterates, start

(* Each iteration goes on from the one before it.                           *)
LEMMA SelectLoopNext ==
    ASSUME Len(issue_q) \in Nat
    PROVE  /\ SelectLoop[0] = SelectStart
           /\ \A n \in 0 .. Len(issue_q) - 1 : SelectLoop[n + 1] = SelectStep(SelectLoop[n], n + 1)
  <1> DEFINE t == SelectLoop
             start == SelectStart
  <1>1. t = [n \in 0 .. Len(issue_q) |-> IF n = 0 THEN start ELSE SelectStep(t[n - 1], n)]
    BY SelectLoopDefined
  <1> HIDE DEF t, start
  <1>2. t[0] = start
    BY <1>1
  <1>3. ASSUME NEW n \in 0 .. Len(issue_q) - 1 PROVE t[n + 1] = SelectStep(t[n], n + 1)
    <2>1. n + 1 \in 0 .. Len(issue_q) /\ n + 1 # 0 /\ (n + 1) - 1 = n
      OBVIOUS
    <2> QED
      BY <1>1, <2>1
  <1> QED
    BY <1>2, <1>3 DEF t, start

(* The recursive function of the dispatch loop exists.                      *)
LEMMA DispatchLoopDefined ==
    ASSUME NEW list, Len(list) \in Nat
    PROVE  DispatchLoop(list) =
             [n \in 0 .. Len(list) |-> IF n = 0 THEN DispatchStart
                                       ELSE DispatchStep(DispatchLoop(list)[n - 1], list[n])]
  <1> DEFINE N == Len(list)
             start == DispatchStart
             Iterates(g, m) == g = [n \in 0 .. m |-> IF n = 0 THEN start ELSE DispatchStep(g[n - 1], list[n])]
             T == {m \in Nat : \E g : Iterates(g, m)}
  <1>0. DispatchLoop(list) = CHOOSE g : Iterates(g, N)
    BY DEF DispatchLoop, DispatchStart
  <1> HIDE DEF start
  <1>1. 0 \in T
    <2>1. Iterates([n \in 0 .. 0 |-> start], 0)
      OBVIOUS
    <2> QED
      BY <2>1, Zenon
  <1>2. ASSUME NEW m \in Nat, m \in T PROVE m + 1 \in T
    <2>1. PICK g : Iterates(g, m)
      BY <1>2
    <2> DEFINE h == [n \in 0 .. m + 1 |-> IF n <= m THEN g[n] ELSE DispatchStep(g[m], list[m + 1])]
    <2>2. ASSUME NEW n \in 0 .. m + 1
          PROVE  h[n] = IF n = 0 THEN start ELSE DispatchStep(h[n - 1], list[n])
      <3>1. CASE n = 0
        <4>1. g[0] = start
          BY <2>1
        <4> QED
          BY <3>1, <4>1
      <3>2. CASE n # 0 /\ n <= m
        <4>1. g[n] = DispatchStep(g[n - 1], list[n])
          BY <2>1, <3>2
        <4>2. h[n] = g[n] /\ h[n - 1] = g[n - 1]
          BY <3>2
        <4> QED
          BY <3>2, <4>1, <4>2
      <3>3. CASE n = m + 1
        <4>1. h[n - 1] = g[m] /\ n # 0
          BY <3>3
        <4>2. h[n] = DispatchStep(g[m], list[m + 1])
          BY <3>3
        <4> QED
          BY <3>3, <4>1, <4>2
      <3> QED
        BY <3>1, <3>2, <3>3
    <2>3. Iterates(h, m + 1)
      BY <2>2
    <2>4. m + 1 \in Nat
      OBVIOUS
    <2> HIDE DEF h, Iterates
    <2> QED
      BY <2>3, <2>4
  <1>3. N \in T
    <2> HIDE DEF T
    <2> QED
      BY <1>1, <1>2, NatInductionSet
  <1>4. PICK g : Iterates(g, N)
    BY <1>3
  <1> HIDE DEF Iterates
  <1>5. Iterates(DispatchLoop(list), N)
    BY <1>0, <1>4
  <1> QED
    BY <1>5 DEF Iterates, start

(* Each iteration goes on from the one before it.                           *)
LEMMA DispatchLoopNext ==
    ASSUME NEW list, Len(list) \in Nat
    PROVE  /\ DispatchLoop(list)[0] = DispatchStart
           /\ \A n \in 0 .. Len(list) - 1 : DispatchLoop(list)[n + 1] = DispatchStep(DispatchLoop(list)[n], list[n + 1])
  <1> DEFINE t == DispatchLoop(list)
             start == DispatchStart
  <1>1. t = [n \in 0 .. Len(list) |-> IF n = 0 THEN start ELSE DispatchStep(t[n - 1], list[n])]
    BY DispatchLoopDefined
  <1> HIDE DEF t, start
  <1>2. t[0] = start
    BY <1>1
  <1>3. ASSUME NEW n \in 0 .. Len(list) - 1 PROVE t[n + 1] = DispatchStep(t[n], list[n + 1])
    <2>1. n + 1 \in 0 .. Len(list) /\ n + 1 # 0 /\ (n + 1) - 1 = n
      OBVIOUS
    <2> QED
      BY <1>1, <2>1
  <1> QED
    BY <1>2, <1>3 DEF t, start

(* The recursive function that compresses the queue exists.                 *)
LEMMA RemainingDefined ==
    ASSUME NEW list, Len(issue_q) \in Nat
    PROVE  Remaining(list) =
             [n \in 0 .. Len(issue_q) |-> IF n = 0 THEN << >>
                                          ELSE RestStep(list, Remaining(list)[n - 1], n)]
  <1> DEFINE N == Len(issue_q)
             start == << >>
             Iterates(g, m) == g = [n \in 0 .. m |-> IF n = 0 THEN start ELSE RestStep(list, g[n - 1], n)]
             T == {m \in Nat : \E g : Iterates(g, m)}
  <1>0. Remaining(list) = CHOOSE g : Iterates(g, N)
    BY DEF Remaining, RestStep, In
  <1> HIDE DEF start
  <1>1. 0 \in T
    <2>1. Iterates([n \in 0 .. 0 |-> start], 0)
      OBVIOUS
    <2> QED
      BY <2>1, Zenon
  <1>2. ASSUME NEW m \in Nat, m \in T PROVE m + 1 \in T
    <2>1. PICK g : Iterates(g, m)
      BY <1>2
    <2> DEFINE h == [n \in 0 .. m + 1 |-> IF n <= m THEN g[n] ELSE RestStep(list, g[m], m + 1)]
    <2>2. ASSUME NEW n \in 0 .. m + 1
          PROVE  h[n] = IF n = 0 THEN start ELSE RestStep(list, h[n - 1], n)
      <3>1. CASE n = 0
        <4>1. g[0] = start
          BY <2>1
        <4> QED
          BY <3>1, <4>1
      <3>2. CASE n # 0 /\ n <= m
        <4>1. g[n] = RestStep(list, g[n - 1], n)
          BY <2>1, <3>2
        <4>2. h[n] = g[n] /\ h[n - 1] = g[n - 1]
          BY <3>2
        <4> QED
          BY <3>2, <4>1, <4>2
      <3>3. CASE n = m + 1
        <4>1. h[n - 1] = g[m] /\ n # 0
          BY <3>3
        <4>2. h[n] = RestStep(list, g[m], m + 1)
          BY <3>3
        <4> QED
          BY <3>3, <4>1, <4>2
      <3> QED
        BY <3>1, <3>2, <3>3
    <2>3. Iterates(h, m + 1)
      BY <2>2
    <2>4. m + 1 \in Nat
      OBVIOUS
    <2> HIDE DEF h, Iterates
    <2> QED
      BY <2>3, <2>4
  <1>3. N \in T
    <2> HIDE DEF T
    <2> QED
      BY <1>1, <1>2, NatInductionSet
  <1>4. PICK g : Iterates(g, N)
    BY <1>3
  <1> HIDE DEF Iterates
  <1>5. Iterates(Remaining(list), N)
    BY <1>0, <1>4
  <1> QED
    BY <1>5 DEF Iterates, start

(* Each iteration goes on from the one before it.                           *)
LEMMA RemainingNext ==
    ASSUME NEW list, Len(issue_q) \in Nat
    PROVE  /\ Remaining(list)[0] = << >>
           /\ \A n \in 0 .. Len(issue_q) - 1 : Remaining(list)[n + 1] = RestStep(list, Remaining(list)[n], n + 1)
  <1> DEFINE t == Remaining(list)
             start == << >>
  <1>1. t = [n \in 0 .. Len(issue_q) |-> IF n = 0 THEN start ELSE RestStep(list, t[n - 1], n)]
    BY RemainingDefined
  <1> HIDE DEF t, start
  <1>2. t[0] = start
    BY <1>1
  <1>3. ASSUME NEW n \in 0 .. Len(issue_q) - 1 PROVE t[n + 1] = RestStep(list, t[n], n + 1)
    <2>1. n + 1 \in 0 .. Len(issue_q) /\ n + 1 # 0 /\ (n + 1) - 1 = n
      OBVIOUS
    <2> QED
      BY <1>1, <2>1
  <1> QED
    BY <1>2, <1>3 DEF t, start

(* The dispatch of a list goes as that of the list it continues.            *)
LEMMA DispatchSame ==
    ASSUME NEW q, NEW s, Len(q) \in Nat, Len(s) \in Nat,
           NEW n \in Nat, n <= Len(q), n <= Len(s), \A k \in 1 .. n : q[k] = s[k]
    PROVE  DispatchLoop(q)[n] = DispatchLoop(s)[n]
  <1> DEFINE T == {i \in Nat : i <= n => DispatchLoop(q)[i] = DispatchLoop(s)[i]}
  <1>1. 0 \in T
    BY DispatchLoopNext
  <1>2. ASSUME NEW i \in Nat, i \in T PROVE i + 1 \in T
    <2>1. CASE i + 1 <= n
      <3>1. i \in 0 .. Len(q) - 1 /\ i \in 0 .. Len(s) - 1 /\ i <= n /\ i + 1 \in 1 .. n
        BY <2>1
      <3>2. DispatchLoop(q)[i] = DispatchLoop(s)[i] /\ q[i + 1] = s[i + 1]
        BY <1>2, <3>1
      <3>3. DispatchLoop(q)[i + 1] = DispatchStep(DispatchLoop(q)[i], q[i + 1])
        BY <3>1, DispatchLoopNext
      <3>4. DispatchLoop(s)[i + 1] = DispatchStep(DispatchLoop(s)[i], s[i + 1])
        BY <3>1, DispatchLoopNext
      <3> QED
        BY <3>2, <3>3, <3>4
    <2>2. CASE ~ (i + 1 <= n)
      BY <2>2
    <2> QED
      BY <2>1, <2>2
  <1>3. n \in T
    <2> HIDE DEF T
    <2> QED
      BY <1>1, <1>2, NatInductionSet
  <1> QED
    BY <1>3

(* The dispatch loop, one entry more.                                       *)
LEMMA DispatchAppend ==
    /\ Dispatched(<< >>) = DispatchStart
    /\ \A list \in Seq(Nat), k \in Nat :
          Dispatched(Append(list, k)) = DispatchStep(Dispatched(list), k)
  <1>1. Dispatched(<< >>) = DispatchStart
    BY DispatchLoopNext DEF Dispatched
  <1>2. ASSUME NEW list \in Seq(Nat), NEW k \in Nat
        PROVE  Dispatched(Append(list, k)) = DispatchStep(Dispatched(list), k)
    <2>a. Append(list, k) \in Seq(Nat)
      OBVIOUS
    <2>1. PICK s \in Seq(Nat) : s = Append(list, k)
      BY <2>a
    <2>2. PICK n \in Nat : n = Len(list)
      OBVIOUS
    <2>3. Len(s) = n + 1 /\ s[n + 1] = k /\ \A j \in 1 .. n : s[j] = list[j]
      BY <2>1, <2>2
    <2>4. Len(s) \in Nat /\ n \in 0 .. Len(s) - 1 /\ n <= Len(s) /\ n <= Len(list)
      BY <2>2, <2>3
    <2>5. DispatchLoop(s)[n + 1] = DispatchStep(DispatchLoop(s)[n], s[n + 1])
      BY <2>4, DispatchLoopNext
    <2>6. DispatchLoop(s)[n] = DispatchLoop(list)[n]
      BY <2>2, <2>3, <2>4, DispatchSame
    <2> QED
      BY <2>1, <2>2, <2>3, <2>5, <2>6 DEF Dispatched
  <1> QED
    BY <1>1, <1>2

-----------------------------------------------------------------------------
(* r lists the positions up to n that are not in list, in order.            *)
Rest(list, r, n) ==
    /\ r \in Seq(Nat) /\ Len(r) <= n
    /\ \A j \in 1 .. Len(r) : r[j] \in 1 .. n /\ ~ In(list, r[j])
    /\ \A i, j \in 1 .. Len(r) : i < j => r[i] < r[j]
    /\ \A k \in 1 .. n : ~ In(list, k) => In(r, k)

(* One more position of the queue passed over.                              *)
LEMMA RestNext ==
    ASSUME NEW list, NEW n \in Nat, NEW r, Rest(list, r, n)
    PROVE  Rest(list, RestStep(list, r, n + 1), n + 1)
  <1>0. /\ r \in Seq(Nat) /\ Len(r) \in Nat /\ Len(r) <= n
        /\ \A j \in 1 .. Len(r) : r[j] \in 1 .. n /\ ~ In(list, r[j])
        /\ \A i, j \in 1 .. Len(r) : i < j => r[i] < r[j]
        /\ \A k \in 1 .. n : ~ In(list, k) => In(r, k)
    BY DEF Rest
  <1>1. CASE In(list, n + 1)
    <2>1. RestStep(list, r, n + 1) = r
      BY <1>1 DEF RestStep
    <2>2. ASSUME NEW k \in 1 .. n + 1, ~ In(list, k) PROVE In(r, k)
      <3>1. k \in 1 .. n
        BY <1>1, <2>2
      <3> QED
        BY <1>0, <2>2, <3>1
    <2>3. \A j \in 1 .. Len(r) : r[j] \in 1 .. n + 1 /\ ~ In(list, r[j])
      BY <1>0
    <2>4. Len(r) <= n + 1
      BY <1>0
    <2> QED
      BY <1>0, <2>1, <2>2, <2>3, <2>4 DEF Rest
  <1>2. CASE ~ In(list, n + 1)
    <2>b. n + 1 \in Nat /\ Append(r, n + 1) \in Seq(Nat)
      BY <1>0
    <2>1. PICK s \in Seq(Nat) : s = Append(r, n + 1)
      BY <2>b
    <2>2. /\ Len(s) = Len(r) + 1 /\ s[Len(r) + 1] = n + 1 /\ \A j \in 1 .. Len(r) : s[j] = r[j]
          /\ RestStep(list, r, n + 1) = s
      BY <1>0, <1>2, <2>1 DEF RestStep
    <2>a. \A j \in 1 .. Len(s) : j = Len(r) + 1 \/ j \in 1 .. Len(r)
      BY <1>0, <2>2
    <2>3. ASSUME NEW j \in 1 .. Len(s) PROVE s[j] \in 1 .. n + 1 /\ ~ In(list, s[j])
      <3>1. CASE j = Len(r) + 1
        BY <1>2, <2>2, <3>1
      <3>2. CASE j \in 1 .. Len(r)
        <4>1. s[j] = r[j]
          BY <2>2, <3>2
        <4>2. r[j] \in 1 .. n /\ ~ In(list, r[j])
          BY <1>0, <3>2
        <4>3. r[j] \in 1 .. n + 1
          BY <4>2
        <4> QED
          BY <4>1, <4>2, <4>3
      <3> QED
        BY <2>a, <3>1, <3>2
    <2>4. ASSUME NEW i \in 1 .. Len(s), NEW j \in 1 .. Len(s), i < j PROVE s[i] < s[j]
      <3>0. i \in 1 .. Len(r) /\ s[i] = r[i] /\ r[i] \in 1 .. n
        BY <1>0, <2>2, <2>4
      <3>1. CASE j = Len(r) + 1
        BY <2>2, <3>0, <3>1
      <3>2. CASE j \in 1 .. Len(r)
        BY <1>0, <2>2, <2>4, <3>0, <3>2
      <3> QED
        BY <2>a, <3>1, <3>2
    <2>5. ASSUME NEW k \in 1 .. n + 1, ~ In(list, k) PROVE In(s, k)
      <3>1. CASE k = n + 1
        <4>1. Len(r) + 1 \in 1 .. Len(s)
          BY <1>0, <2>2
        <4> QED
          BY <2>2, <3>1, <4>1 DEF In
      <3>2. CASE k # n + 1
        <4>0. k \in 1 .. n
          BY <3>2
        <4>1. PICK j \in 1 .. Len(r) : r[j] = k
          BY <1>0, <2>5, <4>0 DEF In
        <4>2. j \in 1 .. Len(s) /\ s[j] = k
          BY <1>0, <2>2, <4>1
        <4> QED
          BY <4>2 DEF In
      <3> QED
        BY <3>1, <3>2
    <2>6. Len(s) <= n + 1
      BY <1>0, <2>2
    <2> QED
      BY <2>2, <2>3, <2>4, <2>5, <2>6 DEF Rest
  <1> QED
    BY <1>1, <1>2

(* compress keeps the entries that were not listed, in order.               *)
LEMMA RemainingIs ==
    ASSUME NEW list, Len(issue_q) \in Nat
    PROVE  Rest(list, Remaining(list)[Len(issue_q)], Len(issue_q))
  <1> DEFINE N == Len(issue_q)
             T == {n \in Nat : n <= N => Rest(list, Remaining(list)[n], n)}
  <1>1. 0 \in T
    <2>1. Remaining(list)[0] = << >>
      BY RemainingNext
    <2>2. 1 .. 0 = {} /\ << >> \in Seq(Nat) /\ Len(<< >>) = 0
      OBVIOUS
    <2>3. Rest(list, << >>, 0)
      BY <2>2 DEF Rest
    <2> QED
      BY <2>1, <2>3
  <1>2. ASSUME NEW n \in Nat, n \in T PROVE n + 1 \in T
    <2>1. SUFFICES ASSUME n + 1 <= N PROVE Rest(list, Remaining(list)[n + 1], n + 1)
      OBVIOUS
    <2>2. n <= N /\ n \in 0 .. N - 1
      BY <2>1
    <2>3. Rest(list, Remaining(list)[n], n)
      BY <1>2, <2>2
    <2>4. Remaining(list)[n + 1] = RestStep(list, Remaining(list)[n], n + 1)
      BY <2>2, RemainingNext
    <2> QED
      BY <2>3, <2>4, RestNext
  <1>3. N \in T
    <2> HIDE DEF T
    <2> QED
      BY <1>1, <1>2, NatInductionSet
  <1> QED
    BY <1>3

-----------------------------------------------------------------------------
UnitsOK(U) ==
    /\ DOMAIN U = Unit
    /\ \A u \in Unit : U[u] \in [0 .. UnitNum(u) - 1 -> Op \cup {None}]
IndexOK(I) ==
    /\ DOMAIN I = Unit
    /\ \A u \in Unit : I[u] \in 0 .. UnitNum(u) - 1
FreeOf(U, u) == {i \in DOMAIN U[u] : U[u][i] = None}
OpsIn(U, u) == {U[u][i] : i \in DOMAIN U[u]} \ {None}

(* The round-robin search finds a unit that is not full when there is one.  *)
LEMMA FoundIs ==
    ASSUME NEW d, UnitsOK(d.units), IndexOK(d.index), NEW u \in Unit, FreeOf(d.units, u) # {}
    PROVE  FreeUnits(d, u) # {} /\ FoundUnit(d, u) \in FreeOf(d.units, u)
  <1> DEFINE N == UnitNum(u)
             F == FreeUnits(d, u)
             at(j) == (d.index[u] + j) % N
  <1>0. N \in Nat \ {0} /\ d.index[u] \in 0 .. N - 1 /\ DOMAIN d.units[u] = 0 .. N - 1
    BY UnitsExist DEF UnitsOK, IndexOK
  <1>1. F = {j \in 0 .. N - 1 : d.units[u][at(j)] = None}
    BY DEF FreeUnits
  <1>2. FoundUnit(d, u) = at(CHOOSE j \in F : \A i \in F : j <= i)
    BY DEF FoundUnit
  <1>3. PICK x \in 0 .. N - 1 : x = d.index[u]
    BY <1>0
  <1> HIDE DEF N, F
  <1>4. ASSUME NEW j \in 0 .. N - 1
        PROVE  at(j) = (IF x + j < N THEN x + j ELSE x + j - N) /\ at(j) \in 0 .. N - 1
    <2>1. PICK y \in 0 .. 2 * N - 1 : y = x + j
      BY <1>0
    <2>2. y % N = IF y < N THEN y ELSE y - N
      BY <1>0, Lap
    <2>3. at(j) = y % N
      BY <1>3, <2>1
    <2> QED
      BY <1>0, <2>1, <2>2, <2>3
  <1>5. PICK i \in 0 .. N - 1 : d.units[u][i] = None
    BY <1>0 DEF FreeOf
  <1>6. \E j \in 0 .. N - 1 : at(j) = i
    <2>a. (IF x <= i THEN i - x ELSE i - x + N) \in 0 .. N - 1
      BY <1>0
    <2>1. PICK j \in 0 .. N - 1 : j = IF x <= i THEN i - x ELSE i - x + N
      BY <2>a
    <2>2. at(j) = IF x + j < N THEN x + j ELSE x + j - N
      BY <1>4
    <2>3. (IF x + j < N THEN x + j ELSE x + j - N) = i
      BY <1>0, <2>1
    <2> QED
      BY <2>2, <2>3
  <1> HIDE DEF at
  <1>7. F # {} /\ F \subseteq Nat
    BY <1>1, <1>5, <1>6
  <1>8. PICK least \in F : \A k \in F : least <= k
    BY <1>7, Least
  <1>9. PICK m : m = CHOOSE j \in F : \A k \in F : j <= k
    OBVIOUS
  <1>10. m \in F
    BY <1>8, <1>9
  <1>11. at(m) \in 0 .. N - 1 /\ d.units[u][at(m)] = None
    BY <1>1, <1>4, <1>10
  <1>12. at(m) \in FreeOf(d.units, u)
    BY <1>0, <1>11 DEF FreeOf
  <1>13. FoundUnit(d, u) = at(m)
    BY <1>2, <1>9
  <1> QED
    BY <1>7, <1>12, <1>13 DEF F

(* The instructions of a list that go to unit u.                            *)
OpAt(list, j) == issue_q[list[j]].op
SentTo(list, u) == {OpAt(list, j) : j \in {i \in 1 .. Len(list) : op_unit(OpAt(list, i).kind) = u}}

(* d is what the units and the round-robin positions are after the list has *)
(* been sent; available units are free.                                     *)
DispatchedOK(d, list, available) ==
    /\ d = [units |-> d.units, index |-> d.index, stop |-> d.stop, waiting |-> d.waiting,
            waiting_id |-> d.waiting_id]
    /\ UnitsOK(d.units) /\ IndexOK(d.index)
    /\ d.stop \in BOOLEAN /\ d.waiting = d.stop /\ d.waiting_id \in RobId
    /\ \A u \in Unit : Cardinality(FreeOf(d.units, u)) = available[u]
    /\ \A u \in Unit : OpsIn(d.units, u) = SlotOps(u) \cup SentTo(list, u)
    /\ d.stop <=> \E j \in 1 .. Len(list) : Serial(OpAt(list, j).kind)
    /\ \A j \in 1 .. Len(list) : Serial(OpAt(list, j).kind) => d.waiting_id = OpAt(list, j).id

(* The instructions sent to a unit, one more.                               *)
LEMMA SentAppend ==
    ASSUME NEW list \in Seq(Nat), NEW k \in Nat, NEW u
    PROVE  SentTo(Append(list, k), u) =
              SentTo(list, u) \cup (IF op_unit(issue_q[k].op.kind) = u THEN {issue_q[k].op} ELSE {})
  <1>1. PICK n \in Nat : n = Len(list)
    OBVIOUS
  <1>2. PICK s : s = Append(list, k)
    OBVIOUS
  <1>3. Len(s) = n + 1 /\ s[n + 1] = k /\ \A j \in 1 .. n : s[j] = list[j]
    BY <1>1, <1>2
  <1>4. OpAt(s, n + 1) = issue_q[k].op /\ \A j \in 1 .. n : OpAt(s, j) = OpAt(list, j)
    BY <1>3 DEF OpAt
  <1>5. ASSUME NEW o \in SentTo(s, u)
        PROVE  o \in SentTo(list, u) \cup (IF op_unit(issue_q[k].op.kind) = u THEN {issue_q[k].op} ELSE {})
    <2>1. PICK j \in 1 .. Len(s) : op_unit(OpAt(s, j).kind) = u /\ o = OpAt(s, j)
      BY DEF SentTo
    <2>2. CASE j = n + 1
      BY <1>4, <2>1, <2>2
    <2>3. CASE j # n + 1
      <3>1. j \in 1 .. n
        BY <1>3, <2>3
      <3> QED
        BY <1>1, <1>4, <2>1, <3>1 DEF SentTo
    <2> QED
      BY <2>2, <2>3
  <1>6. ASSUME NEW o \in SentTo(list, u) PROVE o \in SentTo(s, u)
    <2>1. PICK j \in 1 .. n : op_unit(OpAt(list, j).kind) = u /\ o = OpAt(list, j)
      BY <1>1 DEF SentTo
    <2>2. j \in 1 .. Len(s) /\ OpAt(s, j) = OpAt(list, j)
      BY <1>3, <1>4
    <2> QED
      BY <2>1, <2>2 DEF SentTo
  <1>7. ASSUME op_unit(issue_q[k].op.kind) = u PROVE issue_q[k].op \in SentTo(s, u)
    <2>1. n + 1 \in 1 .. Len(s)
      BY <1>3
    <2> QED
      BY <1>4, <1>7, <2>1 DEF SentTo
  <1> QED
    BY <1>2, <1>5, <1>6, <1>7

(* Filling the free slot f of unit u.                                       *)
Filled(U, u, f, op, V) == V = [U EXCEPT ![u] = [U[u] EXCEPT ![f] = op]]

(* A port that takes an instruction.                                        *)
LEMMA SlotFilled ==
    ASSUME NEW U, UnitsOK(U), NEW u \in Unit, NEW f \in FreeOf(U, u), NEW op \in Op,
           NEW V, Filled(U, u, f, op, V)
    PROVE  /\ UnitsOK(V)
           /\ \A x \in Unit \ {u} : FreeOf(V, x) = FreeOf(U, x) /\ OpsIn(V, x) = OpsIn(U, x)
           /\ FreeOf(V, u) = FreeOf(U, u) \ {f} /\ OpsIn(V, u) = OpsIn(U, u) \cup {op}
  <1>0. op # None /\ DOMAIN U = Unit /\ U[u] \in [0 .. UnitNum(u) - 1 -> Op \cup {None}]
        /\ f \in DOMAIN U[u] /\ U[u][f] = None
    BY NoneApart DEF UnitsOK, FreeOf
  <1>1. DOMAIN V = Unit /\ V[u] = [U[u] EXCEPT ![f] = op] /\ \A x \in Unit \ {u} : V[x] = U[x]
    BY <1>0 DEF Filled
  <1>2. /\ DOMAIN V[u] = DOMAIN U[u] /\ V[u][f] = op
        /\ \A i \in DOMAIN U[u] : i # f => V[u][i] = U[u][i]
        /\ V[u] \in [0 .. UnitNum(u) - 1 -> Op \cup {None}]
    BY <1>0, <1>1
  <1>3. UnitsOK(V)
    BY <1>1, <1>2 DEF UnitsOK
  <1>4. \A x \in Unit \ {u} : FreeOf(V, x) = FreeOf(U, x) /\ OpsIn(V, x) = OpsIn(U, x)
    BY <1>1 DEF FreeOf, OpsIn
  <1>5. FreeOf(V, u) = FreeOf(U, u) \ {f}
    BY <1>0, <1>2 DEF FreeOf
  <1>6. OpsIn(V, u) = OpsIn(U, u) \cup {op}
    <2>1. ASSUME NEW o \in OpsIn(V, u) PROVE o \in OpsIn(U, u) \cup {op}
      <3>1. PICK i \in DOMAIN V[u] : o = V[u][i] /\ o # None
        BY DEF OpsIn
      <3> QED
        BY <1>2, <3>1 DEF OpsIn
    <2>2. ASSUME NEW o \in OpsIn(U, u) PROVE o \in OpsIn(V, u)
      <3>1. PICK i \in DOMAIN U[u] : o = U[u][i] /\ o # None
        BY DEF OpsIn
      <3>2. i # f
        BY <1>0, <3>1
      <3>3. i \in DOMAIN V[u] /\ o = V[u][i]
        BY <1>2, <3>1, <3>2
      <3> QED
        BY <3>1, <3>3 DEF OpsIn
    <2>3. op \in OpsIn(V, u)
      BY <1>0, <1>2 DEF OpsIn
    <2> QED
      BY <2>1, <2>2, <2>3
  <1> QED
    BY <1>3, <1>4, <1>5, <1>6

(* The fields of an entry of the queue.                                     *)
LEMMA ItemTypes ==
    ASSUME NEW q \in Seq(Item), NEW k \in 1 .. Len(q)
    PROVE  /\ q[k] \in Item /\ q[k].op \in Op /\ q[k].waiting \in SUBSET Phy
           /\ q[k].op.id \in RobId /\ q[k].op.kind \in Kinds /\ q[k].op.srcs \in SUBSET Phy
           /\ op_unit(q[k].op.kind) \in Unit
  <1>1. q[k] \in Item
    OBVIOUS
  <1>2. q[k].op \in Op /\ q[k].waiting \in SUBSET Phy
    BY <1>1 DEF Item
  <1>3. q[k].op.id \in RobId /\ q[k].op.kind \in Kinds /\ q[k].op.srcs \in SUBSET Phy
    BY <1>2 DEF Op
  <1> QED
    BY <1>1, <1>2, <1>3, UnitsExist

(* A selected instruction is sent: the dispatch finds its operands and a    *)
(* unit.                                                                    *)
LEMMA DispatchTaken ==
    ASSUME issue_q \in Seq(Item), NEW d, NEW list \in Seq(Nat), NEW av \in [Unit -> Nat],
           DispatchedOK(d, list, av), ~ d.stop,
           NEW k \in 1 .. Len(issue_q), Ready(issue_q[k]),
           NEW u, u = op_unit(issue_q[k].op.kind), av[u] > 0
    PROVE  DispatchedOK(DispatchStep(d, k), Append(list, k), [av EXCEPT ![u] = @ - 1])
  <1> DEFINE op == issue_q[k].op
             f == FoundUnit(d, u)
             s == Append(list, k)
  <1>0. op \in Op /\ op.id \in RobId /\ u \in Unit
    BY ItemTypes
  <1>1. PICK U, I, x : /\ d = [units |-> U, index |-> I, stop |-> FALSE, waiting |-> FALSE, waiting_id |-> x]
                       /\ UnitsOK(U) /\ IndexOK(I) /\ x \in RobId /\ U = d.units /\ I = d.index
    BY DEF DispatchedOK
  <1>2. /\ \A y \in Unit : Cardinality(FreeOf(U, y)) = av[y]
        /\ \A y \in Unit : OpsIn(U, y) = SlotOps(y) \cup SentTo(list, y)
        /\ \A j \in 1 .. Len(list) : ~ Serial(OpAt(list, j).kind)
    BY <1>1 DEF DispatchedOK
  <1>3. FreeOf(U, u) # {}
    <2>1. Cardinality(FreeOf(U, u)) # 0
      BY <1>0, <1>2
    <2> QED
      BY <2>1, FS_EmptySet
  <1>4. FreeUnits(d, u) # {} /\ f \in FreeOf(U, u)
    BY <1>0, <1>1, <1>3, FoundIs
  <1>5. issue_q[k].waiting \subseteq execute_feedback \cup wb_feedback
    BY DEF Ready
  <1> DEFINE V == [U EXCEPT ![u] = [U[u] EXCEPT ![f] = op]]
             J == [I EXCEPT ![u] = (f + 1) % UnitNum(u)]
             y == IF Serial(op.kind) THEN op.id ELSE x
             e == DispatchStep(d, k)
  <1>6. e = [units |-> V, index |-> J, stop |-> Serial(op.kind), waiting |-> Serial(op.kind), waiting_id |-> y]
    <2> DEFINE w == IF Serial(op.kind) THEN [d EXCEPT !.waiting = TRUE, !.waiting_id = op.id] ELSE d
    <2>1. w = [units |-> U, index |-> I, stop |-> FALSE, waiting |-> Serial(op.kind), waiting_id |-> y]
      <3>1. CASE Serial(op.kind)
        <4>1. Serial(op.kind) = TRUE /\ y = op.id /\ w = [d EXCEPT !.waiting = TRUE, !.waiting_id = op.id]
          BY <3>1
        <4> HIDE DEF w, y, op
        <4> QED
          BY <1>1, <4>1
      <3>2. CASE ~ Serial(op.kind)
        <4>1. Serial(op.kind) = FALSE /\ y = x /\ w = d
          BY <3>2 DEF Serial
        <4> HIDE DEF w, y, op
        <4> QED
          BY <1>1, <4>1
      <3> QED
        BY <3>1, <3>2
    <2>2. e = [w EXCEPT !.units[u][f] = op, !.index[u] = (f + 1) % UnitNum(u), !.stop = w.waiting]
      BY <1>1, <1>4, <1>5 DEF DispatchStep
    <2> HIDE DEF w, e, y, f, op
    <2> QED
      BY <2>1, <2>2
  <1>7. /\ UnitsOK(V)
        /\ \A z \in Unit \ {u} : FreeOf(V, z) = FreeOf(U, z) /\ OpsIn(V, z) = OpsIn(U, z)
        /\ FreeOf(V, u) = FreeOf(U, u) \ {f} /\ OpsIn(V, u) = OpsIn(U, u) \cup {op}
    <2>1. PICK W : W = V
      OBVIOUS
    <2>2. Filled(U, u, f, op, W)
      BY <2>1 DEF Filled
    <2> HIDE DEF f, op, V
    <2>3. /\ UnitsOK(W)
          /\ \A z \in Unit \ {u} : FreeOf(W, z) = FreeOf(U, z) /\ OpsIn(W, z) = OpsIn(U, z)
          /\ FreeOf(W, u) = FreeOf(U, u) \ {f} /\ OpsIn(W, u) = OpsIn(U, u) \cup {op}
      BY ONLY <1>0, <1>1, <1>4, <2>2, SlotFilled
    <2> QED
      BY <2>1, <2>3
  <1>8. IndexOK(J)
    <2>1. UnitNum(u) \in Nat \ {0} /\ f \in 0 .. UnitNum(u) - 1
      BY <1>0, <1>1, <1>4, UnitsExist DEF UnitsOK, FreeOf
    <2> HIDE DEF f
    <2>2. PICK m : m = (f + 1) % UnitNum(u)
      OBVIOUS
    <2>3. m \in 0 .. UnitNum(u) - 1
      BY <2>1, <2>2
    <2>4. J = [I EXCEPT ![u] = m]
      BY <2>2
    <2> HIDE DEF J
    <2> QED
      BY <1>0, <1>1, <2>3, <2>4 DEF IndexOK
  <1>9. ASSUME NEW z \in Unit PROVE Cardinality(FreeOf(V, z)) = [av EXCEPT ![u] = @ - 1][z]
    <2>1. CASE z # u
      BY <1>2, <1>7, <2>1
    <2>2. CASE z = u
      <3>1. IsFiniteSet(FreeOf(U, u))
        <4>1. UnitNum(u) \in Nat \ {0} /\ FreeOf(U, u) \subseteq 0 .. UnitNum(u) - 1
          BY <1>0, <1>1, UnitsExist DEF UnitsOK, FreeOf
        <4>2. IsFiniteSet(0 .. UnitNum(u) - 1)
          BY <4>1, FS_Interval
        <4> QED
          BY <4>1, <4>2, FS_Subset
      <3>2. Cardinality(FreeOf(U, u) \ {f}) = Cardinality(FreeOf(U, u)) - 1
        <4> HIDE DEF f
        <4> QED
          BY <1>4, <3>1, FS_RemoveElement
      <3> QED
        BY <1>0, <1>2, <1>7, <2>2, <3>2
    <2> QED
      BY <2>1, <2>2
  <1>10. ASSUME NEW z \in Unit PROVE OpsIn(V, z) = SlotOps(z) \cup SentTo(s, z)
    <2>1. SentTo(s, z) = SentTo(list, z) \cup (IF u = z THEN {op} ELSE {})
      BY SentAppend
    <2>2. OpsIn(U, z) = SlotOps(z) \cup SentTo(list, z)
      BY <1>2
    <2> HIDE DEF op, s, V
    <2> QED
      BY <1>7, <2>1, <2>2
  <1>11. /\ Len(s) = Len(list) + 1 /\ OpAt(s, Len(list) + 1) = op /\ Len(list) \in Nat
         /\ \A j \in 1 .. Len(list) : OpAt(s, j) = OpAt(list, j)
    BY DEF OpAt
  <1>12. /\ Serial(op.kind) <=> \E j \in 1 .. Len(s) : Serial(OpAt(s, j).kind)
         /\ \A j \in 1 .. Len(s) : Serial(OpAt(s, j).kind) => y = OpAt(s, j).id
    <2>1. \A j \in 1 .. Len(s) : j = Len(list) + 1 \/ j \in 1 .. Len(list)
      BY <1>11
    <2>2. Len(list) + 1 \in 1 .. Len(s)
      BY <1>11
    <2>3. \A j \in 1 .. Len(s) : Serial(OpAt(s, j).kind) => j = Len(list) + 1
      BY <1>2, <1>11, <2>1
    <2> HIDE DEF op, s
    <2> QED
      BY <1>11, <2>2, <2>3
  <1>13. y \in RobId /\ Serial(op.kind) \in BOOLEAN
    BY <1>0, <1>1 DEF Serial
  <1> HIDE DEF e, V, J, y, s, op, f
  <1>14. /\ e.units = V /\ e.index = J /\ e.stop = Serial(op.kind) /\ e.waiting = Serial(op.kind) /\ e.waiting_id = y
         /\ e = [units |-> e.units, index |-> e.index, stop |-> e.stop, waiting |-> e.waiting,
                 waiting_id |-> e.waiting_id]
    BY <1>6
  <1>15. DispatchedOK(e, s, [av EXCEPT ![u] = @ - 1])
    BY <1>7, <1>8, <1>9, <1>10, <1>12, <1>13, <1>14 DEF DispatchedOK
  <1> QED
    BY <1>15 DEF e, s

(* The selection loop takes no further instruction.                         *)
Closed(acc) == acc.stop \/ Len(acc.list) = IssueWidth
KindAt(k) == issue_q[k].op.kind
Selecting == [list : Seq(Nat), available : [Unit -> Nat], has_lsu_op : BOOLEAN, stop : BOOLEAN]

(* What the first n iterations have selected.                               *)
Chosen(acc, n) ==
    \A j \in 1 .. Len(acc.list) :
        /\ acc.list[j] \in 1 .. n /\ Ready(issue_q[acc.list[j]])
        /\ Serial(OpAt(acc.list, j).kind) =>
              acc.stop /\ Len(acc.list) = 1 /\ feedback.next_handle_rob_id = OpAt(acc.list, j).id
        /\ OpAt(acc.list, j).kind = "fence" =>
              StoreBufferEmpty /\ feedback.next_handle_rob_id = OpAt(acc.list, j).id
Ordered(acc, n) ==
    /\ \A i \in 1 .. n : Barrier(KindAt(i)) /\ ~ In(acc.list, i) => Closed(acc)
    /\ \A i, j \in 1 .. n : i < j /\ Barrier(KindAt(i)) /\ ~ In(acc.list, i) => ~ In(acc.list, j)
    /\ \A i \in 1 .. n : Lsu(issue_q[i].op) => acc.has_lsu_op \/ Closed(acc)
    /\ \A i, j \in 1 .. n : i < j /\ Lsu(issue_q[i].op) /\ Lsu(issue_q[j].op) => ~ In(acc.list, j)
SelectOK(acc, n) ==
    /\ acc \in Selecting
    /\ acc.list = << >> => acc.available["alu"] > 0
    /\ Chosen(acc, n) /\ Ordered(acc, n)
    /\ DispatchedOK(Dispatched(acc.list), acc.list, acc.available)

(* Fences read no register.                                                 *)
QueueReady == issue_q \in Seq(Item) /\ \A k \in 1 .. Len(issue_q) : KindAt(k) = "fence" => Ready(issue_q[k])

(* The selection loop takes the entry at position k.                        *)
Takes(acc, k) ==
    /\ Ready(issue_q[k])
    /\ acc.available[op_unit(KindAt(k))] > 0
    /\ ~ (acc.has_lsu_op /\ Lsu(issue_q[k].op))
    /\ ~ FenceTrigger(issue_q[k].op, acc.list = << >>)

(* The four courses of an iteration.                                        *)
LEMMA SelectCases ==
    ASSUME NEW acc \in Selecting, NEW k
    PROVE  LET op == issue_q[k].op
               u == op_unit(op.kind)
               first == acc.list = << >>
               new == SelectStep(acc, k)
           IN  \/ Closed(acc) /\ new = acc
               \/ ~ Closed(acc) /\ SerialTrigger(op, first) /\ new = [acc EXCEPT !.stop = TRUE]
               \/ /\ ~ Closed(acc) /\ ~ SerialTrigger(op, first) /\ ~ Takes(acc, k)
                  /\ new = [list |-> acc.list, available |-> acc.available,
                            has_lsu_op |-> (acc.has_lsu_op \/ Lsu(op)),
                            stop |-> (Serial(op.kind) \/ FenceTrigger(op, first))]
               \/ /\ ~ Closed(acc) /\ ~ SerialTrigger(op, first) /\ Takes(acc, k)
                  /\ new = [list |-> Append(acc.list, k), available |-> [acc.available EXCEPT ![u] = @ - 1],
                            has_lsu_op |-> (acc.has_lsu_op \/ Lsu(op)),
                            stop |-> (Serial(op.kind) \/ FenceTrigger(op, first))]
  <1>1. CASE Closed(acc)
    BY <1>1 DEF Closed, SelectStep
  <1>2. CASE ~ Closed(acc) /\ SerialTrigger(issue_q[k].op, acc.list = << >>)
    BY <1>2 DEF Closed, SelectStep
  <1>3. CASE ~ Closed(acc) /\ ~ SerialTrigger(issue_q[k].op, acc.list = << >>) /\ Takes(acc, k)
    <2>1. SelectStep(acc, k) =
             [list |-> Append(acc.list, k),
              available |-> [acc.available EXCEPT ![op_unit(issue_q[k].op.kind)] = @ - 1],
              has_lsu_op |-> HasLsuOp(acc, issue_q[k].op, TRUE),
              stop |-> Serial(issue_q[k].op.kind) \/ FenceTrigger(issue_q[k].op, acc.list = << >>)]
      BY <1>3 DEF Closed, SelectStep, Takes, KindAt, Lsu, HasLsuOp
    <2> QED
      BY <1>3, <2>1 DEF HasLsuOp, Lsu
  <1>4. CASE ~ Closed(acc) /\ ~ SerialTrigger(issue_q[k].op, acc.list = << >>) /\ ~ Takes(acc, k)
    <2>1. SelectStep(acc, k) =
             [list |-> acc.list, available |-> acc.available,
              has_lsu_op |-> HasLsuOp(acc, issue_q[k].op, FALSE),
              stop |-> Serial(issue_q[k].op.kind) \/ FenceTrigger(issue_q[k].op, acc.list = << >>)]
      BY <1>4 DEF Closed, SelectStep, Takes, KindAt, Lsu, HasLsuOp
    <2> QED
      BY <1>4, <2>1 DEF HasLsuOp, Lsu
  <1> QED
    BY <1>1, <1>2, <1>3, <1>4

(* The list stays as it is: position n + 1 is passed over.                  *)
LEMMA PassedOver ==
    ASSUME NEW n \in Nat, NEW acc, SelectOK(acc, n), NEW new \in Selecting,
           new.list = acc.list, new.available = acc.available, acc.stop => new.stop,
           Barrier(KindAt(n + 1)) => Closed(new),
           Lsu(issue_q[n + 1].op) => new.has_lsu_op \/ Closed(new),
           acc.has_lsu_op => new.has_lsu_op \/ Closed(new)
    PROVE  SelectOK(new, n + 1)
  <1>0. /\ acc.list \in Seq(Nat) /\ Len(acc.list) \in Nat
        /\ Chosen(acc, n) /\ Ordered(acc, n) /\ (Closed(acc) => Closed(new))
    BY DEF SelectOK, Selecting, Closed
  <1>1. ~ In(acc.list, n + 1)
    BY <1>0 DEF Chosen, In
  <1>2. Chosen(new, n + 1)
    <2>1. \A j \in 1 .. Len(acc.list) : acc.list[j] \in 1 .. n + 1
      BY <1>0 DEF Chosen
    <2> QED
      BY <1>0, <2>1 DEF Chosen
  <1>3. \A i \in 1 .. n + 1 : i = n + 1 \/ i \in 1 .. n
    OBVIOUS
  <1>4. ASSUME NEW i \in 1 .. n + 1, Barrier(KindAt(i)), ~ In(new.list, i) PROVE Closed(new)
    BY <1>0, <1>3, <1>4 DEF Ordered
  <1>5. ASSUME NEW i \in 1 .. n + 1, NEW j \in 1 .. n + 1, i < j, Barrier(KindAt(i)), ~ In(new.list, i)
        PROVE  ~ In(new.list, j)
    <2>1. i \in 1 .. n
      BY <1>5
    <2> QED
      BY <1>0, <1>1, <1>3, <1>5, <2>1 DEF Ordered
  <1>6. ASSUME NEW i \in 1 .. n + 1, Lsu(issue_q[i].op) PROVE new.has_lsu_op \/ Closed(new)
    BY <1>0, <1>3, <1>6 DEF Ordered
  <1>7. ASSUME NEW i \in 1 .. n + 1, NEW j \in 1 .. n + 1, i < j, Lsu(issue_q[i].op), Lsu(issue_q[j].op)
        PROVE  ~ In(new.list, j)
    <2>1. i \in 1 .. n
      BY <1>7
    <2> QED
      BY <1>0, <1>1, <1>3, <1>7, <2>1 DEF Ordered
  <1>8. Ordered(new, n + 1)
    BY <1>4, <1>5, <1>6, <1>7 DEF Ordered
  <1> QED
    BY <1>2, <1>8 DEF SelectOK

(* Position n + 1 is taken.                                                 *)
LEMMA TakenNext ==
    ASSUME QueueReady, NEW n \in Nat, n + 1 <= Len(issue_q), NEW acc, SelectOK(acc, n), ~ Closed(acc),
           Takes(acc, n + 1), ~ SerialTrigger(issue_q[n + 1].op, acc.list = << >>),
           NEW new \in Selecting, NEW u, u = op_unit(KindAt(n + 1)),
           new.list = Append(acc.list, n + 1), new.available = [acc.available EXCEPT ![u] = @ - 1],
           new.stop <=> Serial(KindAt(n + 1)), acc.has_lsu_op \/ Lsu(issue_q[n + 1].op) => new.has_lsu_op
    PROVE  SelectOK(new, n + 1)
  <1>0. /\ acc.list \in Seq(Nat) /\ acc.available \in [Unit -> Nat]
        /\ Chosen(acc, n) /\ Ordered(acc, n)
        /\ DispatchedOK(Dispatched(acc.list), acc.list, acc.available)
        /\ issue_q \in Seq(Item) /\ n + 1 \in 1 .. Len(issue_q)
    BY DEF SelectOK, Selecting, QueueReady
  <1>1. PICK m \in Nat : m = Len(acc.list)
    BY <1>0
  <1>2. /\ Len(new.list) = m + 1 /\ new.list[m + 1] = n + 1
        /\ \A j \in 1 .. m : new.list[j] = acc.list[j]
    BY <1>0, <1>1
  <1>3. \A j \in 1 .. m : acc.list[j] \in 1 .. n /\ ~ Serial(OpAt(acc.list, j).kind)
    BY <1>0, <1>1 DEF Chosen, Closed
  <1>4. /\ OpAt(new.list, m + 1) = issue_q[n + 1].op
        /\ \A j \in 1 .. m : OpAt(new.list, j) = OpAt(acc.list, j)
    BY <1>2 DEF OpAt
  <1>5. /\ In(new.list, n + 1)
        /\ \A i \in 1 .. n : In(new.list, i) <=> In(acc.list, i)
    <2>1. In(new.list, n + 1)
      <3>1. m + 1 \in 1 .. Len(new.list)
        BY <1>2
      <3> QED
        BY <1>2, <3>1 DEF In
    <2>2. ASSUME NEW i \in 1 .. n, In(new.list, i) PROVE In(acc.list, i)
      <3>1. PICK j \in 1 .. Len(new.list) : new.list[j] = i
        BY <2>2 DEF In
      <3>2. j \in 1 .. m
        BY <1>2, <3>1
      <3> QED
        BY <1>1, <1>2, <3>1, <3>2 DEF In
    <2>3. ASSUME NEW i \in 1 .. n, In(acc.list, i) PROVE In(new.list, i)
      <3>1. PICK j \in 1 .. m : acc.list[j] = i
        BY <1>1, <2>3 DEF In
      <3>2. j \in 1 .. Len(new.list)
        BY <1>2
      <3> QED
        BY <1>2, <3>1, <3>2 DEF In
    <2> QED
      BY <2>1, <2>2, <2>3
  <1>6. ASSUME NEW j \in 1 .. Len(new.list)
        PROVE  /\ new.list[j] \in 1 .. n + 1 /\ Ready(issue_q[new.list[j]])
               /\ Serial(OpAt(new.list, j).kind) =>
                    /\ new.stop /\ Len(new.list) = 1
                    /\ feedback.next_handle_rob_id = OpAt(new.list, j).id
               /\ OpAt(new.list, j).kind = "fence" =>
                     StoreBufferEmpty /\ feedback.next_handle_rob_id = OpAt(new.list, j).id
    <2>1. CASE j = m + 1
      <3>1. new.list[j] = n + 1 /\ OpAt(new.list, j) = issue_q[n + 1].op /\ n + 1 \in 1 .. n + 1
        BY <1>2, <1>4, <2>1
      <3>2. Ready(issue_q[n + 1]) /\ ~ FenceTrigger(issue_q[n + 1].op, acc.list = << >>)
        BY DEF Takes
      <3>3. ASSUME Serial(KindAt(n + 1))
            PROVE  /\ new.stop /\ Len(new.list) = 1
                   /\ feedback.next_handle_rob_id = issue_q[n + 1].op.id
        <4>1. acc.list = << >> /\ feedback.next_handle_rob_id = issue_q[n + 1].op.id
          BY <3>3 DEF SerialTrigger, KindAt
        <4>2. m = 0
          BY <1>1, <4>1
        <4> QED
          BY <1>2, <3>3, <4>1, <4>2
      <3>4. ASSUME KindAt(n + 1) = "fence"
            PROVE  StoreBufferEmpty /\ feedback.next_handle_rob_id = issue_q[n + 1].op.id
        BY <3>2, <3>4 DEF FenceTrigger, KindAt
      <3> QED
        BY <3>1, <3>2, <3>3, <3>4 DEF KindAt
    <2>2. CASE j # m + 1
      <3>1. j \in 1 .. m
        BY <1>2, <2>2
      <3>2. new.list[j] = acc.list[j] /\ OpAt(new.list, j) = OpAt(acc.list, j) /\ acc.list[j] \in 1 .. n
        BY <1>2, <1>3, <1>4, <3>1
      <3>3. acc.list[j] \in 1 .. n + 1 /\ ~ Serial(OpAt(acc.list, j).kind)
        BY <1>3, <3>1, <3>2
      <3> QED
        BY <1>0, <1>1, <3>1, <3>2, <3>3 DEF Chosen
    <2> QED
      BY <2>1, <2>2
  <1>7. Chosen(new, n + 1)
    BY <1>6 DEF Chosen
  <1>8. \A i \in 1 .. n + 1 : i = n + 1 \/ i \in 1 .. n
    OBVIOUS
  <1>9. \A i \in 1 .. n + 1 : Barrier(KindAt(i)) => In(new.list, i)
    BY <1>0, <1>5, <1>8 DEF Ordered
  <1>10. \A i \in 1 .. n + 1 : Lsu(issue_q[i].op) => new.has_lsu_op
    BY <1>0, <1>8 DEF Ordered
  <1>11. ASSUME NEW i \in 1 .. n + 1, NEW j \in 1 .. n + 1, i < j, Lsu(issue_q[i].op), Lsu(issue_q[j].op)
         PROVE  ~ In(new.list, j)
    <2>1. i \in 1 .. n
      BY <1>11
    <2>2. CASE j = n + 1
      <3>1. acc.has_lsu_op
        BY <1>0, <1>11, <2>1 DEF Ordered
      <3> QED
        BY <1>11, <2>2, <3>1 DEF Takes
    <2>3. CASE j \in 1 .. n
      BY <1>0, <1>5, <1>11, <2>1, <2>3 DEF Ordered
    <2> QED
      BY <1>8, <2>2, <2>3
  <1>12. Ordered(new, n + 1)
    BY <1>9, <1>10, <1>11 DEF Ordered
  <1>13. new.list # << >>
    BY <1>1, <1>2
  <1>14. DispatchedOK(Dispatched(new.list), new.list, new.available)
    <2> DEFINE d == Dispatched(acc.list)
    <2>1. ~ d.stop
      BY <1>0, <1>1, <1>3 DEF DispatchedOK
    <2>2. Dispatched(new.list) = DispatchStep(d, n + 1)
      BY <1>0, DispatchAppend
    <2>3. Ready(issue_q[n + 1]) /\ acc.available[u] > 0
      BY DEF Takes
    <2> HIDE DEF d
    <2>4. u = op_unit(issue_q[n + 1].op.kind)
      BY DEF KindAt
    <2>5. DispatchedOK(d, acc.list, acc.available)
      BY <1>0 DEF d
    <2>6. PICK k \in 1 .. Len(issue_q) : k = n + 1
      BY <1>0
    <2>7. DispatchedOK(DispatchStep(d, k), Append(acc.list, k), [acc.available EXCEPT ![u] = @ - 1])
      BY <1>0, <2>1, <2>3, <2>4, <2>5, <2>6, DispatchTaken
    <2> QED
      BY <2>2, <2>6, <2>7
  <1> QED
    BY <1>7, <1>12, <1>13, <1>14 DEF SelectOK

(* An iteration of the selection loop.                                      *)
LEMMA SelectKeeps ==
    ASSUME QueueReady, NEW n \in Nat, n + 1 <= Len(issue_q), NEW acc, SelectOK(acc, n)
    PROVE  SelectOK(SelectStep(acc, n + 1), n + 1)
  <1> DEFINE op == issue_q[n + 1].op
             u == op_unit(op.kind)
             first == acc.list = << >>
             new == SelectStep(acc, n + 1)
             ends == Serial(op.kind) \/ FenceTrigger(op, first)
             lsu == acc.has_lsu_op \/ Lsu(op)
  <1>0. /\ acc \in Selecting /\ n + 1 \in 1 .. Len(issue_q) /\ issue_q \in Seq(Item)
        /\ (first => acc.available["alu"] > 0)
    BY DEF SelectOK, QueueReady
  <1>1. u \in Unit /\ op.kind \in Kinds
    BY <1>0, ItemTypes
  <1>2. ends \in BOOLEAN /\ lsu \in BOOLEAN
    BY <1>0 DEF Selecting, Serial, FenceTrigger, Lsu
  <1>3. Barrier(op.kind) => ~ Lsu(op)
    BY UnitsExist DEF Barrier, Serial, Lsu
  <1>4. CASE Closed(acc) /\ new = acc
    <2> HIDE DEF new
    <2>9. SelectOK(new, n + 1)
      BY <1>0, <1>4, PassedOver DEF Closed
    <2> QED
      BY <2>9 DEF new
  <1>5. CASE SerialTrigger(op, first) /\ new = [acc EXCEPT !.stop = TRUE]
    <2> HIDE DEF new
    <2>1. /\ new \in Selecting /\ new.list = acc.list /\ new.available = acc.available /\ new.stop = TRUE
      BY <1>0, <1>5 DEF Selecting
    <2>9. SelectOK(new, n + 1)
      BY <2>1, PassedOver DEF Closed
    <2> QED
      BY <2>9 DEF new
  <1>6. CASE /\ ~ Closed(acc) /\ ~ Takes(acc, n + 1)
             /\ new = [list |-> acc.list, available |-> acc.available, has_lsu_op |-> lsu, stop |-> ends]
    <2> HIDE DEF new, ends, lsu
    <2>1. /\ new \in Selecting /\ new.list = acc.list /\ new.available = acc.available
          /\ new.stop = ends /\ new.has_lsu_op = lsu
      BY <1>0, <1>2, <1>6 DEF Selecting
    <2>2. ~ acc.stop
      BY <1>6 DEF Closed
    <2>3. Barrier(KindAt(n + 1)) => ends
      <3>1. SUFFICES ASSUME KindAt(n + 1) = "fence" PROVE FenceTrigger(op, first)
        BY DEF Barrier, KindAt, ends
      <3>2. SUFFICES ASSUME ~ FenceTrigger(op, first) PROVE FALSE
        OBVIOUS
      <3>3. first
        BY <3>1, <3>2 DEF FenceTrigger, KindAt
      <3>4. Ready(issue_q[n + 1])
        BY <1>0, <3>1 DEF QueueReady
      <3>5. op_unit(KindAt(n + 1)) = "alu" /\ ~ Lsu(op)
        BY <1>3, <3>1, UnitsExist DEF Barrier, KindAt
      <3>6. Takes(acc, n + 1)
        BY <1>0, <3>2, <3>3, <3>4, <3>5 DEF Takes
      <3> QED
        BY <1>6, <3>6
    <2>4. (Lsu(issue_q[n + 1].op) => lsu) /\ (acc.has_lsu_op => lsu)
      BY DEF lsu
    <2>9. SelectOK(new, n + 1)
      BY <2>1, <2>2, <2>3, <2>4, PassedOver DEF Closed
    <2> QED
      BY <2>9 DEF new
  <1>7. CASE /\ ~ Closed(acc) /\ ~ SerialTrigger(op, first) /\ Takes(acc, n + 1)
             /\ new = [list |-> Append(acc.list, n + 1), available |-> [acc.available EXCEPT ![u] = @ - 1],
                       has_lsu_op |-> lsu, stop |-> ends]
    <2>0. ~ FenceTrigger(op, first) /\ acc.available[u] > 0
      BY <1>7 DEF Takes, KindAt
    <2>a. (ends <=> Serial(KindAt(n + 1))) /\ (acc.has_lsu_op \/ Lsu(issue_q[n + 1].op) => lsu)
      BY <2>0 DEF KindAt
    <2> HIDE DEF new, ends, lsu
    <2>1. acc.list \in Seq(Nat) /\ acc.available \in [Unit -> Nat]
      BY <1>0 DEF Selecting
    <2>2. Append(acc.list, n + 1) \in Seq(Nat)
      BY <2>1
    <2>3. [acc.available EXCEPT ![u] = @ - 1] \in [Unit -> Nat]
      BY <1>1, <2>0, <2>1
    <2>4. /\ new \in Selecting /\ new.list = Append(acc.list, n + 1)
          /\ new.available = [acc.available EXCEPT ![u] = @ - 1] /\ new.stop = ends /\ new.has_lsu_op = lsu
      BY <1>2, <1>7, <2>2, <2>3 DEF Selecting
    <2>5. u = op_unit(KindAt(n + 1))
      BY DEF KindAt
    <2> HIDE DEF u
    <2>6. /\ new.stop <=> Serial(KindAt(n + 1))
          /\ acc.has_lsu_op \/ Lsu(issue_q[n + 1].op) => new.has_lsu_op
      BY <2>4, <2>a
    <2>9. SelectOK(new, n + 1)
      BY <1>7, <2>4, <2>5, <2>6, TakenNext
    <2> QED
      BY <2>9 DEF new
  <1>8. \/ Closed(acc) /\ new = acc
        \/ ~ Closed(acc) /\ SerialTrigger(op, first) /\ new = [acc EXCEPT !.stop = TRUE]
        \/ /\ ~ Closed(acc) /\ ~ SerialTrigger(op, first) /\ ~ Takes(acc, n + 1)
           /\ new = [list |-> acc.list, available |-> acc.available, has_lsu_op |-> lsu, stop |-> ends]
        \/ /\ ~ Closed(acc) /\ ~ SerialTrigger(op, first) /\ Takes(acc, n + 1)
           /\ new = [list |-> Append(acc.list, n + 1), available |-> [acc.available EXCEPT ![u] = @ - 1],
                     has_lsu_op |-> lsu, stop |-> ends]
    BY <1>0, SelectCases
  <1> QED
    BY <1>4, <1>5, <1>6, <1>7, <1>8

-----------------------------------------------------------------------------
(* What holds when issue::run starts.                                       *)
LEMMA QueueFacts ==
    ASSUME IssueInv, step = "issue"
    PROVE  /\ issue_q \in Seq(Item) /\ Len(issue_q) \in Nat /\ QueueReady
           /\ \A k \in 1 .. Len(issue_q) : issue_q[k].op \in Lined /\ issue_q[k].op \in Open(rob)
           /\ UnitsOK(units) /\ IndexOK(unit_index)
  <1>1. issue_q \in Seq(Item) /\ Len(issue_q) \in Nat /\ UnitsOK(units) /\ IndexOK(unit_index) /\ TypeInv
    BY DEF IssueInv, TypeInv, UnitsOK, IndexOK
  <1>2. \A k \in 1 .. Len(issue_q) : issue_q[k].op \in Lined /\ issue_q[k].op \in Open(rob)
    <2>1. Lined \subseteq Open(rob)
      BY DEF IssueInv, PlaceInv, PlaceOK
    <2> QED
      BY <1>1, <2>1, LinedHas
  <1>3. ASSUME NEW k \in 1 .. Len(issue_q), KindAt(k) = "fence" PROVE Ready(issue_q[k])
    <2>1. PICK j \in 1 .. Len(rob) : issue_q[k].op = rob[j].op
      BY <1>2 DEF Open
    <2>2. rob[j].op.kind = "fence"
      BY <1>3, <2>1 DEF KindAt
    <2>3. rob[j].op.srcs = {}
      BY <2>2 DEF IssueInv, RegsInv, RegsOK
    <2>4. issue_q[k].waiting \subseteq issue_q[k].op.srcs
      BY DEF IssueInv, OperandInv
    <2> QED
      BY <2>1, <2>3, <2>4 DEF Ready
  <1> QED
    BY <1>1, <1>2, <1>3 DEF QueueReady

(* The loop invariant before the first entry.                               *)
LEMMA SelectStarts ==
    ASSUME IssueInv, step = "issue", OutputEnabled
    PROVE  SelectOK(SelectStart, 0)
  <1> DEFINE s == SelectStart
             d == DispatchStart
             av == [u \in Unit |-> Cardinality(FreeOf(units, u))]
  <1>0. UnitsOK(units) /\ IndexOK(unit_index) /\ inst_waiting_rob_id \in RobId /\ 1 .. 0 = {}
    BY QueueFacts DEF IssueInv, TypeInv
  <1>1. \A u \in Unit : UnitNum(u) \in Nat \ {0} /\ DOMAIN units[u] = 0 .. UnitNum(u) - 1
    BY <1>0, UnitsExist DEF UnitsOK
  <1>2. \A u \in Unit : IsFiniteSet(FreeOf(units, u)) /\ Cardinality(FreeOf(units, u)) \in Nat
    <2>1. ASSUME NEW u \in Unit PROVE IsFiniteSet(FreeOf(units, u))
      <3>1. IsFiniteSet(0 .. UnitNum(u) - 1)
        BY <1>1, FS_Interval
      <3>2. FreeOf(units, u) \subseteq 0 .. UnitNum(u) - 1
        BY <1>1 DEF FreeOf
      <3> QED
        BY <3>1, <3>2, FS_Subset
    <2> QED
      BY <2>1, FS_CardinalityType
  <1>3. /\ s.list = << >> /\ s.has_lsu_op = FALSE /\ s.stop = FALSE /\ s.available = av
        /\ s = [list |-> << >>, has_lsu_op |-> FALSE, stop |-> FALSE, available |-> av]
    BY DEF SelectStart, FreeOf
  <1>4. av \in [Unit -> Nat] /\ \A u \in Unit : av[u] = Cardinality(FreeOf(units, u))
    BY <1>2
  <1>5. Cardinality(FreeOf(units, "alu")) > 0
    <2>1. SlotOps("alu") = {} /\ "alu" \in Unit
      BY UnitsExist DEF IssueInv, PassInv
    <2>2. 0 \in DOMAIN units["alu"]
      BY <1>1, <2>1
    <2>3. units["alu"][0] = None
      BY <2>1, <2>2 DEF SlotOps
    <2>4. FreeOf(units, "alu") # {}
      BY <2>2, <2>3 DEF FreeOf
    <2>5. Cardinality(FreeOf(units, "alu")) # 0
      BY <1>2, <2>1, <2>4, FS_EmptySet
    <2> QED
      BY <1>2, <2>1, <2>5
  <1>6. d = [units |-> units, index |-> unit_index, stop |-> FALSE, waiting |-> FALSE,
             waiting_id |-> inst_waiting_rob_id]
    BY DEF DispatchStart
  <1> HIDE DEF s, d, av
  <1>7. s \in Selecting
    BY <1>3, <1>4 DEF Selecting
  <1>8. Chosen(s, 0) /\ Ordered(s, 0)
    BY <1>0, <1>3 DEF Chosen, Ordered
  <1>9. \A u \in Unit : OpsIn(units, u) = SlotOps(u) \cup SentTo(<< >>, u)
    <2>1. \A u \in Unit : SentTo(<< >>, u) = {}
      BY DEF SentTo
    <2> QED
      BY <2>1 DEF OpsIn, SlotOps
  <1>10. DispatchedOK(d, << >>, av)
    <2>1. /\ d.units = units /\ d.index = unit_index /\ d.stop = FALSE /\ d.waiting = FALSE
          /\ d.waiting_id = inst_waiting_rob_id
          /\ d = [units |-> d.units, index |-> d.index, stop |-> d.stop, waiting |-> d.waiting,
                  waiting_id |-> d.waiting_id]
      BY <1>6
    <2>2. \A j \in 1 .. Len(<< >>) : FALSE
      OBVIOUS
    <2> QED
      BY <1>0, <1>4, <1>9, <2>1, <2>2 DEF DispatchedOK
  <1>11. Dispatched(<< >>) = d
    BY DispatchAppend DEF d
  <1>12. s.list = << >> => s.available["alu"] > 0
    BY <1>3, <1>4, <1>5, UnitsExist
  <1> QED
    BY <1>3, <1>7, <1>8, <1>10, <1>11, <1>12 DEF SelectOK, s

(* The loop as a whole.                                                     *)
LEMMA SelectEnds ==
    ASSUME IssueInv, step = "issue", OutputEnabled
    PROVE  SelectOK(SelectLoop[Len(issue_q)], Len(issue_q))
  <1> DEFINE N == Len(issue_q)
             T == {n \in Nat : n <= N => SelectOK(SelectLoop[n], n)}
  <1>0. N \in Nat /\ QueueReady
    BY QueueFacts
  <1>1. 0 \in T
    BY <1>0, SelectStarts, SelectLoopNext
  <1>2. ASSUME NEW n \in Nat, n \in T PROVE n + 1 \in T
    <2>1. SUFFICES ASSUME n + 1 <= N PROVE SelectOK(SelectLoop[n + 1], n + 1)
      OBVIOUS
    <2>2. n <= N /\ n \in 0 .. N - 1
      BY <1>0, <2>1
    <2>3. SelectOK(SelectLoop[n], n)
      BY <1>2, <2>2
    <2>4. SelectLoop[n + 1] = SelectStep(SelectLoop[n], n + 1)
      BY <1>0, <2>2, SelectLoopNext
    <2> QED
      BY <1>0, <2>1, <2>3, <2>4, SelectKeeps
  <1>3. N \in T
    <2> HIDE DEF T
    <2> QED
      BY <1>0, <1>1, <1>2, NatInductionSet
  <1> QED
    BY <1>0, <1>3

(* The selected instructions and what becomes of them.                      *)
SelectedOK(list, d) ==
    /\ list \in Seq(Nat)
    /\ \A j \in 1 .. Len(list) :
        /\ list[j] \in 1 .. Len(issue_q) /\ Ready(issue_q[list[j]])
        /\ Serial(OpAt(list, j).kind) =>
              /\ Len(list) = 1 /\ feedback.next_handle_rob_id = OpAt(list, j).id
              /\ d.waiting /\ d.waiting_id = OpAt(list, j).id
        /\ OpAt(list, j).kind = "fence" =>
              StoreBufferEmpty /\ feedback.next_handle_rob_id = OpAt(list, j).id
    /\ \A i, j \in 1 .. Len(issue_q) : i < j /\ Barrier(KindAt(i)) /\ ~ In(list, i) => ~ In(list, j)
    /\ \A i, j \in 1 .. Len(issue_q) : i < j /\ Lsu(issue_q[i].op) /\ Lsu(issue_q[j].op) => ~ In(list, j)
    /\ UnitsOK(d.units) /\ IndexOK(d.index) /\ d.waiting \in BOOLEAN /\ d.waiting_id \in RobId
    /\ \A u \in Unit : OpsIn(d.units, u) = SlotOps(u) \cup SentTo(list, u)
    /\ ~ OutputEnabled => /\ list = << >> /\ d.waiting = is_inst_waiting
                          /\ d.waiting_id = inst_waiting_rob_id

(* What the selection loop and the dispatch loop achieve together.          *)
LEMMA SelectionIs ==
    ASSUME IssueInv, step = "issue"
    PROVE  SelectedOK(Selection, Dispatched(Selection))
  <1>1. CASE OutputEnabled
    <2> DEFINE N == Len(issue_q)
               acc == SelectLoop[N]
               list == acc.list
               d == Dispatched(list)
    <2>1. SelectOK(acc, N) /\ Selection = list
      BY <1>1, SelectEnds DEF Selection
    <2> HIDE DEF acc, N
    <2>2. list \in Seq(Nat) /\ Chosen(acc, N) /\ Ordered(acc, N) /\ DispatchedOK(d, list, acc.available)
      BY <2>1 DEF SelectOK, Selecting
    <2> HIDE DEF d
    <2>3. /\ UnitsOK(d.units) /\ IndexOK(d.index) /\ d.stop \in BOOLEAN /\ d.waiting = d.stop /\ d.waiting_id \in RobId
          /\ \A u \in Unit : OpsIn(d.units, u) = SlotOps(u) \cup SentTo(list, u)
          /\ d.stop <=> \E j \in 1 .. Len(list) : Serial(OpAt(list, j).kind)
          /\ \A j \in 1 .. Len(list) : Serial(OpAt(list, j).kind) => d.waiting_id = OpAt(list, j).id
      BY <2>2 DEF DispatchedOK
    <2>4. \A j \in 1 .. Len(list) :
            /\ list[j] \in 1 .. N /\ Ready(issue_q[list[j]])
            /\ Serial(OpAt(list, j).kind) =>
                  /\ Len(list) = 1 /\ feedback.next_handle_rob_id = OpAt(list, j).id
                  /\ d.waiting /\ d.waiting_id = OpAt(list, j).id
            /\ OpAt(list, j).kind = "fence" =>
                  StoreBufferEmpty /\ feedback.next_handle_rob_id = OpAt(list, j).id
      BY <2>2, <2>3 DEF Chosen
    <2>5. /\ \A i, j \in 1 .. N : i < j /\ Barrier(KindAt(i)) /\ ~ In(list, i) => ~ In(list, j)
          /\ \A i, j \in 1 .. N : i < j /\ Lsu(issue_q[i].op) /\ Lsu(issue_q[j].op) => ~ In(list, j)
      BY <2>2 DEF Ordered
    <2>6. SelectedOK(list, d)
      BY <1>1, <2>2, <2>3, <2>4, <2>5 DEF SelectedOK, N
    <2> QED
      BY <2>1, <2>6 DEF d
  <1>2. CASE ~ OutputEnabled
    <2> DEFINE d == DispatchStart
    <2>1. Selection = << >> /\ Dispatched(Selection) = d
      BY <1>2, DispatchAppend DEF Selection
    <2>2. /\ d.units = units /\ d.index = unit_index /\ d.waiting = is_inst_waiting
          /\ d.waiting_id = inst_waiting_rob_id
      <3>1. is_inst_waiting /\ is_inst_waiting \in BOOLEAN
        BY <1>2 DEF OutputEnabled, IssueInv, TypeInv
      <3>2. (is_inst_waiting /\ ~ OutputEnabled) = is_inst_waiting
        BY <1>2, <3>1
      <3> QED
        BY <3>2 DEF DispatchStart
    <2> HIDE DEF d
    <2>3. \A u \in Unit : OpsIn(units, u) = SlotOps(u) \cup SentTo(<< >>, u)
      <3>1. \A u \in Unit : SentTo(<< >>, u) = {}
        BY DEF SentTo
      <3> QED
        BY <3>1 DEF OpsIn, SlotOps
    <2>4. UnitsOK(units) /\ IndexOK(unit_index) /\ inst_waiting_rob_id \in RobId /\ is_inst_waiting \in BOOLEAN
      BY QueueFacts DEF IssueInv, TypeInv
    <2>5. 1 .. Len(<< >>) = {} /\ << >> \in Seq(Nat) /\ \A i : ~ In(<< >>, i)
      BY DEF In
    <2>6. SelectedOK(<< >>, d)
      BY <1>2, <2>2, <2>3, <2>4, <2>5 DEF SelectedOK
    <2> QED
      BY <2>1, <2>6
  <1> QED
    BY <1>1, <1>2

-----------------------------------------------------------------------------
(* line2 is line without those of its first L positions that r leaves out.  *)
Thinned(line, L, r, line2) ==
    /\ Len(line2) = Len(r) + (Len(line) - L)
    /\ \A k \in 1 .. Len(r) : line2[k] = line[r[k]]
    /\ \A k \in 1 .. Len(line) - L : line2[Len(r) + k] = line[L + k]

(* A line without the selected entries keeps its order.                     *)
LEMMA ThinnedLine ==
    ASSUME NEW rb \in Seq(Entry), NEW next, Len(rb) <= RobSize, IdsOK(rb, next),
           NEW line, Len(line) \in Nat, LineOK(rb, line), NEW L \in 0 .. Len(line),
           NEW list \in Seq(Nat), \A j \in 1 .. Len(list) : list[j] \in 1 .. L,
           NEW r, Rest(list, r, L), NEW line2, Thinned(line, L, r, line2)
    PROVE  /\ LineOK(rb, line2)
           /\ {line2[k] : k \in 1 .. Len(line2)} =
                {line[k] : k \in 1 .. Len(line)} \ {line[list[j]] : j \in 1 .. Len(list)}
           /\ \A i, j \in 1 .. Len(line) : line[i] = line[j] => i = j
  <1>0. /\ Len(r) \in Nat /\ \A j \in 1 .. Len(r) : r[j] \in 1 .. L /\ ~ In(list, r[j])
        /\ \A i, j \in 1 .. Len(r) : i < j => r[i] < r[j]
        /\ \A k \in 1 .. L : ~ In(list, k) => In(r, k)
    BY DEF Rest
  <1>1. PICK K \in Nat : K = Len(r)
    BY <1>0
  <1>a. Len(line) - L \in Nat
    OBVIOUS
  <1>2. PICK M \in Nat : M = Len(line) - L
    BY <1>a
  <1> DEFINE p == [k \in 1 .. K + M |-> IF k <= K THEN r[k] ELSE L + (k - K)]
  <1>3. Len(line2) = K + M /\ Len(line) = L + M
    BY <1>1, <1>2 DEF Thinned
  <1>4. ASSUME NEW k \in 1 .. K + M
        PROVE  /\ p[k] \in 1 .. Len(line) /\ line2[k] = line[p[k]] /\ ~ In(list, p[k])
               /\ k > K => p[k] = L + (k - K)
               /\ k <= K => p[k] = r[k]
    <2>1. CASE k <= K
      <3>1. p[k] = r[k] /\ k \in 1 .. Len(r)
        BY <1>1, <2>1
      <3>2. r[k] \in 1 .. L /\ ~ In(list, r[k])
        BY <1>0, <3>1
      <3> HIDE DEF p
      <3>3. p[k] \in 1 .. Len(line) /\ line2[k] = line[r[k]]
        <4>1. line2[k] = line[r[k]]
          BY <3>1 DEF Thinned
        <4>2. r[k] \in 1 .. Len(line)
          BY <1>3, <3>2
        <4> QED
          BY <3>1, <4>1, <4>2
      <3> QED
        BY <2>1, <3>1, <3>2, <3>3
    <2>2. CASE k > K
      <3>1. p[k] = L + (k - K)
        BY <2>2
      <3> HIDE DEF p
      <3>2. PICK j \in 1 .. M : j = k - K /\ k = K + j
        BY <2>2
      <3>3. line2[K + j] = line[L + j]
        BY <1>1, <1>2 DEF Thinned
      <3>4. p[k] = L + j /\ p[k] \in 1 .. Len(line)
        BY <1>3, <3>1, <3>2
      <3>5. ~ In(list, L + j)
        BY DEF In
      <3>6. ~ (k <= K)
        BY <2>2
      <3> QED
        BY <3>1, <3>2, <3>3, <3>4, <3>5, <3>6
    <2> QED
      BY <2>1, <2>2
  <1> HIDE DEF p
  <1>5. ASSUME NEW i \in 1 .. K + M, NEW j \in 1 .. K + M, i < j PROVE p[i] < p[j]
    <2>1. CASE j <= K
      <3>1. i \in 1 .. Len(r) /\ j \in 1 .. Len(r) /\ i <= K
        BY <1>1, <1>5, <2>1
      <3>2. p[i] = r[i] /\ p[j] = r[j]
        BY <1>4, <2>1, <3>1
      <3> QED
        BY <1>0, <1>5, <3>1, <3>2
    <2>2. CASE j > K /\ i <= K
      <3>1. i \in 1 .. Len(r)
        BY <1>1, <2>2
      <3>2. p[i] = r[i] /\ r[i] \in 1 .. L /\ p[j] = L + (j - K)
        BY <1>0, <1>4, <2>2, <3>1
      <3> QED
        BY <2>2, <3>2
    <2>3. CASE j > K /\ i > K
      <3>1. p[i] = L + (i - K) /\ p[j] = L + (j - K)
        BY <1>4, <2>3
      <3> QED
        BY <1>5, <3>1
    <2> QED
      BY <2>1, <2>2, <2>3
  <1>6. LineOK(rb, line2)
    <2>1. ASSUME NEW i \in 1 .. Len(line2), NEW j \in 1 .. Len(line2), i < j
          PROVE  Precedes(rb, line2[i], line2[j])
      <3>1. /\ p[i] \in 1 .. Len(line) /\ p[j] \in 1 .. Len(line) /\ p[i] < p[j]
            /\ line2[i] = line[p[i]] /\ line2[j] = line[p[j]]
        BY <1>3, <1>4, <1>5, <2>1
      <3> QED
        BY <3>1 DEF LineOK
    <2> QED
      BY <2>1 DEF LineOK
  <1>7. ASSUME NEW i \in 1 .. Len(line), NEW j \in 1 .. Len(line), i < j, line[i] = line[j] PROVE FALSE
    <2>1. PICK a, b \in 1 .. Len(rb) : a < b /\ rb[a].op = line[i] /\ rb[b].op = line[j]
      BY <1>7 DEF LineOK, Precedes
    <2>2. a = b
      BY <1>7, <2>1, IdsDiffer
    <2> QED
      BY <2>1, <2>2
  <1>8. \A i, j \in 1 .. Len(line) : line[i] = line[j] => i = j
    BY <1>7
  <1>9. ASSUME NEW k \in 1 .. Len(line2)
        PROVE  line2[k] \in {line[i] : i \in 1 .. Len(line)} \ {line[list[j]] : j \in 1 .. Len(list)}
    <2>1. p[k] \in 1 .. Len(line) /\ line2[k] = line[p[k]] /\ ~ In(list, p[k])
      BY <1>3, <1>4
    <2>2. ASSUME NEW j \in 1 .. Len(list) PROVE line[list[j]] # line[p[k]]
      <3>1. list[j] \in 1 .. Len(line) /\ list[j] # p[k]
        BY <2>1 DEF In
      <3> QED
        BY <1>8, <2>1, <3>1
    <2> QED
      BY <2>1, <2>2
  <1>10. ASSUME NEW i \in 1 .. Len(line), \A j \in 1 .. Len(list) : line[i] # line[list[j]]
         PROVE  line[i] \in {line2[k] : k \in 1 .. Len(line2)}
    <2>1. CASE i <= L
      <3>1. i \in 1 .. L /\ ~ In(list, i)
        BY <1>10, <2>1 DEF In
      <3>2. PICK k \in 1 .. K : r[k] = i
        BY <1>0, <1>1, <3>1 DEF In
      <3>3. k \in 1 .. Len(line2) /\ line2[k] = line[i]
        BY <1>1, <1>3, <3>2 DEF Thinned
      <3> QED
        BY <3>3
    <2>2. CASE i > L
      <3>1. PICK k \in 1 .. M : k = i - L /\ i = L + k
        BY <1>3, <2>2
      <3>2. K + k \in 1 .. Len(line2)
        BY <1>3
      <3>3. line2[K + k] = line[i]
        BY <1>1, <1>2, <3>1 DEF Thinned
      <3> QED
        BY <3>2, <3>3
    <2> QED
      BY <2>1, <2>2
  <1>11. {line2[k] : k \in 1 .. Len(line2)} =
            {line[k] : k \in 1 .. Len(line)} \ {line[list[j]] : j \in 1 .. Len(list)}
    BY <1>9, <1>10
  <1> QED
    BY <1>6, <1>8, <1>11

(* The instructions of a selection.                                         *)
Sent(list) == {OpAt(list, j) : j \in 1 .. Len(list)}
Input == SubSeq(readreg_issue, FirstInput + 1, FirstInput + Accepted)

(* issue::run with the list it selects, what it sends and what it keeps.    *)
IssueStep(list, d, r) ==
    /\ IssueInv /\ step = "issue" /\ SelectedOK(list, d) /\ Rest(list, r, Len(issue_q))
    /\ issue_q' = [j \in 1 .. Len(r) |-> Woken(issue_q[r[j]])]
                    \o [j \in 1 .. Len(Input) |-> Loaded(Input[j])]
    /\ units' = d.units /\ unit_index' = d.index
    /\ is_inst_waiting' = d.waiting /\ inst_waiting_rob_id' = d.waiting_id
    /\ busy' = (Accepted < PortLeft)
    /\ last_index' = IF busy' THEN FirstInput + Accepted ELSE 0
    /\ step' = "front"
    /\ UNCHANGED <<feedback, rob, new_id, arf, data_valid, stored, rename_readreg, readreg_issue, held,
                   execute_wb, wb_commit, execute_feedback, wb_feedback>>

(* A step of the issue stage, with its selection named.                     *)
LEMMA IssueRunIs ==
    ASSUME IssueInv, IssueRun
    PROVE  \E list, d, r : IssueStep(list, d, r)
  <1> DEFINE list == Selection
             d == Dispatched(list)
             r == Remaining(list)[Len(issue_q)]
  <1>1. step = "issue"
    BY DEF IssueRun
  <1>2. SelectedOK(list, d)
    BY <1>1, SelectionIs
  <1>3. Rest(list, r, Len(issue_q))
    BY <1>1, QueueFacts, RemainingIs
  <1>4. /\ issue_q' = [j \in 1 .. Len(r) |-> Woken(issue_q[r[j]])]
                    \o [j \in 1 .. Len(Input) |-> Loaded(Input[j])]
        /\ units' = d.units /\ unit_index' = d.index
        /\ is_inst_waiting' = d.waiting /\ inst_waiting_rob_id' = d.waiting_id
        /\ busy' = (Accepted < PortLeft)
        /\ last_index' = IF busy' THEN FirstInput + Accepted ELSE 0
        /\ step' = "front"
        /\ UNCHANGED <<feedback, rob, new_id, arf, data_valid, stored, rename_readreg, readreg_issue, held,
                   execute_wb, wb_commit, execute_feedback, wb_feedback>>
    BY DEF IssueRun, Input, retireVars
  <1> HIDE DEF list, d, r
  <1>5. IssueStep(list, d, r)
    BY <1>1, <1>2, <1>3, <1>4 DEF IssueStep
  <1> QED
    BY <1>5

(* The numbers of the queue and the port in that step.                      *)
LEMMA IssueNumbers ==
    ASSUME NEW list, NEW d, NEW r, IssueStep(list, d, r)
    PROVE  /\ FirstInput \in 0 .. Len(readreg_issue) /\ Accepted \in 0 .. Len(readreg_issue) - FirstInput
           /\ Len(issue_q) + Accepted <= IssueQueueSize
           /\ Len(readreg_issue) \in Nat /\ Len(issue_q) \in Nat /\ Len(rename_readreg) \in Nat
           /\ PortFrom = FirstInput /\ PortFrom' = FirstInput + Accepted
           /\ busy' \in BOOLEAN /\ last_index' \in Nat /\ (busy' => last_index' <= Len(readreg_issue))
  <1>0. /\ TypeInv /\ Len(issue_q) <= IssueQueueSize /\ IssueQueueSize \in Nat
    BY IssueSizesAssumption DEF IssueStep, IssueInv, TypeInv
  <1>1. /\ FirstInput \in 0 .. Len(readreg_issue) /\ Len(readreg_issue) \in Nat
        /\ Len(issue_q) \in Nat /\ Len(rename_readreg) \in Nat
    BY <1>0, PortFromIs
  <1>2. PICK F \in 0 .. Len(readreg_issue) : F = FirstInput
    BY <1>1
  <1>3. PICK L \in Nat : L = Len(readreg_issue) - F
    <2>1. Len(readreg_issue) - F \in Nat
      BY <1>1
    <2> QED
      BY <2>1
  <1>4. PortLeft = L
    BY <1>2, <1>3 DEF PortLeft
  <1>5. Accepted = IF IssueQueueSize - Len(issue_q) < L THEN IssueQueueSize - Len(issue_q) ELSE L
    BY <1>4 DEF Accepted
  <1>6. PICK A \in 0 .. L : A = Accepted
    <2>1. PICK f \in Nat : f = IssueQueueSize - Len(issue_q)
      <3>1. IssueQueueSize - Len(issue_q) \in Nat
        BY <1>0, <1>1
      <3> QED
        BY <3>1
    <2>2. Accepted = IF f < L THEN f ELSE L
      BY <1>5, <2>1
    <2>3. (IF f < L THEN f ELSE L) \in 0 .. L
      OBVIOUS
    <2> QED
      BY <2>2, <2>3
  <1>7. Len(issue_q) + A <= IssueQueueSize
    BY <1>0, <1>1, <1>5, <1>6
  <1>8. PortFrom = F
    BY <1>2 DEF IssueStep, PortFrom
  <1>9. busy' = (A < L) /\ last_index' = (IF busy' THEN F + A ELSE 0) /\ step' = "front"
        /\ readreg_issue' = readreg_issue
    BY <1>2, <1>4, <1>6 DEF IssueStep
  <1>10. busy' \in BOOLEAN /\ last_index' \in Nat /\ (busy' => last_index' <= Len(readreg_issue))
    BY <1>1, <1>3, <1>9
  <1>11. PortFrom' = F + A
    <2>1. CASE busy'
      <3>1. last_index' = F + A
        BY <1>9, <2>1
      <3> QED
        BY <2>1, <3>1 DEF PortFrom, FirstInput
    <2>2. CASE ~ busy'
      <3>0. ~ (A < L)
        BY <1>9, <2>2
      <3>1. A = L
        BY <3>0
      <3>2. PortFrom' = Len(readreg_issue)
        BY <1>9, <2>2 DEF PortFrom
      <3> QED
        BY <1>1, <1>3, <3>1, <3>2
    <2> QED
      BY <2>1, <2>2
  <1> QED
    BY <1>1, <1>2, <1>3, <1>6, <1>7, <1>8, <1>10, <1>11

(* The queue after issue::run.                                              *)
LEMMA QueueNext ==
    ASSUME NEW list, NEW d, NEW r, IssueStep(list, d, r)
    PROVE  /\ Len(r) \in Nat /\ Len(r) <= Len(issue_q)
           /\ issue_q' \in Seq(Item) /\ Len(issue_q') = Len(r) + Accepted /\ Len(issue_q') <= IssueQueueSize
           /\ \A k \in 1 .. Len(r) : r[k] \in 1 .. Len(issue_q) /\ issue_q'[k] = Woken(issue_q[r[k]])
           /\ \A k \in 1 .. Accepted : /\ FirstInput + k \in 1 .. Len(readreg_issue)
                                       /\ issue_q'[Len(r) + k] = Loaded(readreg_issue[FirstInput + k])
  <1>0. /\ issue_q \in Seq(Item) /\ readreg_issue \in Seq(Item)
        /\ r \in Seq(Nat) /\ Len(r) \in Nat /\ Len(r) <= Len(issue_q)
        /\ \A k \in 1 .. Len(r) : r[k] \in 1 .. Len(issue_q)
        /\ IssueQueueSize \in Nat
    <2>1. TypeInv /\ Rest(list, r, Len(issue_q))
      BY DEF IssueStep, IssueInv
    <2>2. issue_q \in Seq(Item) /\ readreg_issue \in Seq(Item)
      BY <2>1 DEF TypeInv
    <2>3. /\ r \in Seq(Nat) /\ Len(r) \in Nat /\ Len(r) <= Len(issue_q)
          /\ \A k \in 1 .. Len(r) : r[k] \in 1 .. Len(issue_q)
      BY <2>1 DEF Rest
    <2> QED
      BY <2>2, <2>3, IssueSizesAssumption
  <1>1. PICK F \in 0 .. Len(readreg_issue) : F = FirstInput
    BY IssueNumbers
  <1>2. PICK A \in 0 .. Len(readreg_issue) - F : A = Accepted
    BY <1>1, IssueNumbers
  <1>3. Len(issue_q) \in Nat /\ Len(readreg_issue) \in Nat /\ Len(issue_q) + A <= IssueQueueSize
    BY <1>2, IssueNumbers
  <1>4. Len(Input) = A /\ \A k \in 1 .. A : Input[k] = readreg_issue[F + k] /\ F + k \in 1 .. Len(readreg_issue)
    <2>1. Input = SubSeq(readreg_issue, F + 1, F + A)
      BY <1>1, <1>2 DEF Input
    <2>2. PICK m, n \in Nat : m = F + 1 /\ n = F + A /\ m >= 1 /\ m <= n + 1 /\ n <= Len(readreg_issue)
      <3>1. /\ F + 1 \in Nat /\ F + A \in Nat /\ F + 1 >= 1 /\ F + 1 <= (F + A) + 1
            /\ F + A <= Len(readreg_issue)
        BY <1>3
      <3> QED
        BY <3>1
    <2>3. PICK s : s = SubSeq(readreg_issue, m, n)
      OBVIOUS
    <2>4. s \in Seq(Item) /\ Len(s) = (n - m) + 1 /\ \A k \in 1 .. (n - m) + 1 : s[k] = readreg_issue[m + k - 1]
      <3>1. m \in 1 .. Len(readreg_issue) + 1 /\ n \in m - 1 .. Len(readreg_issue)
        BY <1>3, <2>2
      <3>2. readreg_issue \in Seq(Item)
        BY <1>0
      <3>3. /\ SubSeq(readreg_issue, m, n) \in Seq(Item)
            /\ Len(SubSeq(readreg_issue, m, n)) = IF m <= n THEN n - m + 1 ELSE 0
            /\ \A k \in 1 .. n - m + 1 : SubSeq(readreg_issue, m, n)[k] = readreg_issue[m + k - 1]
        BY <3>1, <3>2, SubSeqProperties
      <3>4. (IF m <= n THEN n - m + 1 ELSE 0) = (n - m) + 1
        BY <2>2
      <3> QED
        BY <2>3, <3>3, <3>4
    <2>5. (n - m) + 1 = A /\ Input = s
      BY <2>1, <2>2, <2>3
    <2>6. \A k \in 1 .. A : m + k - 1 = F + k /\ F + k \in 1 .. Len(readreg_issue)
      BY <1>3, <2>2
    <2> QED
      BY <2>4, <2>5, <2>6
  <1>5. \A item \in Item : Woken(item) \in Item /\ Loaded(item) \in Item
    BY DEF Item, Woken, Loaded
  <1> DEFINE one == [j \in 1 .. Len(r) |-> Woken(issue_q[r[j]])]
             two == [j \in 1 .. A |-> Loaded(Input[j])]
  <1>c. PICK K \in Nat : K = Len(r)
    BY <1>0
  <1>6. one \in Seq(Item) /\ Len(one) = Len(r)
    <2>1. \A j \in 1 .. Len(r) : issue_q[r[j]] \in Item
      BY <1>0
    <2>2. one \in [1 .. K -> Item]
      BY <1>5, <1>c, <2>1
    <2> HIDE DEF one
    <2> QED
      BY <1>c, <2>2
  <1>7. two \in Seq(Item) /\ Len(two) = A
    <2>1. \A j \in 1 .. A : Input[j] \in Item
      BY <1>0, <1>4
    <2>2. two \in [1 .. A -> Item]
      BY <1>5, <2>1
    <2> HIDE DEF two
    <2> QED
      BY <2>2
  <1>8. issue_q' = one \o two
    BY <1>4 DEF IssueStep
  <1>9. /\ \A k \in 1 .. Len(r) : one[k] = Woken(issue_q[r[k]])
        /\ \A k \in 1 .. A : two[k] = Loaded(readreg_issue[F + k])
    BY <1>4
  <1> HIDE DEF one, two
  <1>10. /\ issue_q' \in Seq(Item) /\ Len(issue_q') = Len(r) + A
         /\ \A k \in 1 .. Len(r) : issue_q'[k] = one[k]
         /\ \A k \in 1 .. A : issue_q'[Len(r) + k] = two[k]
    <2>1. PICK q : q = one \o two
      OBVIOUS
    <2>2. /\ q \in Seq(Item) /\ Len(q) = K + A
          /\ \A i \in 1 .. Len(q) : q[i] = IF i <= K THEN one[i] ELSE two[i - K]
      <3>1. /\ one \o two \in Seq(Item) /\ Len(one \o two) = Len(one) + Len(two)
            /\ \A i \in 1 .. Len(one) + Len(two) :
                  (one \o two)[i] = IF i <= Len(one) THEN one[i] ELSE two[i - Len(one)]
        BY <1>6, <1>7, ConcatProperties
      <3> QED
        BY <1>6, <1>7, <1>c, <2>1, <3>1
    <2>3. \A k \in 1 .. K : k \in 1 .. Len(q) /\ k <= K
      BY <2>2
    <2>4. \A k \in 1 .. A : K + k \in 1 .. Len(q) /\ ~ (K + k <= K) /\ (K + k) - K = k
      BY <2>2
    <2>5. \A k \in 1 .. K : q[k] = one[k]
      BY <2>2, <2>3
    <2>6. \A k \in 1 .. A : q[K + k] = two[k]
      BY <2>2, <2>4
    <2> QED
      BY <1>8, <1>c, <2>1, <2>2, <2>5, <2>6
  <1>11. Len(issue_q') <= IssueQueueSize
    BY <1>0, <1>3, <1>10
  <1> QED
    BY <1>0, <1>1, <1>2, <1>4, <1>9, <1>10, <1>11

(* The line after issue::run.                                               *)
LEMMA IssueLine ==
    ASSUME NEW list, NEW d, NEW r, IssueStep(list, d, r)
    PROVE  Thinned(Line, Len(issue_q), r, Line') /\ Len(issue_q) \in 0 .. Len(Line) /\ Len(Line) \in Nat
  <1>1. PICK F \in 0 .. Len(readreg_issue) : F = FirstInput
    BY IssueNumbers
  <1>2. PICK A \in 0 .. Len(readreg_issue) - F : A = Accepted
    BY <1>1, IssueNumbers
  <1>3. PICK L, P, R \in Nat : L = Len(issue_q) /\ P = Len(readreg_issue) /\ R = Len(rename_readreg)
    BY IssueNumbers
  <1>4. PortFrom = F /\ PortFrom' = F + A /\ readreg_issue' = readreg_issue /\ rename_readreg' = rename_readreg
    BY <1>1, <1>2, IssueNumbers DEF IssueStep
  <1>5. PICK K \in Nat : K = Len(r)
    BY QueueNext
  <1>6. /\ Len(issue_q') = K + A
        /\ \A k \in 1 .. K : r[k] \in 1 .. L /\ issue_q'[k] = Woken(issue_q[r[k]])
        /\ \A k \in 1 .. A : F + k \in 1 .. P /\ issue_q'[K + k] = Loaded(readreg_issue[F + k])
    <2>1. /\ Len(issue_q') = Len(r) + Accepted
          /\ \A k \in 1 .. Len(r) : r[k] \in 1 .. Len(issue_q) /\ issue_q'[k] = Woken(issue_q[r[k]])
          /\ \A k \in 1 .. Accepted : /\ FirstInput + k \in 1 .. Len(readreg_issue)
                                       /\ issue_q'[Len(r) + k] = Loaded(readreg_issue[FirstInput + k])
      BY QueueNext
    <2> QED
      BY <1>1, <1>2, <1>3, <1>5, <2>1
  <1>7. LineShape(issue_q', readreg_issue, F + A, rename_readreg, Line')
    <2>1. Line' = InLine(issue_q', readreg_issue, F + A, rename_readreg)
      BY <1>4 DEF Line, InLine
    <2>2. Len(issue_q') \in Nat /\ F + A \in 0 .. P
      BY <1>3, <1>6
    <2>3. PICK g \in 0 .. P : g = F + A
      BY <2>2
    <2>4. LineShape(issue_q', readreg_issue, g, rename_readreg, InLine(issue_q', readreg_issue, g, rename_readreg))
      BY <1>3, <2>2, InLineIs
    <2> QED
      BY <2>1, <2>3, <2>4
  <1>8. /\ Len(Line') = (K + A) + (P - (F + A)) + R
        /\ \A k \in 1 .. K + A : Line'[k] = issue_q'[k].op
        /\ \A k \in 1 .. P - (F + A) : Line'[(K + A) + k] = readreg_issue[(F + A) + k].op
        /\ \A k \in 1 .. R : Line'[(K + A) + (P - (F + A)) + k] = rename_readreg[k]
    BY <1>3, <1>6, <1>7 DEF LineShape
  <1>9. /\ Len(Line) = L + (P - F) + R
        /\ \A k \in 1 .. L : Line[k] = issue_q[k].op
        /\ \A k \in 1 .. P - F : Line[L + k] = readreg_issue[F + k].op
        /\ \A k \in 1 .. R : Line[L + (P - F) + k] = rename_readreg[k]
    BY <1>3, <1>4, LineIs DEF IssueStep, IssueInv
  <1>a. issue_q \in Seq(Item) /\ readreg_issue \in Seq(Item)
    BY DEF IssueStep, IssueInv, TypeInv
  <1>b. \A item \in Item : Woken(item).op = item.op /\ Loaded(item).op = item.op
    BY DEF Item, Woken, Loaded
  <1>10. Len(Line') = K + (Len(Line) - L) /\ Len(Line) - L = (P - F) + R
    BY <1>3, <1>8, <1>9
  <1>11. ASSUME NEW k \in 1 .. K PROVE Line'[k] = Line[r[k]]
    <2>1. k \in 1 .. K + A /\ r[k] \in 1 .. L /\ issue_q'[k] = Woken(issue_q[r[k]])
      BY <1>6
    <2>2. issue_q[r[k]] \in Item
      BY <1>3, <1>a, <2>1
    <2> QED
      BY <1>8, <1>9, <1>b, <2>1, <2>2
  <1>12. ASSUME NEW k \in 1 .. (P - F) + R PROVE Line'[K + k] = Line[L + k]
    <2>1. CASE k <= A
      <3>1. K + k \in 1 .. K + A /\ k \in 1 .. A /\ k \in 1 .. P - F /\ F + k \in 1 .. P
        BY <1>3, <2>1
      <3>2. readreg_issue[F + k] \in Item
        BY <1>3, <1>a, <3>1
      <3>3. issue_q'[K + k] = Loaded(readreg_issue[F + k])
        BY <1>6, <3>1
      <3> QED
        BY <1>8, <1>9, <1>b, <3>1, <3>2, <3>3
    <2>2. CASE k > A /\ k <= P - F
      <3>1. PICK j \in 1 .. P - (F + A) : j = k - A
        <4>1. k - A \in 1 .. P - (F + A)
          BY <1>3, <2>2
        <4> QED
          BY <4>1
      <3>2. (K + A) + j = K + k /\ (F + A) + j = F + k /\ k \in 1 .. P - F
        BY <1>3, <2>2, <3>1
      <3> QED
        BY <1>8, <1>9, <3>1, <3>2
    <2>3. CASE k > P - F
      <3>1. PICK j \in 1 .. R : j = k - (P - F)
        <4>1. k - (P - F) \in 1 .. R
          BY <1>3, <2>3
        <4> QED
          BY <4>1
      <3>2. (K + A) + (P - (F + A)) + j = K + k /\ L + (P - F) + j = L + k
        BY <1>3, <3>1
      <3> QED
        BY <1>8, <1>9, <3>1, <3>2
    <2> QED
      BY <1>3, <2>1, <2>2, <2>3
  <1>13. L \in 0 .. Len(Line) /\ Len(Line) \in Nat
    BY <1>3, <1>9
  <1> QED
    BY <1>3, <1>5, <1>10, <1>11, <1>12, <1>13 DEF Thinned

(* What the step starts from.                                               *)
LEMMA IssueFacts ==
    ASSUME NEW list, NEW d, NEW r, IssueStep(list, d, r)
    PROVE  /\ TypeInv /\ rob \in Seq(Entry) /\ Len(rob) \in Nat /\ Len(rob) <= RobSize /\ IdsOK(rob, new_id)
           /\ LineOK(rob, Line) /\ PlaceOK(rob, Lined, Issued, execute_wb, wb_commit)
           /\ issue_q \in Seq(Item) /\ Len(issue_q) \in Nat
           /\ \A k \in 1 .. Len(issue_q) : /\ k \in 1 .. Len(Line) /\ Line[k] = issue_q[k].op
                                           /\ issue_q[k].op \in Lined /\ issue_q[k].op \in Open(rob)
           /\ list \in Seq(Nat) /\ \A j \in 1 .. Len(list) : list[j] \in 1 .. Len(issue_q)
           /\ \A j, k \in 1 .. Len(rob) : rob[j].op = rob[k].op => j = k
           /\ \A j, k \in 1 .. Len(rob) : rob[j].op.id = rob[k].op.id => j = k
  <1>1. /\ TypeInv /\ rob \in Seq(Entry) /\ Len(rob) \in Nat /\ Len(rob) <= RobSize /\ IdsOK(rob, new_id)
        /\ LineOK(rob, Line) /\ PlaceOK(rob, Lined, Issued, execute_wb, wb_commit)
        /\ list \in Seq(Nat) /\ \A j \in 1 .. Len(list) : list[j] \in 1 .. Len(issue_q)
    BY DEF IssueStep, IssueInv, TypeInv, IdsInv, PlaceInv, SelectedOK
  <1>2. /\ issue_q \in Seq(Item) /\ Len(issue_q) \in Nat
        /\ \A k \in 1 .. Len(issue_q) : issue_q[k].op \in Lined /\ issue_q[k].op \in Open(rob)
    BY QueueFacts DEF IssueStep
  <1>3. Len(issue_q) \in 0 .. Len(Line) /\ Len(Line) \in Nat
    BY IssueLine
  <1>4. \A k \in 1 .. Len(issue_q) : k \in 1 .. Len(Line) /\ Line[k] = issue_q[k].op
    BY <1>1, <1>3, LineIs
  <1>5. /\ \A j, k \in 1 .. Len(rob) : rob[j].op = rob[k].op => j = k
        /\ \A j, k \in 1 .. Len(rob) : rob[j].op.id = rob[k].op.id => j = k
    BY <1>1, IdsDiffer
  <1> QED
    BY <1>1, <1>2, <1>4, <1>5

(* The selected instructions move from the line to the ports.               *)
LEMMA IssueSets ==
    ASSUME NEW list, NEW d, NEW r, IssueStep(list, d, r)
    PROVE  /\ LineOK(rob, Line') /\ Lined' = Lined \ Sent(list) /\ Sent(list) \subseteq Lined
           /\ \A u \in Unit : SlotOps(u)' = SlotOps(u) \cup SentTo(list, u)
           /\ Issued' = Issued \cup Sent(list)
           /\ \A i, j \in 1 .. Len(Line) : Line[i] = Line[j] => i = j
  <1>1. /\ LineOK(rob, Line')
        /\ {Line'[k] : k \in 1 .. Len(Line')} =
                {Line[k] : k \in 1 .. Len(Line)} \ {Line[list[j]] : j \in 1 .. Len(list)}
        /\ \A i, j \in 1 .. Len(Line) : Line[i] = Line[j] => i = j
    <2>1. Thinned(Line, Len(issue_q), r, Line') /\ Len(issue_q) \in 0 .. Len(Line) /\ Len(Line) \in Nat
      BY IssueLine
    <2>2. Rest(list, r, Len(issue_q))
      BY DEF IssueStep
    <2>3. /\ rob \in Seq(Entry) /\ Len(rob) <= RobSize /\ IdsOK(rob, new_id) /\ LineOK(rob, Line)
          /\ list \in Seq(Nat) /\ \A j \in 1 .. Len(list) : list[j] \in 1 .. Len(issue_q)
      BY IssueFacts
    <2> QED
      BY ONLY <2>1, <2>2, <2>3, ThinnedLine
  <1>2. \A j \in 1 .. Len(list) : Line[list[j]] = OpAt(list, j) /\ OpAt(list, j) \in Lined
    BY IssueFacts DEF OpAt
  <1>3. {Line[list[j]] : j \in 1 .. Len(list)} = Sent(list) /\ Sent(list) \subseteq Lined
    BY <1>2 DEF Sent
  <1>4. Lined' = Lined \ Sent(list)
    BY <1>1, <1>3 DEF Lined
  <1>5. \A u \in Unit : SlotOps(u)' = SlotOps(u) \cup SentTo(list, u)
    <2>1. \A u \in Unit : OpsIn(d.units, u) = SlotOps(u) \cup SentTo(list, u)
      BY DEF IssueStep, SelectedOK
    <2>2. \A u : SlotOps(u)' = OpsIn(d.units, u)
      BY DEF IssueStep, SlotOps, OpsIn
    <2> QED
      BY <2>1, <2>2
  <1>6. \A o : o \in Sent(list) <=> \E u \in Unit : o \in SentTo(list, u)
    <2>1. \A j \in 1 .. Len(list) : op_unit(OpAt(list, j).kind) \in Unit
      BY IssueFacts, ItemTypes DEF OpAt
    <2> QED
      BY <2>1 DEF Sent, SentTo
  <1>7. Issued' = Issued \cup Sent(list)
    <2>1. \A o : o \in Issued <=> o \in {held} \ {None} \/ \E u \in Unit : o \in SlotOps(u)
      BY DEF Issued
    <2>2. \A o : o \in Issued' <=> o \in {held'} \ {None} \/ \E u \in Unit : o \in SlotOps(u)'
      BY DEF Issued
    <2>3. held' = held
      BY DEF IssueStep
    <2> QED
      BY <1>5, <1>6, <2>1, <2>2, <2>3
  <1> QED
    BY <1>1, <1>3, <1>4, <1>5, <1>7

(* An instruction that waits in front of one that is sent is in the queue.  *)
LEMMA Overtaken ==
    ASSUME NEW list, NEW d, NEW r, IssueStep(list, d, r),
           NEW j \in 1 .. Len(rob), NEW k \in 1 .. Len(rob), j < k,
           rob[j].op \in Lined', rob[k].op \in Sent(list)
    PROVE  \E a, b \in 1 .. Len(issue_q) :
              /\ a < b /\ issue_q[a].op = rob[j].op /\ issue_q[b].op = rob[k].op
              /\ ~ In(list, a) /\ In(list, b)
  <1>0. rob[j].op \in Lined /\ rob[j].op \notin Sent(list)
    BY IssueSets
  <1>1. PICK i \in 1 .. Len(list) : rob[k].op = OpAt(list, i)
    BY DEF Sent
  <1>2. PICK b \in 1 .. Len(issue_q) : b = list[i] /\ issue_q[b].op = rob[k].op
    BY <1>1, IssueFacts DEF OpAt
  <1>3. In(list, b)
    BY <1>2 DEF In
  <1>4. PICK a \in 1 .. Len(Line) : Line[a] = rob[j].op
    BY <1>0 DEF Lined
  <1>5. b \in 1 .. Len(Line) /\ Line[b] = rob[k].op /\ Len(Line) \in Nat
    BY <1>2, IssueFacts, IssueLine
  <1>6. a # b
    BY <1>4, <1>5, IssueFacts
  <1>7. ~ (b < a)
    <2>1. SUFFICES ASSUME b < a PROVE FALSE
      OBVIOUS
    <2>2. Precedes(rob, rob[k].op, rob[j].op)
      <3>1. LineOK(rob, Line)
        BY IssueFacts
      <3>2. Precedes(rob, Line[b], Line[a])
        BY <1>5, <2>1, <3>1 DEF LineOK
      <3> QED
        BY <1>4, <1>5, <3>2
    <2>3. PICK x, y \in 1 .. Len(rob) : x < y /\ rob[x].op = rob[k].op /\ rob[y].op = rob[j].op
      BY <2>2 DEF Precedes
    <2>4. x = k /\ y = j
      BY <2>3, IssueFacts
    <2> QED
      BY <2>3, <2>4
  <1>8. a \in 1 .. Len(issue_q) /\ a < b
    BY <1>5, <1>6, <1>7
  <1>9. issue_q[a].op = rob[j].op
    BY <1>4, <1>8, IssueFacts
  <1>10. ~ In(list, a)
    BY <1>0, <1>9 DEF In, Sent, OpAt
  <1> QED
    BY <1>2, <1>3, <1>8, <1>9, <1>10

(* Every instruction stays in one place.                                    *)
LEMMA IssuePlaces ==
    ASSUME NEW list, NEW d, NEW r, IssueStep(list, d, r)
    PROVE  PlaceInv' /\ SlotInv'
  <1>0. /\ rob' = rob /\ held' = held /\ execute_wb' = execute_wb /\ wb_commit' = wb_commit
    BY DEF IssueStep
  <1>1. PlaceOK(rob, Lined', Issued', execute_wb, wb_commit)
    <2>1. PlaceOK(rob, Lined, Issued, execute_wb, wb_commit)
      BY IssueFacts
    <2>2. Lined' = Lined \ Sent(list) /\ Sent(list) \subseteq Lined /\ Issued' = Issued \cup Sent(list)
      BY IssueSets
    <2> QED
      BY ONLY <2>1, <2>2 DEF PlaceOK
  <1>2. PlaceInv'
    <2>1. LineOK(rob, Line')
      BY IssueSets
    <2>2. PlaceOK(rob', Lined', Issued', execute_wb', wb_commit') /\ LineOK(rob', Line')
      BY <1>0, <1>1, <2>1
    <2> QED
      BY <2>2 DEF PlaceInv, PlaceOK, LineOK, Open, OpsOf, Precedes
  <1>3. ASSUME NEW u \in Unit, NEW o \in SlotOps(u)' PROVE op_unit(o.kind) = u
    <2>1. o \in SlotOps(u) \/ o \in SentTo(list, u)
      BY IssueSets
    <2>2. CASE o \in SlotOps(u)
      BY <2>2 DEF IssueStep, IssueInv, SlotInv
    <2>3. CASE o \in SentTo(list, u)
      BY <2>3 DEF SentTo
    <2> QED
      BY <2>1, <2>2, <2>3
  <1>4. held # None => held.kind = "store"
    BY DEF IssueStep, IssueInv, SlotInv
  <1>5. ASSUME held # None, NEW o \in SlotOps("lsu")' PROVE Precedes(rob, held, o)
    <2>1. o \in SlotOps("lsu") \/ o \in SentTo(list, "lsu")
      BY IssueSets, UnitsExist
    <2>2. CASE o \in SlotOps("lsu")
      BY <1>5, <2>2 DEF IssueStep, IssueInv, SlotInv
    <2>3. CASE o \in SentTo(list, "lsu")
      <3>1. o \in Sent(list) /\ Lsu(o)
        BY <2>3 DEF SentTo, Sent, Lsu
      <3>2. o \in Lined /\ held \in Issued /\ Lsu(held)
        BY <1>4, <1>5, <3>1, IssueSets, UnitsExist DEF Issued, Lsu
      <3>3. held \notin Lined /\ o \in Open(rob) /\ held \in Open(rob)
        BY <3>2, IssueFacts DEF PlaceOK
      <3>4. PICK x, y \in 1 .. Len(rob) : rob[x].op = held /\ rob[y].op = o
        BY <3>3 DEF Open
      <3>5. x # y
        BY <3>2, <3>3, <3>4
      <3>6. ~ (y < x)
        <4>1. LsuOK(rob, Lined)
          BY DEF IssueStep, IssueInv, OrderInv
        <4> QED
          BY <3>1, <3>2, <3>3, <3>4, <4>1 DEF LsuOK
      <3>7. x < y
        BY <3>5, <3>6, IssueFacts
      <3> QED
        BY <3>4, <3>7 DEF Precedes
    <2> QED
      BY <2>1, <2>2, <2>3
  <1>6. SlotInv'
    BY <1>0, <1>3, <1>4, <1>5 DEF SlotInv, Precedes
  <1> QED
    BY <1>2, <1>6

(* What was selected keeps the order of barriers and memory operations.     *)
LEMMA IssueOrder ==
    ASSUME NEW list, NEW d, NEW r, IssueStep(list, d, r)
    PROVE  OrderInv'
  <1>0. /\ rob' = rob /\ BarrierOK(rob, Lined) /\ LsuOK(rob, Lined) /\ LsuOK(rob, Lined \cup Issued)
        /\ \A i, j \in 1 .. Len(issue_q) : i < j /\ Barrier(KindAt(i)) /\ ~ In(list, i) => ~ In(list, j)
        /\ \A i, j \in 1 .. Len(issue_q) : i < j /\ Lsu(issue_q[i].op) /\ Lsu(issue_q[j].op) => ~ In(list, j)
    BY DEF IssueStep, IssueInv, OrderInv, SelectedOK
  <1>1. Lined' = Lined \ Sent(list) /\ Lined' \cup Issued' = Lined \cup Issued
    BY IssueSets
  <1>2. ASSUME NEW j \in 1 .. Len(rob), NEW k \in 1 .. Len(rob), j < k, Barrier(rob[j].op.kind),
               rob[j].op \in Lined'
        PROVE  rob[k].op \in Lined'
    <2>1. rob[k].op \in Lined
      BY <1>0, <1>1, <1>2 DEF BarrierOK
    <2>2. ASSUME rob[k].op \in Sent(list) PROVE FALSE
      <3>1. PICK a, b \in 1 .. Len(issue_q) :
              /\ a < b /\ issue_q[a].op = rob[j].op /\ issue_q[b].op = rob[k].op
              /\ ~ In(list, a) /\ In(list, b)
        BY <1>2, <2>2, Overtaken
      <3>2. Barrier(KindAt(a))
        BY <1>2, <3>1 DEF KindAt
      <3> QED
        BY <1>0, <3>1, <3>2
    <2> QED
      BY <1>1, <2>1, <2>2
  <1>3. ASSUME NEW j \in 1 .. Len(rob), NEW k \in 1 .. Len(rob), j < k, Lsu(rob[j].op), Lsu(rob[k].op),
               rob[j].op \in Lined'
        PROVE  rob[k].op \in Lined'
    <2>1. rob[k].op \in Lined
      BY <1>0, <1>1, <1>3 DEF LsuOK
    <2>2. ASSUME rob[k].op \in Sent(list) PROVE FALSE
      <3>1. PICK a, b \in 1 .. Len(issue_q) :
              /\ a < b /\ issue_q[a].op = rob[j].op /\ issue_q[b].op = rob[k].op
              /\ ~ In(list, a) /\ In(list, b)
        BY <1>3, <2>2, Overtaken
      <3> QED
        BY <1>0, <1>3, <3>1
    <2> QED
      BY <1>1, <2>1, <2>2
  <1>4. BarrierOK(rob, Lined') /\ LsuOK(rob, Lined')
    BY <1>2, <1>3 DEF BarrierOK, LsuOK
  <1>5. LsuOK(rob, Lined' \cup Issued')
    BY <1>0, <1>1
  <1> QED
    BY <1>0, <1>4, <1>5 DEF OrderInv, BarrierOK, LsuOK

(* The store buffer is empty: nothing committed, no executed store.         *)
LEMMA EmptyBuffer ==
    ASSUME TypeInv, StoreBufferEmpty
    PROVE  stored = 0 /\ \A k \in 1 .. Len(rob) : rob[k].op.kind = "store" => rob[k].done # "ok"
  <1> DEFINE A == {r \in wb_commit : r.op.kind = "store" /\ ~ r.fault}
             B == {k \in 1 .. Len(rob) : rob[k].op.kind = "store" /\ rob[k].done = "ok"}
  <1>1. stored \in Nat /\ IsFiniteSet(wb_commit) /\ Len(rob) \in Nat
    BY DEF TypeInv
  <1>2. IsFiniteSet(A) /\ IsFiniteSet(B)
    <2>1. IsFiniteSet(1 .. Len(rob))
      BY <1>1, FS_Interval
    <2>2. A \subseteq wb_commit /\ B \subseteq 1 .. Len(rob)
      OBVIOUS
    <2> HIDE DEF A, B
    <2> QED
      BY <1>1, <2>1, <2>2, FS_Subset
  <1>3. stored + Cardinality(A) + Cardinality(B) = 0
    BY DEF StoreBufferEmpty, BufferedStores
  <1> HIDE DEF A, B
  <1>4. Cardinality(A) \in Nat /\ Cardinality(B) \in Nat
    BY <1>2, FS_CardinalityType
  <1>5. stored = 0 /\ Cardinality(B) = 0
    BY <1>1, <1>3, <1>4
  <1>6. B = {}
    BY <1>2, <1>5, FS_EmptySet
  <1> QED
    BY <1>5, <1>6 DEF B

(* The instruction commit names as the next one is the oldest that stays.   *)
LEMMA NextHandled ==
    ASSUME IssueInv, step = "issue", NEW k \in 1 .. Len(rob), rob[k].op \in Open(rob),
           feedback.next_handle_rob_id = rob[k].op.id
    PROVE  k = feedback.retire + 1
  <1>1. /\ rob \in Seq(Entry) /\ Len(rob) \in Nat /\ Len(rob) <= RobSize /\ IdsOK(rob, new_id)
        /\ feedback.retire \in Nat /\ feedback.retire <= Len(rob)
        /\ \A j \in 1 .. feedback.retire : rob[j].done = "ok"
    BY DEF IssueInv, TypeInv, IdsInv, PassInv
  <1>2. PICK n \in Nat : n = feedback.retire
    BY <1>1
  <1>3. \A i, j \in 1 .. Len(rob) : (rob[i].op = rob[j].op => i = j) /\ (rob[i].op.id = rob[j].op.id => i = j)
    BY <1>1, IdsDiffer
  <1>4. rob[k].done = "no"
    BY <1>3 DEF Open
  <1>5. n < Len(rob)
    <2>1. ~ (k <= n)
      BY <1>1, <1>2, <1>4
    <2> QED
      BY <1>1, <1>2, <2>1
  <1>6. feedback.next_handle_rob_id = rob[n + 1].op.id
    BY <1>2, <1>5 DEF IssueInv, PassInv
  <1>7. n + 1 \in 1 .. Len(rob)
    BY <1>1, <1>5
  <1> QED
    BY <1>2, <1>3, <1>6, <1>7

(* A barrier is sent alone and as the oldest.                               *)
LEMMA IssueSent ==
    ASSUME NEW list, NEW d, NEW r, IssueStep(list, d, r)
    PROVE  SentInv'
  <1>0. /\ rob' = rob /\ feedback' = feedback /\ stored' = stored /\ IssueInv /\ step = "issue"
        /\ is_inst_waiting' = d.waiting /\ inst_waiting_rob_id' = d.waiting_id
    BY DEF IssueStep
  <1>1. PICK n \in Nat : n = feedback.retire /\ n <= Len(rob) /\ \A k \in 1 .. n : rob[k].done = "ok"
    BY <1>0 DEF IssueInv, TypeInv, PassInv
  <1>2. /\ SerialOK(rob, Lined, n, is_inst_waiting, inst_waiting_rob_id)
        /\ FenceOK(rob, Lined, n, stored)
    BY <1>0, <1>1 DEF IssueInv, SentInv
  <1>3. /\ Lined' = Lined \ Sent(list) /\ Sent(list) \subseteq Lined /\ Lined \subseteq Open(rob)
    BY IssueSets, IssueFacts DEF PlaceOK
  <1>4. \A j \in 1 .. Len(list) :
        /\ Serial(OpAt(list, j).kind) =>
              /\ Len(list) = 1 /\ feedback.next_handle_rob_id = OpAt(list, j).id
              /\ d.waiting /\ d.waiting_id = OpAt(list, j).id
        /\ OpAt(list, j).kind = "fence" =>
              StoreBufferEmpty /\ feedback.next_handle_rob_id = OpAt(list, j).id
    BY DEF IssueStep, SelectedOK
  <1>5. ASSUME NEW k \in 1 .. Len(rob), Serial(rob[k].op.kind), rob[k].op \notin Lined'
        PROVE  /\ k <= n + 1
               /\ k > n => /\ d.waiting /\ d.waiting_id = rob[k].op.id
                           /\ \A j \in k + 1 .. Len(rob) : rob[j].op \in Lined'
    <2>1. CASE rob[k].op \in Sent(list)
      <3>1. PICK i \in 1 .. Len(list) : rob[k].op = OpAt(list, i)
        BY <2>1 DEF Sent
      <3>2. /\ Len(list) = 1 /\ feedback.next_handle_rob_id = rob[k].op.id
            /\ d.waiting /\ d.waiting_id = rob[k].op.id
        BY <1>4, <1>5, <3>1
      <3>3. rob[k].op \in Open(rob)
        BY <1>3, <2>1
      <3>4. k = n + 1
        BY <1>0, <1>1, <3>2, <3>3, NextHandled
      <3>5. ASSUME NEW j \in k + 1 .. Len(rob) PROVE rob[j].op \in Lined'
        <4>0. j \in 1 .. Len(rob) /\ k < j
          BY IssueFacts
        <4>1. rob[j].op \in Lined
          <5>1. BarrierOK(rob, Lined)
            BY <1>0 DEF IssueInv, OrderInv
          <5>2. Barrier(rob[k].op.kind) /\ rob[k].op \in Lined
            BY <1>3, <1>5, <2>1 DEF Barrier
          <5> QED
            BY <4>0, <5>1, <5>2 DEF BarrierOK
        <4>2. ASSUME rob[j].op \in Sent(list) PROVE FALSE
          <5>1. PICK m \in 1 .. Len(list) : rob[j].op = OpAt(list, m)
            BY <4>2 DEF Sent
          <5>2. m = i
            BY <3>2
          <5>3. rob[j].op = rob[k].op
            BY <3>1, <5>1, <5>2
          <5> QED
            BY <4>0, <5>3, IssueFacts
        <4> QED
          BY <1>3, <4>1, <4>2
      <3> QED
        BY <3>2, <3>4, <3>5
    <2>2. CASE rob[k].op \notin Sent(list)
      <3>1. rob[k].op \notin Lined
        BY <1>3, <1>5, <2>2
      <3>2. /\ k <= n + 1
            /\ k > n => /\ is_inst_waiting /\ inst_waiting_rob_id = rob[k].op.id
                        /\ \A j \in k + 1 .. Len(rob) : rob[j].op \in Lined
        BY <1>2, <1>5, <3>1 DEF SerialOK
      <3>3. ASSUME k > n PROVE /\ d.waiting /\ d.waiting_id = rob[k].op.id
                               /\ \A j \in k + 1 .. Len(rob) : rob[j].op \in Lined'
        <4>1. ~ inst_waiting_ok
          <5>1. ASSUME NEW j \in 1 .. n, rob[j].op.id = inst_waiting_rob_id PROVE FALSE
            <6>1. j \in 1 .. Len(rob) /\ rob[j].op.id = rob[k].op.id
              BY <1>1, <3>2, <3>3, <5>1, IssueFacts
            <6>2. j = k
              BY <6>1, IssueFacts
            <6> QED
              BY <3>3, <6>2
          <5> QED
            BY <1>1, <5>1 DEF inst_waiting_ok
        <4>2. ~ OutputEnabled
          BY <3>2, <3>3, <4>1 DEF OutputEnabled
        <4>3. list = << >> /\ d.waiting = is_inst_waiting /\ d.waiting_id = inst_waiting_rob_id
          BY <4>2 DEF IssueStep, SelectedOK
        <4>4. Sent(list) = {}
          BY <4>3 DEF Sent
        <4> QED
          BY <1>3, <3>2, <3>3, <4>3, <4>4
      <3> QED
        BY <3>2, <3>3
    <2> QED
      BY <2>1, <2>2
  <1>6. ASSUME NEW k \in 1 .. Len(rob), rob[k].op.kind = "fence", rob[k].op \notin Lined'
        PROVE  /\ k <= n + 1
               /\ k > n => stored = 0 /\ \A j \in 1 .. n : rob[j].op.kind # "store"
    <2>1. CASE rob[k].op \in Sent(list)
      <3>1. PICK i \in 1 .. Len(list) : rob[k].op = OpAt(list, i)
        BY <2>1 DEF Sent
      <3>2. StoreBufferEmpty /\ feedback.next_handle_rob_id = rob[k].op.id
        BY <1>4, <1>6, <3>1
      <3>3. rob[k].op \in Open(rob)
        BY <1>3, <2>1
      <3>4. k = n + 1
        BY <1>0, <1>1, <3>2, <3>3, NextHandled
      <3>5. stored = 0 /\ \A j \in 1 .. Len(rob) : rob[j].op.kind = "store" => rob[j].done # "ok"
        BY <3>2, EmptyBuffer, IssueFacts
      <3>6. \A j \in 1 .. n : j \in 1 .. Len(rob) /\ rob[j].done = "ok"
        BY <1>1, IssueFacts
      <3> QED
        BY <3>4, <3>5, <3>6
    <2>2. CASE rob[k].op \notin Sent(list)
      <3>1. rob[k].op \notin Lined
        BY <1>3, <1>6, <2>2
      <3> QED
        BY <1>2, <1>6, <3>1 DEF FenceOK
    <2> QED
      BY <2>1, <2>2
  <1>7. SerialOK(rob, Lined', n, d.waiting, d.waiting_id) /\ FenceOK(rob, Lined', n, stored)
    BY <1>5, <1>6 DEF SerialOK, FenceOK
  <1>8. SerialOK(rob', Lined', feedback'.retire, is_inst_waiting', inst_waiting_rob_id')
        /\ FenceOK(rob', Lined', feedback'.retire, stored')
    BY <1>0, <1>1, <1>7
  <1> QED
    BY <1>8 DEF SentInv, SerialOK, FenceOK

(* The wake-up flags of the queue, of the entries that enter and of what was*)
(* sent.                                                                    *)
LEMMA IssueOperands ==
    ASSUME NEW list, NEW d, NEW r, IssueStep(list, d, r)
    PROVE  OperandInv' /\ BitsInv'
  <1>0. /\ UNCHANGED <<rob, arf, data_valid, execute_wb, wb_commit, execute_feedback, wb_feedback, readreg_issue>>
        /\ step' = "front" /\ step = "issue" /\ IssueInv
    BY DEF IssueStep
  <1> DEFINE U == Undelivered
             E == execute_feedback
             W == wb_feedback
  <1>1. U' = U /\ Late' = Late /\ Executed' = Executed
    BY <1>0 DEF Undelivered, Late, Executed, Delivered
  <1>2. E = Delivered(execute_wb) /\ W = Delivered(wb_commit) /\ Late = E \cup W /\ U \cap (E \cup W) = {}
    <2>1. E = Delivered(execute_wb) /\ W = Delivered(wb_commit)
      BY <1>0 DEF IssueInv, PassInv
    <2>2. Late = E \cup W
      BY <1>0, <2>1, DeliveredTwo DEF Late
    <2>3. U \cap Delivered(execute_wb \cup wb_commit) = {}
      BY DEF Undelivered
    <2> QED
      BY <2>1, <2>2, <2>3, DeliveredTwo
  <1>3. data_valid = Owned(rob, arf) \ (U \cup E \cup W)
    BY <1>0, <1>2 DEF IssueInv, BitsInv
  <1>4. BitsInv'
    <2>1. Owned(rob, arf)' = Owned(rob, arf)
      BY <1>0 DEF Owned
    <2> QED
      BY <1>0, <1>1, <2>1 DEF IssueInv, BitsInv
  <1>5. \A k \in 1 .. Len(issue_q) : issue_q[k].waiting = issue_q[k].op.srcs \cap (U \cup E)
    BY <1>0 DEF IssueInv, OperandInv
  <1>6. \A k \in FirstInput + 1 .. Len(readreg_issue) :
          /\ readreg_issue[k].op.srcs \cap U \subseteq readreg_issue[k].waiting
          /\ readreg_issue[k].waiting \subseteq readreg_issue[k].op.srcs
    BY <1>0, IssueNumbers DEF IssueInv, OperandInv
  <1>7. \A o \in Lined : o.srcs \subseteq Owned(rob, arf)
    <2>1. Lined \subseteq Open(rob) /\ rob \in Seq(Entry)
      BY IssueFacts DEF PlaceOK
    <2>2. RegsOK(rob, arf) /\ arf \in [Arch -> Phy]
      BY <1>0 DEF IssueInv, RegsInv, TypeInv
    <2> QED
      BY <2>1, <2>2, OpenOwned
  <1>8. issue_q \in Seq(Item) /\ readreg_issue \in Seq(Item) /\ TypeInv
    BY <1>0 DEF IssueInv, TypeInv
  <1>9. \A item \in Item :
          /\ Woken(item).op = item.op /\ Woken(item).waiting = item.waiting \ (E \cup W)
          /\ Loaded(item).op = item.op /\ Loaded(item).waiting = item.waiting \ (data_valid \cup E \cup W)
    BY DEF Item, Woken, Loaded
  <1> HIDE DEF U, E, W
  <1>10. ASSUME NEW k \in 1 .. Len(issue_q') PROVE issue_q'[k].waiting = issue_q'[k].op.srcs \cap U
    <2>1. PICK K \in Nat : K = Len(r)
      BY QueueNext
    <2>2. PICK A \in Nat : A = Accepted
      BY IssueNumbers
    <2>3. PICK F \in Nat : F = FirstInput
      BY IssueNumbers
    <2>4. Len(issue_q') = K + A
      BY <2>1, <2>2, QueueNext
    <2>5. CASE k <= K
      <3>1. r[k] \in 1 .. Len(issue_q) /\ issue_q'[k] = Woken(issue_q[r[k]])
        BY <2>1, <2>5, QueueNext
      <3>2. PICK q \in Item : q = issue_q[r[k]] /\ q.waiting = q.op.srcs \cap (U \cup E)
        BY <1>5, <1>8, <3>1
      <3>3. issue_q'[k].op = q.op /\ issue_q'[k].waiting = q.waiting \ (E \cup W)
        BY <1>9, <3>1, <3>2
      <3> QED
        BY <1>2, <3>2, <3>3
    <2>6. CASE k > K
      <3>1. PICK j \in 1 .. A : j = k - K /\ k = K + j
        <4>1. k - K \in 1 .. A /\ k = K + (k - K)
          BY <2>4, <2>6
        <4> QED
          BY <4>1
      <3>2. F + j \in 1 .. Len(readreg_issue) /\ issue_q'[K + j] = Loaded(readreg_issue[F + j])
        BY <2>1, <2>2, <2>3, QueueNext
      <3>3. F + j \in F + 1 .. Len(readreg_issue)
        BY <3>2
      <3>4. PICK q \in Item : q = readreg_issue[F + j]
        BY <1>8, <3>2
      <3>5. q.op.srcs \cap U \subseteq q.waiting /\ q.waiting \subseteq q.op.srcs
        BY <1>6, <2>3, <3>3, <3>4
      <3>6. q.op.srcs \subseteq Owned(rob, arf)
        <4>1. q.op \in Lined
          BY <1>8, <2>3, <3>3, <3>4, LinedHas, IssueNumbers
        <4> QED
          BY <1>7, <4>1
      <3>7. issue_q'[k].op = q.op /\ issue_q'[k].waiting = q.waiting \ (data_valid \cup E \cup W)
        <4>1. issue_q'[k] = Loaded(q)
          BY <3>1, <3>2, <3>4
        <4>2. Loaded(q).op = q.op /\ Loaded(q).waiting = q.waiting \ (data_valid \cup E \cup W)
          BY <1>9
        <4> QED
          BY <4>1, <4>2
      <3> QED
        BY <1>2, <1>3, <3>5, <3>6, <3>7
    <2> QED
      BY <2>4, <2>5, <2>6
  <1>11. ASSUME NEW k \in PortFrom' + 1 .. Len(readreg_issue)
         PROVE  /\ readreg_issue[k].op.srcs \cap U \subseteq readreg_issue[k].waiting
                /\ readreg_issue[k].waiting \subseteq readreg_issue[k].op.srcs
    <2>1. PICK A \in Nat : A = Accepted
      BY IssueNumbers
    <2>2. PICK F \in Nat : F = FirstInput
      BY IssueNumbers
    <2>3. PortFrom' = F + A
      BY <2>1, <2>2, IssueNumbers
    <2>4. k \in F + 1 .. Len(readreg_issue)
      BY <2>3
    <2> QED
      BY <1>6, <2>2, <2>4
  <1>12. ASSUME NEW op \in Issued' \cup Executed PROVE op.srcs \cap U = {}
    <2>1. CASE op \in Issued \cup Executed
      BY <1>0, <2>1 DEF IssueInv, OperandInv, U
    <2>2. CASE op \in Sent(list)
      <3>1. PICK j \in 1 .. Len(list) : op = OpAt(list, j)
        BY <2>2 DEF Sent
      <3>2. PICK k \in 1 .. Len(issue_q) : k = list[j] /\ op = issue_q[k].op
        BY <3>1, IssueFacts DEF OpAt
      <3>3. Ready(issue_q[k])
        BY <3>2 DEF IssueStep, SelectedOK
      <3>4. issue_q[k].waiting \subseteq E
        BY <3>3 DEF Ready, E
      <3> QED
        BY <1>2, <1>5, <3>2, <3>4
    <2> QED
      BY <2>1, <2>2, IssueSets
  <1>13. Undelivered' = U /\ step' # "issue" /\ readreg_issue' = readreg_issue /\ Executed' = Executed
    BY <1>0, <1>1 DEF U
  <1>14. OperandInv'
    <2>1. \A k \in 1 .. Len(issue_q') : issue_q'[k].waiting = issue_q'[k].op.srcs \cap (Undelivered' \cup {})
      BY <1>10, <1>13
    <2> QED
      BY <1>11, <1>12, <1>13, <2>1 DEF OperandInv
  <1> QED
    BY <1>4, <1>14

(* The issue stage's step.                                                  *)
LEMMA IssueRunKeeps ==
    ASSUME IssueInv, IssueRun
    PROVE  IssueInv'
  <1>1. PICK list, d, r : IssueStep(list, d, r)
    BY IssueRunIs
  <1>2. PlaceInv' /\ SlotInv' /\ OrderInv' /\ SentInv' /\ OperandInv' /\ BitsInv'
    BY <1>1, IssuePlaces, IssueOrder, IssueSent, IssueOperands
  <1>3. /\ UNCHANGED <<feedback, rob, new_id, arf, data_valid, stored, rename_readreg, readreg_issue, held,
                   execute_wb, wb_commit, execute_feedback, wb_feedback>>
        /\ step' = "front" /\ step = "issue"
    BY <1>1 DEF IssueStep
  <1>4. IdsInv' /\ RegsInv'
    <2>1. IdsOK(rob', new_id') /\ RegsOK(rob', arf')
      BY <1>3 DEF IssueInv, IdsInv, RegsInv
    <2> QED
      BY <2>1 DEF IdsInv, IdsOK, RegsInv, RegsOK, Last
  <1>5. PassInv'
    BY <1>3 DEF IssueInv, PassInv, Delivered
  <1>6. TypeInv'
    <2>1. issue_q' \in Seq(Item) /\ Len(issue_q') <= IssueQueueSize
      BY <1>1, QueueNext
    <2>2. busy' \in BOOLEAN /\ last_index' \in Nat /\ (busy' => last_index' <= Len(readreg_issue'))
      BY <1>1, <1>3, IssueNumbers
    <2>3. /\ UnitsOK(units') /\ IndexOK(unit_index')
          /\ is_inst_waiting' \in BOOLEAN /\ inst_waiting_rob_id' \in RobId
      BY <1>1 DEF IssueStep, SelectedOK
    <2> QED
      BY <1>3, <2>1, <2>2, <2>3 DEF IssueInv, TypeInv, UnitsOK, IndexOK
  <1> QED
    BY <1>2, <1>4, <1>5, <1>6 DEF IssueInv

(* A step that changes nothing.                                             *)
LEMMA StutterKeeps ==
    ASSUME IssueInv, UNCHANGED vars
    PROVE  IssueInv'
  <1>0. UNCHANGED <<step, feedback, rob, new_id, arf, data_valid, stored, busy, last_index, issue_q,
                    is_inst_waiting, inst_waiting_rob_id, units, unit_index, rename_readreg, readreg_issue,
                    held, execute_wb, wb_commit, execute_feedback, wb_feedback>>
    BY DEF vars, retireVars, issueVars
  <1>1. TypeInv'
    BY <1>0 DEF IssueInv, TypeInv
  <1>2. IdsInv' /\ RegsInv'
    <2>1. IdsOK(rob', new_id') /\ RegsOK(rob', arf')
      BY <1>0 DEF IssueInv, IdsInv, RegsInv
    <2> QED
      BY <2>1 DEF IdsInv, IdsOK, RegsInv, RegsOK, Last
  <1>3. (\A u : SlotOps(u)' = SlotOps(u)) /\ Issued' = Issued
    BY <1>0, SlotsKept
  <1>4. Undelivered' = Undelivered /\ Late' = Late /\ Executed' = Executed /\ PortFrom' = PortFrom
    BY <1>0 DEF Undelivered, Late, Executed, PortFrom, FirstInput, Delivered
  <1>5. Line' = Line
    BY <1>0, <1>4 DEF Line, InLine
  <1>6. Lined' = Lined
    BY <1>5 DEF Lined
  <1>7. PassInv'
    BY <1>0, <1>3 DEF IssueInv, PassInv, Delivered
  <1>8. BitsInv'
    <2>1. Owned(rob, arf)' = Owned(rob, arf)
      BY <1>0 DEF Owned
    <2> QED
      BY <1>0, <1>4, <2>1 DEF IssueInv, BitsInv
  <1>9. PlaceInv' /\ SlotInv'
    <2>1. LineOK(rob', Line') /\ PlaceOK(rob', Lined', Issued', execute_wb', wb_commit')
      BY <1>0, <1>3, <1>5, <1>6 DEF IssueInv, PlaceInv
    <2>2. PlaceInv'
      BY <2>1 DEF PlaceInv, PlaceOK, LineOK, Open, OpsOf, Precedes
    <2>3. /\ \A u \in Unit : \A o \in SlotOps(u)' : op_unit(o.kind) = u
          /\ held' # None => /\ held'.kind = "store"
                             /\ \A o \in SlotOps("lsu")' : Precedes(rob', held', o)
      BY <1>0, <1>3 DEF IssueInv, SlotInv
    <2> QED
      BY <2>2, <2>3 DEF SlotInv, Precedes
  <1>10. OperandInv'
    BY <1>0, <1>3, <1>4 DEF IssueInv, OperandInv
  <1>11. OrderInv' /\ SentInv'
    <2>1. /\ BarrierOK(rob', Lined') /\ LsuOK(rob', Lined') /\ LsuOK(rob', Lined' \cup Issued')
          /\ SerialOK(rob', Lined', feedback'.retire, is_inst_waiting', inst_waiting_rob_id')
          /\ FenceOK(rob', Lined', feedback'.retire, stored')
      BY <1>0, <1>3, <1>6 DEF IssueInv, OrderInv, SentInv
    <2> QED
      BY <2>1 DEF OrderInv, SentInv, BarrierOK, LsuOK, SerialOK, FenceOK
  <1> QED
    BY <1>1, <1>2, <1>7, <1>8, <1>9, <1>10, <1>11 DEF IssueInv

(* The invariant is inductive.                                              *)
LEMMA NextKeeps ==
    IssueInv /\ [Next]_vars => IssueInv'
  <1> SUFFICES ASSUME IssueInv, [Next]_vars PROVE IssueInv'
    OBVIOUS
  <1>1. CASE \E n \in FlushPoints : Flush(n)
    BY <1>1, FlushKeeps
  <1>2. CASE BackRun
    BY <1>2, BackRunKeeps
  <1>3. CASE IssueRun
    BY <1>3, IssueRunKeeps
  <1>4. CASE FrontRun
    BY <1>4, FrontRunKeeps
  <1>5. CASE FrontStalled
    BY <1>5, FrontStalledKeeps
  <1>6. CASE UNCHANGED vars
    BY <1>6, StutterKeeps
  <1> QED
    BY <1>1, <1>2, <1>3, <1>4, <1>5, <1>6 DEF Next

(* The inductive invariant holds in every execution of the main loop, for   *)
(* every size of the ROB, the queue and the units and every width.          *)
THEOREM IssueInvariance == Spec => []IssueInv
  BY InitHolds, NextKeeps, PTL DEF Spec

-----------------------------------------------------------------------------
(* At a boundary the instructions in line are those that are unsent.        *)
LEMMA LinedIsUnsent ==
    ASSUME TypeInv, step = "back"
    PROVE  Lined = Unsent /\ Len(Line) = Len(rename_readreg) + PortLeft + Len(issue_q)
  <1>1. /\ FirstInput \in 0 .. Len(readreg_issue) /\ Len(readreg_issue) \in Nat
        /\ Len(issue_q) \in Nat /\ Len(rename_readreg) \in Nat /\ PortFrom = FirstInput
    BY PortFromIs DEF PortFrom
  <1>2. PICK F \in 0 .. Len(readreg_issue) : F = FirstInput
    BY <1>1
  <1>3. PICK L, P, R \in Nat : L = Len(issue_q) /\ P = Len(readreg_issue) - F /\ R = Len(rename_readreg)
    <2>1. Len(readreg_issue) - F \in Nat
      BY <1>1
    <2> QED
      BY <1>1, <2>1
  <1>4. /\ Len(Line) = L + P + R
        /\ \A k \in 1 .. L : Line[k] = issue_q[k].op
        /\ \A k \in 1 .. P : Line[L + k] = readreg_issue[F + k].op
        /\ \A k \in 1 .. R : Line[L + P + k] = rename_readreg[k]
    BY <1>1, <1>2, <1>3, LineIs
  <1>5. PortLeft = P
    BY <1>2, <1>3 DEF PortLeft
  <1>6. ASSUME NEW o \in Unsent PROVE o \in Lined
    BY <1>1, LinedHas DEF Unsent, Ported, Queued
  <1>7. ASSUME NEW k \in 1 .. Len(Line) PROVE Line[k] \in Unsent
    <2>1. CASE k <= L
      <3>1. k \in 1 .. Len(issue_q) /\ Line[k] = issue_q[k].op
        BY <1>3, <1>4, <2>1
      <3> QED
        BY <3>1 DEF Unsent, Queued
    <2>2. CASE k > L /\ k <= L + P
      <3>1. PICK j \in 1 .. P : k = L + j
        <4>1. k - L \in 1 .. P /\ k = L + (k - L)
          BY <2>2
        <4> QED
          BY <4>1
      <3>2. Line[k] = readreg_issue[F + j].op
        BY <1>4, <3>1
      <3>3. F + j \in F + 1 .. Len(readreg_issue)
        BY <1>1, <1>3
      <3> QED
        BY <1>2, <3>2, <3>3 DEF Unsent, Ported
    <2>3. CASE k > L + P
      <3>1. PICK j \in 1 .. R : k = L + P + j
        <4>1. k - (L + P) \in 1 .. R /\ k = L + P + (k - (L + P))
          BY <1>4, <2>3
        <4> QED
          BY <4>1
      <3>2. Line[k] = rename_readreg[j] /\ j \in 1 .. Len(rename_readreg)
        BY <1>3, <1>4, <3>1
      <3> QED
        BY <3>2 DEF Unsent, Ported
    <2> QED
      BY <1>4, <2>1, <2>2, <2>3
  <1>8. Len(Line) = Len(rename_readreg) + PortLeft + Len(issue_q)
    BY <1>3, <1>4, <1>5
  <1> QED
    BY <1>6, <1>7, <1>8 DEF Lined

(* No instruction stands in line twice.                                     *)
LEMMA LineInjective ==
    ASSUME IssueInv
    PROVE  /\ \A i, j \in 1 .. Len(Line) : Line[i] = Line[j] => i = j
           /\ \A i, j \in 1 .. Len(rob) : rob[i].op = rob[j].op => i = j
           /\ Len(Line) \in Nat /\ Len(rob) \in Nat
  <1>1. /\ rob \in Seq(Entry) /\ Len(rob) \in Nat /\ Len(rob) <= RobSize /\ IdsOK(rob, new_id)
        /\ LineOK(rob, Line) /\ TypeInv
    BY DEF IssueInv, TypeInv, IdsInv, PlaceInv
  <1>2. Len(Line) \in Nat
    BY <1>1, LineIs
  <1>3. \A i, j \in 1 .. Len(rob) : rob[i].op = rob[j].op => i = j
    BY <1>1, IdsDiffer
  <1>4. ASSUME NEW i \in 1 .. Len(Line), NEW j \in 1 .. Len(Line), i < j, Line[i] = Line[j] PROVE FALSE
    <2>1. PICK a, b \in 1 .. Len(rob) : a < b /\ rob[a].op = Line[i] /\ rob[b].op = Line[j]
      BY <1>1, <1>4 DEF LineOK, Precedes
    <2>2. a = b
      BY <1>3, <1>4, <2>1
    <2> QED
      BY <2>1, <2>2
  <1> QED
    BY <1>1, <1>2, <1>3, <1>4

(* Places and the line give the partition.                                  *)
LEMMA InvInOnePlace ==
    IssueInv => InOnePlace
  <1> SUFFICES ASSUME IssueInv, step = "back" PROVE InOnePlace
    BY DEF InOnePlace, Boundary
  <1> DEFINE open == {k \in 1 .. Len(rob) : rob[k].done = "no"}
             E == OpsOf(execute_wb)
             W == OpsOf(wb_commit)
  <1>0. /\ TypeInv /\ rob \in Seq(Entry) /\ Open(rob) = {rob[k].op : k \in open}
        /\ PlaceOK(rob, Lined, Issued, execute_wb, wb_commit)
    BY DEF IssueInv, TypeInv, PlaceInv, Open
  <1>1. Lined = Unsent /\ Len(Line) = Len(rename_readreg) + PortLeft + Len(issue_q)
    BY <1>0, LinedIsUnsent
  <1>2. Executed = E \cup W
    BY ExecutedIs
  <1>3. IsFiniteSet(Open(rob))
    BY <1>0, OpenFinite
  <1> HIDE DEF E, W
  <1>4. /\ Lined \cup Issued \cup Executed = Open(rob)
        /\ Lined \cap Issued = {} /\ (Lined \cup Issued) \cap Executed = {}
    BY <1>0, <1>2 DEF PlaceOK, E, W
  <1>5. IsFiniteSet(Lined) /\ IsFiniteSet(Issued) /\ IsFiniteSet(Executed) /\ IsFiniteSet(Lined \cup Issued)
    BY <1>3, <1>4, FS_Subset
  <1>6. Cardinality(Open(rob)) = Cardinality(Lined) + Cardinality(Issued) + Cardinality(Executed)
    <2>1. Cardinality(Lined \cup Issued) = Cardinality(Lined) + Cardinality(Issued)
      <3>1. Cardinality(Lined \cup Issued) =
              Cardinality(Lined) + Cardinality(Issued) - Cardinality(Lined \cap Issued)
        BY <1>5, FS_Union
      <3>2. Cardinality(Lined \cap Issued) = 0
        BY <1>4, FS_EmptySet
      <3>3. Cardinality(Lined) \in Nat /\ Cardinality(Issued) \in Nat
        BY <1>5, FS_CardinalityType
      <3> QED
        BY <3>1, <3>2, <3>3
    <2>2. Cardinality((Lined \cup Issued) \cup Executed) =
             Cardinality(Lined \cup Issued) + Cardinality(Executed)
      <3>1. Cardinality((Lined \cup Issued) \cup Executed) =
              Cardinality(Lined \cup Issued) + Cardinality(Executed)
                - Cardinality((Lined \cup Issued) \cap Executed)
        BY <1>5, FS_Union
      <3>2. Cardinality((Lined \cup Issued) \cap Executed) = 0
        BY <1>4, FS_EmptySet
      <3>3. Cardinality(Lined \cup Issued) \in Nat /\ Cardinality(Executed) \in Nat
        BY <1>5, FS_CardinalityType
      <3> QED
        BY <3>1, <3>2, <3>3
    <2> QED
      BY <1>4, <2>1, <2>2
  <1>7. Cardinality(Lined) = Len(Line)
    <2>0. PICK n \in Nat : n = Len(Line)
      BY LineInjective
    <2> DEFINE S == 1 .. n
               f == [k \in S |-> Line[k]]
    <2>1. /\ f = [k \in S |-> f[k]]
          /\ {f[k] : k \in S} = Lined
          /\ \A x, y \in S : f[x] = f[y] => x = y
      BY <2>0, LineInjective DEF Lined
    <2>2. IsFiniteSet(S) /\ Cardinality(S) = n
      <3>1. IsFiniteSet(1 .. n) /\ Cardinality(1 .. n) = IF 1 > n THEN 0 ELSE n - 1 + 1
        BY FS_Interval
      <3> QED
        BY <3>1
    <2> HIDE DEF f, S
    <2>3. Cardinality({f[k] : k \in S}) = Cardinality(S)
      BY <2>1, <2>2, ImageFinite
    <2> QED
      BY <2>0, <2>1, <2>2, <2>3
  <1>8. Cardinality(Open(rob)) = Cardinality(open)
    <2> DEFINE f == [k \in open |-> rob[k].op]
    <2>1. /\ f = [k \in open |-> f[k]]
          /\ {f[k] : k \in open} = Open(rob)
          /\ \A x, y \in open : f[x] = f[y] => x = y
      BY <1>0, LineInjective
    <2>2. IsFiniteSet(open)
      <3>1. IsFiniteSet(1 .. Len(rob)) /\ open \subseteq 1 .. Len(rob)
        BY LineInjective, FS_Interval
      <3> HIDE DEF open
      <3> QED
        BY <3>1, FS_Subset
    <2> HIDE DEF f, open
    <2>3. Cardinality({f[k] : k \in open}) = Cardinality(open)
      BY <2>1, <2>2, ImageFinite
    <2> QED
      BY <2>1, <2>3
  <1>9. Len(rename_readreg) + PortLeft + Len(issue_q) + Cardinality(Issued) + Cardinality(Executed)
          = Cardinality(open)
    BY <1>1, <1>6, <1>7, <1>8
  <1>10. Unsent \cup Issued \cup Executed = {rob[k].op : k \in open}
    BY <1>0, <1>1, <1>4
  <1> QED
    BY <1>9, <1>10 DEF InOnePlace

(* The flags of the queue are exact outside the issue step.                 *)
LEMMA InvOperandsExact ==
    IssueInv => OperandsExact
  BY DEF IssueInv, OperandInv, OperandsExact, Boundary

(* A serialising instruction is alone.                                      *)
LEMMA InvSerialAlone ==
    IssueInv => SerialAlone
  <1> SUFFICES ASSUME IssueInv, step = "back", NEW k \in 1 .. Len(rob), Serial(rob[k].op.kind),
                      rob[k].op \notin Unsent
               PROVE  k = 1 /\ \A j \in 2 .. Len(rob) : rob[j].op \in Unsent
    BY DEF SerialAlone, Boundary
  <1>1. Lined = Unsent
    BY LinedIsUnsent DEF IssueInv
  <1>2. SerialOK(rob, Lined, 0, is_inst_waiting, inst_waiting_rob_id)
    BY DEF IssueInv, SentInv, PassInv
  <1>3. k <= 0 + 1 /\ (k > 0 => \A j \in k + 1 .. Len(rob) : rob[j].op \in Lined)
    BY <1>1, <1>2 DEF SerialOK
  <1>4. k = 1
    BY <1>3
  <1> QED
    BY <1>1, <1>3, <1>4

(* A fence is the oldest and finds the buffer empty.                        *)
LEMMA InvFenceOrdered ==
    IssueInv => FenceOrdered
  <1> SUFFICES ASSUME IssueInv, step = "back", NEW k \in 1 .. Len(rob), rob[k].op.kind = "fence"
               PROVE  IF rob[k].op \in Unsent THEN \A j \in k + 1 .. Len(rob) : rob[j].op \in Unsent
                      ELSE k = 1 /\ stored = 0
    BY DEF FenceOrdered, Boundary
  <1>0. Len(rob) \in Nat
    BY LineInjective
  <1>1. Lined = Unsent
    BY LinedIsUnsent DEF IssueInv
  <1>2. FenceOK(rob, Lined, 0, stored) /\ BarrierOK(rob, Lined)
    BY DEF IssueInv, SentInv, PassInv, OrderInv
  <1>3. CASE rob[k].op \in Unsent
    <2>1. \A j \in k + 1 .. Len(rob) : j \in 1 .. Len(rob) /\ k < j
      BY <1>0
    <2>2. Barrier(rob[k].op.kind)
      BY DEF Barrier
    <2> QED
      BY <1>1, <1>2, <1>3, <2>1, <2>2 DEF BarrierOK
  <1>4. CASE rob[k].op \notin Unsent
    <2>1. k <= 0 + 1 /\ (k > 0 => stored = 0)
      BY <1>1, <1>2, <1>4 DEF FenceOK
    <2> QED
      BY <1>4, <2>1
  <1> QED
    BY <1>3, <1>4

(* Program order in the load/store unit.                                    *)
LEMMA InvMemoryInOrder ==
    IssueInv => MemoryInOrder
  <1> SUFFICES ASSUME IssueInv, step = "back" PROVE MemoryInOrder
    BY DEF MemoryInOrder, Boundary
  <1>1. Lined = Unsent
    BY LinedIsUnsent DEF IssueInv
  <1>2. LsuOK(rob, Unsent) /\ LsuOK(rob, Unsent \cup Issued)
    BY <1>1 DEF IssueInv, OrderInv
  <1> QED
    BY <1>2 DEF MemoryInOrder, LsuOK, Lsu

(* Every unfinished instruction of the ROB is in exactly one port, queue or *)
(* unit, and nothing else is, although issue::run takes the entries of      *)
(* item_id_list out of the middle of the queue, tests operands and units a  *)
(* second time before it sends them, and may leave the readreg port half    *)
(* consumed (busy, last_index).                                             *)
THEOREM SentOnce == Spec => []InOnePlace
  BY IssueInvariance, InvInOnePlace, PTL

(* No wake-up is lost and none is premature: an entry of the queue waits for*)
(* exactly the sources without a value, by whichever of the routes          *)
(* (execute_feedback, wb_feedback, the valid bits readreg has read cycles   *)
(* earlier) the value comes, and nothing is sent before its operands exist. *)
THEOREM WakeupsExact == Spec => []OperandsExact
  BY IssueInvariance, InvOperandsExact, PTL

(* From the cycle a CSR instruction or mret is sent until it retires it is  *)
(* the oldest instruction and no other one is sent: is_inst_waiting and the *)
(* next_handle_rob_id of the commit feedback hold the selection loop back,  *)
(* and the entries behind it in the same selection are not sent either.     *)
THEOREM SerialisedAlone == Spec => []SerialAlone
  BY IssueInvariance, InvSerialAlone, PTL

(* A fence is sent when all older instructions have retired and all their   *)
(* stores have left the store buffer, and before any younger instruction,   *)
(* although commit moves stores into the buffer in the same pass.           *)
THEOREM FencesOrdered == Spec => []FenceOrdered
  BY IssueInvariance, InvFenceOrdered, PTL

(* Loads and stores are sent to the LSU and leave it in program order,      *)
(* although the rest of the queue is sent out of order and the LSU may hold a*)
(* store while another operation waits in front of it.                      *)
THEOREM MemoryOrdered == Spec => []MemoryInOrder
  BY IssueInvariance, InvMemoryInOrder, PTL
=============================================================================
