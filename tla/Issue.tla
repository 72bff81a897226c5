------------------------------- MODULE Issue -------------------------------
(***************************************************************************)
(* The issue stage (pipeline/issue.cpp) with readreg before it and the     *)
(* execution units behind it: operands become available by three routes    *)
(* (register file, execute feedback, wb feedback), instructions leave the  *)
(* issue queue out of order, memory operations leave it in order, and CSR  *)
(* instructions, mret and fence are serialised.                            *)
(*                                                                         *)
(* A pass of the main loop without a flush is three steps:                 *)
(*   back    commit decides what retires, wb writes, the units execute     *)
(*   issue   issue::run                                                    *)
(*   front   readreg, rename and the sync calls                            *)
(* A pass with a flush is one step, since every stage drops what it holds. *)
(* Rename and retirement are those RenameCommit examines in detail; here   *)
(* the mapping is read off the ROB, and values are left out: what matters  *)
(* of an operand is whether its producer has delivered it.                 *)
(***************************************************************************)
EXTENDS Integers, Sequences, FiniteSets

CONSTANTS Arch, Phy,       \* architectural and physical registers
          None,
          RobSize,         \* ROB_SIZE
          CommitWidth,     \* COMMIT_WIDTH
          RenameWidth,     \* RENAME_WIDTH and READREG_WIDTH
          IssueQueueSize,  \* ISSUE_QUEUE_SIZE
          IssueWidth,      \* ISSUE_WIDTH
          StoreBufferSize, \* STORE_BUFFER_SIZE
          AluNum, MulNum,  \* ALU_UNIT_NUM, MUL_UNIT_NUM; one of each other unit
          Kinds,           \* the instructions of the stream considered
          Events           \* "flush": mispredictions and interrupts,
                           \* "fault": instructions with exceptions

ASSUME IssueSizesAssumption ==
    \A n \in {RobSize, CommitWidth, RenameWidth, IssueQueueSize, IssueWidth,
              StoreBufferSize, AluNum, MulNum} : n \in Nat \ {0}
ASSUME KindsAssumption ==
    /\ Kinds \subseteq {"alu", "mul", "div", "load", "store", "csr", "mret", "fence"}
    /\ Events \subseteq {"flush", "fault"}

VARIABLES
    step,                  \* the next step of the pass
    feedback,              \* commit: entries that retire, next_handle_rob_id
    rob, new_id,           \* entries in program order, the next id
    arf,                   \* the register of the last retired writer
    data_valid,            \* phy_regfile's valid bits
    rename_readreg, readreg_issue,         \* the ports before and after readreg
    busy, last_index,      \* issue: the input is not finished; where it is
    issue_q,
    is_inst_waiting, inst_waiting_rob_id,
    units, unit_index,     \* the issue_*_fifo and the round-robin positions
    held,                  \* lsu::hold_rev_pack while lsu::busy
    execute_wb, wb_commit, \* the ports after the units and after wb
    execute_feedback, wb_feedback,         \* the registers delivered in this pass
    stored                 \* committed entries of the store buffer

retireVars == <<rob, new_id, arf, data_valid, stored>>
issueVars == <<busy, last_index, issue_q, is_inst_waiting, inst_waiting_rob_id,
               units, unit_index>>
vars == <<step, feedback, retireVars, issueVars, rename_readreg, readreg_issue,
          held, execute_wb, wb_commit, execute_feedback, wb_feedback>>

-----------------------------------------------------------------------------
(* The data.  A decoded instruction has a kind, the register it writes and  *)
(* those it reads; a renamed one an id and physical registers.              *)
RobId == 0 .. RobSize - 1
Unit == {"alu", "bru", "csr", "div", "lsu", "mul"}
op_unit(kind) == CASE kind \in {"alu", "fence"}  -> "alu"
                   [] kind \in {"load", "store"} -> "lsu"
                   [] kind = "mret"              -> "bru"
                   [] kind \in {"csr", "div", "mul"} -> kind
UnitNum(u) == CASE u = "alu" -> AluNum [] u = "mul" -> MulNum [] OTHER -> 1

Sources(n) == {s \in SUBSET Arch : Cardinality(s) <= n}
Decoded == {d \in [kind : Kinds, rd : Arch \cup {None}, rs : Sources(2)] :
              /\ d.kind = "load" => d.rd # None
              /\ d.kind \in {"store", "mret", "fence"} => d.rd = None
              /\ d.kind \in {"load", "csr"} => d.rs \in Sources(1)
              /\ d.kind \in {"mret", "fence"} => d.rs = {}}
Op == [id : RobId, kind : Kinds, rd : Arch \cup {None}, phy : Phy \cup {None},
       srcs : SUBSET Phy]
ASSUME NoneAssumption == None \notin Phy \cup Arch \cup Op

(* What the ports, the queue and the ROB hold.                              *)
Item == [op : Op, waiting : SUBSET Phy]     \* waiting: the sources not loaded
Result == [op : Op, fault : BOOLEAN]
Entry == [op : Op, done : {"no", "ok", "fault"}]

Serial(kind) == kind \in {"csr", "mret"}
Delivered(results) == {r.op.phy : r \in {x \in results : ~ x.fault /\ x.op.rd # None}}

Init == /\ step = "back"
        /\ feedback = [retire |-> 0, next_handle_rob_id |-> 0]
        /\ rob = << >> /\ new_id = 0
        /\ arf \in {m \in [Arch -> Phy] : \A a, b \in Arch : m[a] = m[b] => a = b}
        /\ data_valid = {arf[a] : a \in Arch}
        /\ rename_readreg = << >> /\ readreg_issue = << >>
        /\ busy = FALSE /\ last_index = 0
        /\ issue_q = << >>
        /\ is_inst_waiting = FALSE /\ inst_waiting_rob_id = 0
        /\ units = [u \in Unit |-> [i \in 0 .. UnitNum(u) - 1 |-> None]]
        /\ unit_index = [u \in Unit |-> 0]
        /\ held = None
        /\ execute_wb = {} /\ wb_commit = {}
        /\ execute_feedback = {} /\ wb_feedback = {}
        /\ stored = 0

-----------------------------------------------------------------------------
(* Retirement.                                                              *)
Retirable == {n \in 0 .. CommitWidth :
                /\ n <= Len(rob)
                /\ \A k \in 1 .. n : rob[k].done = "ok"
                /\ \A k \in 1 .. n - 1 : rob[k].op.kind # "mret"}
RetireNum == CHOOSE n \in Retirable : \A m \in Retirable : m <= n
Faulting == /\ RetireNum < CommitWidth /\ RetireNum < Len(rob)
            /\ rob[RetireNum + 1].done = "fault"
            /\ \A k \in 1 .. RetireNum : rob[k].op.kind # "mret"

(* The registers of the architectural state after the ops of a sequence.    *)
MapAfter(ops, a) ==
    LET writers == {k \in 1 .. Len(ops) : ops[k].rd = a}
    IN  IF writers = {} THEN arf[a]
        ELSE ops[CHOOSE k \in writers : \A j \in writers : j <= k].phy
RobOps(n) == [k \in 1 .. n |-> rob[k].op]
ArfAfter(n) == [a \in Arch |-> MapAfter(RobOps(n), a)]
StoresIn(n) == Cardinality({k \in 1 .. n : rob[k].op.kind = "store"})

(* Where a flush may cut: before the oldest entry (an interrupt), before a  *)
(* faulting entry, after a mispredicted branch (one of the alu kind here).  *)
FlushPoints == (IF Faulting THEN {RetireNum} ELSE {})
          \cup (IF "flush" \in Events /\ rob # << >>
                THEN {0} \cup {n \in Retirable \ {0} : rob[n].op.kind = "alu"}
                ELSE {})

(* A pass with a flush, after n entries have retired.                       *)
Flush(n) ==
    /\ step = "back"
    /\ rob' = << >> /\ new_id' = 0
    /\ arf' = ArfAfter(n)
    /\ data_valid' = {arf'[a] : a \in Arch}
    /\ stored' = stored + StoresIn(n)
    /\ rename_readreg' = << >> /\ readreg_issue' = << >>
    /\ busy' = FALSE /\ is_inst_waiting' = FALSE
    /\ issue_q' = << >>
    /\ units' = [u \in Unit |-> [i \in DOMAIN units[u] |-> None]]
    /\ held' = None
    /\ execute_wb' = {} /\ wb_commit' = {}
    /\ UNCHANGED <<step, feedback, last_index, inst_waiting_rob_id, unit_index,
                   execute_feedback, wb_feedback>>

-----------------------------------------------------------------------------
(* Commit without a flush, wb and the execution units.                      *)
SlotOps(u) == {units[u][i] : i \in DOMAIN units[u]} \ {None}

(* Stores that have been executed, except in this pass, and not retired     *)
(* are in the store buffer with the committed ones.                         *)
BufferedStores(results) ==
    stored + Cardinality({r \in results : r.op.kind = "store" /\ ~ r.fault})
           + Cardinality({k \in 1 .. Len(rob) : rob[k].op.kind = "store" /\ rob[k].done = "ok"})
StoreBufferFull == BufferedStores(execute_wb \cup wb_commit) >= StoreBufferSize
StoreBufferEmpty == BufferedStores(wb_commit) = 0

(* One run of each unit: what it took from its fifo leaves for wb, with the *)
(* outcome in bad when it raises an exception.  Only ALU (illegal           *)
(* instructions, ecall, ebreak), CSR (no such register) and memory          *)
(* operations (misaligned addresses) do.                                    *)
Results(ops, bad) == {[op |-> o, fault |-> o \in bad] : o \in ops}
Faultable == {o \in SlotOps("alu") : o.kind = "alu"} \cup SlotOps("csr")
               \cup (IF held = None THEN SlotOps("lsu") ELSE {})
alu_run(bad) == Results(SlotOps("alu"), bad)
bru_run == Results(SlotOps("bru"), {})
csr_run(bad) == Results(SlotOps("csr"), bad)
div_run == Results(SlotOps("div"), {})
mul_run == Results(SlotOps("mul"), {})

(* The LSU works on the store it holds, if it does, and holds a store that  *)
(* meets a full store buffer.                                               *)
LsuWork == IF held = None THEN SlotOps("lsu") ELSE {held}
LsuHolds(bad) == {o \in LsuWork \ bad : o.kind = "store" /\ StoreBufferFull}
lsu_run(bad) == Results(LsuWork \ LsuHolds(bad), bad)

(* set_item of the results in wb_commit.                                    *)
Marked == [k \in 1 .. Len(rob) |->
             IF \E r \in wb_commit : r.op.id = rob[k].op.id
             THEN [rob[k] EXCEPT !.done = IF \E r \in wb_commit : r.op.id = rob[k].op.id /\ r.fault
                                          THEN "fault" ELSE "ok"]
             ELSE rob[k]]

BackRun ==
    /\ step = "back"
    /\ ~ Faulting
    /\ \E bad \in SUBSET (IF "fault" \in Events THEN Faultable ELSE {}) :
          LET results == alu_run(bad) \cup bru_run \cup csr_run(bad) \cup div_run
                           \cup lsu_run(bad) \cup mul_run
          IN  /\ held' = IF LsuHolds(bad) = {} THEN None ELSE CHOOSE o \in LsuHolds(bad) : TRUE
              /\ execute_wb' = results
              /\ execute_feedback' = Delivered(results)
    /\ units' = [u \in Unit |-> [i \in DOMAIN units[u] |->
                   IF u = "lsu" /\ held # None THEN units[u][i] ELSE None]]
    /\ wb_commit' = execute_wb
    /\ wb_feedback' = Delivered(execute_wb)
    /\ rob' = Marked
    /\ feedback' = [retire |-> RetireNum,
                    next_handle_rob_id |-> IF RetireNum < Len(rob) THEN rob[RetireNum + 1].op.id
                                           ELSE new_id]
    /\ step' = "issue"
    /\ UNCHANGED <<new_id, arf, data_valid, stored, busy, last_index, issue_q,
                   is_inst_waiting, inst_waiting_rob_id, unit_index,
                   rename_readreg, readreg_issue>>

-----------------------------------------------------------------------------
(* issue::run.                                                              *)
inst_waiting_ok == \E k \in 1 .. feedback.retire : rob[k].op.id = inst_waiting_rob_id
NeverReleased == ~ is_inst_waiting               \* mutant of OutputEnabled
OutputEnabled == ~ is_inst_waiting \/ inst_waiting_ok

Ready(item) == item.waiting \subseteq execute_feedback

FenceIgnoresBuffer(op, first) ==                 \* mutant of FenceTrigger
    op.kind = "fence" /\ (~ first \/ feedback.next_handle_rob_id # op.id)
FenceTrigger(op, first) ==
    op.kind = "fence" /\ \/ ~ StoreBufferEmpty
                         \/ ~ first
                         \/ feedback.next_handle_rob_id # op.id

SerialNotOldest(op, first) == Serial(op.kind) /\ ~ first       \* mutant
SerialTrigger(op, first) ==
    Serial(op.kind) /\ (~ first \/ feedback.next_handle_rob_id # op.id)

LsuOpIfTaken(acc, op, take) ==                   \* mutant of HasLsuOp
    acc.has_lsu_op \/ (take /\ op_unit(op.kind) = "lsu")
HasLsuOp(acc, op, take) == acc.has_lsu_op \/ op_unit(op.kind) = "lsu"

(* One iteration of the selection loop.  An instruction that is to be       *)
(* serialised ends the scan whether it is taken or not; a memory operation  *)
(* that is not taken keeps back the later ones.                             *)
SelectStep(acc, k) ==
    LET op == issue_q[k].op
        u == op_unit(op.kind)
        first == acc.list = << >>
        take == /\ Ready(issue_q[k])
                /\ acc.available[u] > 0
                /\ ~ (acc.has_lsu_op /\ u = "lsu")
                /\ ~ FenceTrigger(op, first)
    IN  IF acc.stop \/ Len(acc.list) = IssueWidth THEN acc
        ELSE IF SerialTrigger(op, first) THEN [acc EXCEPT !.stop = TRUE]
        ELSE [list       |-> IF take THEN Append(acc.list, k) ELSE acc.list,
              available  |-> IF take THEN [acc.available EXCEPT ![u] = @ - 1] ELSE acc.available,
              has_lsu_op |-> HasLsuOp(acc, op, take),
              stop       |-> Serial(op.kind) \/ FenceTrigger(op, first)]

(* The loop after n iterations, and item_id_list, as positions in the queue. *)
SelectLoop ==
    LET loop[n \in 0 .. Len(issue_q)] ==
            IF n = 0
            THEN [list |-> << >>, has_lsu_op |-> FALSE, stop |-> FALSE,
                  available |-> [u \in Unit |->
                       Cardinality({i \in DOMAIN units[u] : units[u][i] = None})]]
            ELSE SelectStep(loop[n - 1], n)
    IN  loop
Selection == IF OutputEnabled THEN SelectLoop[Len(issue_q)].list ELSE << >>

(* The round-robin search for a unit that is not full.                      *)
FreeUnits(d, u) == {j \in 0 .. UnitNum(u) - 1 :
                      d.units[u][(d.index[u] + j) % UnitNum(u)] = None}
FoundUnit(d, u) == (d.index[u] + (CHOOSE j \in FreeUnits(d, u) :
                                    \A i \in FreeUnits(d, u) : j <= i)) % UnitNum(u)

(* One iteration of the loop that sends the selected instructions.  It ends *)
(* where an operand or a unit is missing, and behind a serialised           *)
(* instruction.                                                             *)
DispatchStep(d, k) ==
    LET item == issue_q[k]
        u == op_unit(item.op.kind)
        found == FoundUnit(d, u)
        waits == IF Serial(item.op.kind)
                 THEN [d EXCEPT !.waiting = TRUE, !.waiting_id = item.op.id] ELSE d
    IN  IF d.stop THEN d
        ELSE IF ~ (item.waiting \subseteq execute_feedback \cup wb_feedback)
                  \/ FreeUnits(d, u) = {}
        THEN [waits EXCEPT !.stop = TRUE]
        ELSE [waits EXCEPT !.units[u][found] = item.op,
                           !.index[u] = (found + 1) % UnitNum(u),
                           !.stop = waits.waiting]

(* is_inst_waiting is cleared first when output is enabled.                 *)
DispatchLoop(list) ==
    LET loop[n \in 0 .. Len(list)] ==
            IF n = 0
            THEN [units |-> units, index |-> unit_index, stop |-> FALSE,
                  waiting |-> is_inst_waiting /\ ~ OutputEnabled,
                  waiting_id |-> inst_waiting_rob_id]
            ELSE DispatchStep(loop[n - 1], list[n])
    IN  loop
Dispatched(list) == DispatchLoop(list)[Len(list)]

(* compress: the positions that are not in the list, in order.              *)
Remaining(list) ==
    LET rest[n \in 0 .. Len(issue_q)] ==
            IF n = 0 THEN << >>
            ELSE IF \E j \in 1 .. Len(list) : list[j] = n THEN rest[n - 1]
            ELSE Append(rest[n - 1], n)
    IN  rest

(* handle queue: the entries that stay are woken up.                        *)
WokenByWb(item) == [item EXCEPT !.waiting = @ \ wb_feedback]       \* mutant of Woken
Woken(item) == [item EXCEPT !.waiting = @ \ (execute_feedback \cup wb_feedback)]

(* handle input: a last look at the registers.                              *)
Loaded(item) ==
    [item EXCEPT !.waiting = @ \ (data_valid \cup execute_feedback \cup wb_feedback)]

(* A stalled input goes on where it stopped, a new one starts at 0; as many *)
(* entries are taken as the queue has room for before it is compressed.     *)
StaleIndex == last_index                         \* mutant of FirstInput
FirstInput == IF busy THEN last_index ELSE 0
PortLeft == Len(readreg_issue) - FirstInput
Accepted == IF IssueQueueSize - Len(issue_q) < PortLeft
            THEN IssueQueueSize - Len(issue_q) ELSE PortLeft

IssueRun ==
    /\ step = "issue"
    /\ LET list == Selection
           sent == Dispatched(list)
           kept == Remaining(list)[Len(issue_q)]
           input == SubSeq(readreg_issue, FirstInput + 1, FirstInput + Accepted)
       IN  /\ issue_q' = [j \in 1 .. Len(kept) |-> Woken(issue_q[kept[j]])]
                           \o [j \in 1 .. Len(input) |-> Loaded(input[j])]
           /\ units' = sent.units /\ unit_index' = sent.index
           /\ is_inst_waiting' = sent.waiting
           /\ inst_waiting_rob_id' = sent.waiting_id
    /\ busy' = (Accepted < PortLeft)
    /\ last_index' = IF busy' THEN FirstInput + Accepted ELSE 0
    /\ step' = "front"
    /\ UNCHANGED <<feedback, retireVars, rename_readreg, readreg_issue, held,
                   execute_wb, wb_commit, execute_feedback, wb_feedback>>

-----------------------------------------------------------------------------
(* Readreg, rename and the end of the pass.                                 *)
Free == Phy \ ({arf[a] : a \in Arch} \cup {rob[k].op.phy : k \in 1 .. Len(rob)})
Writing(group) == {k \in DOMAIN group : group[k].rd # None}
Renamable(group) == /\ Len(rob) + Len(group) <= RobSize
                    /\ Cardinality(Writing(group)) <= Cardinality(Free)
Allocations(group) ==
    {new \in [1 .. Len(group) -> Free \cup {None}] :
        /\ \A k \in 1 .. Len(group) : new[k] = None <=> group[k].rd = None
        /\ \A j, k \in 1 .. Len(group) : j # k /\ new[j] = new[k] => new[j] = None}

(* A group with its ids, targets and sources; a source may be the target of *)
(* an older instruction of the group.                                       *)
Targets(group, new, n) == [k \in 1 .. n |-> [rd |-> group[k].rd, phy |-> new[k]]]
RobTargets == [k \in 1 .. Len(rob) |-> [rd |-> rob[k].op.rd, phy |-> rob[k].op.phy]]
Renamed(group, new) ==
    [k \in 1 .. Len(group) |->
        [id |-> (new_id + k - 1) % RobSize, kind |-> group[k].kind,
         rd |-> group[k].rd, phy |-> new[k],
         srcs |-> {MapAfter(RobTargets \o Targets(group, new, k - 1), a) : a \in group[k].rs}]]

readreg(op) == [op |-> op,
                waiting |-> op.srcs \ (data_valid \cup execute_feedback \cup wb_feedback)]

(* rob, phy_regfile and store buffer at the end of a pass: n entries        *)
(* retire, their old registers become invalid, a committed store drains.    *)
SyncPass(n, ops) ==
    LET after == ArfAfter(n)
        released == ({arf[a] : a \in Arch} \cup {rob[k].op.phy : k \in 1 .. n})
                      \ {after[a] : a \in Arch}
    IN  /\ rob' = SubSeq(rob, n + 1, Len(rob))
                    \o [k \in 1 .. Len(ops) |-> [op |-> ops[k], done |-> "no"]]
        /\ arf' = after
        /\ data_valid' = (data_valid \ released) \cup wb_feedback
        /\ stored' = (IF stored > 0 THEN stored - 1 ELSE 0) + StoresIn(n)
        /\ new_id' = (new_id + Len(ops)) % RobSize
        /\ execute_feedback' = {} /\ wb_feedback' = {}
        /\ feedback' = [retire |-> 0, next_handle_rob_id |-> 0]
        /\ step' = "back"

FrontRun ==
    /\ step = "front" /\ ~ busy
    /\ readreg_issue' = [k \in 1 .. Len(rename_readreg) |-> readreg(rename_readreg[k])]
    /\ \E n \in 0 .. RenameWidth : \E group \in [1 .. n -> Decoded] :
          /\ Renamable(group)
          /\ \E new \in Allocations(group) :
                /\ rename_readreg' = Renamed(group, new)
                /\ SyncPass(feedback.retire, Renamed(group, new))
    /\ UNCHANGED <<issueVars, held, execute_wb, wb_commit>>

(* The issue stage stalls readreg and rename: their ports keep their value. *)
FrontStalled ==
    /\ step = "front" /\ busy
    /\ SyncPass(feedback.retire, << >>)
    /\ UNCHANGED <<issueVars, held, execute_wb, wb_commit, rename_readreg, readreg_issue>>

Next == (\E n \in FlushPoints : Flush(n)) \/ BackRun \/ IssueRun \/ FrontRun \/ FrontStalled

Spec == Init /\ [][Next]_vars

(* The main loop never stops: its steps go on forever.                      *)
LoopRuns == []<><<step' # step>>_vars
FairSpec == Spec /\ LoopRuns

-----------------------------------------------------------------------------
(* Properties.  They relate states at the start of a pass.                  *)
Boundary == step = "back"
Ported == {rename_readreg[k] : k \in 1 .. Len(rename_readreg)}
            \cup {readreg_issue[k].op : k \in FirstInput + 1 .. Len(readreg_issue)}
Queued == {issue_q[k].op : k \in 1 .. Len(issue_q)}
Issued == (UNION {SlotOps(u) : u \in Unit}) \cup ({held} \ {None})
Executed == {r.op : r \in execute_wb \cup wb_commit}
Unsent == Ported \cup Queued

(* Every instruction is sent exactly once: an unfinished entry of the ROB   *)
(* is in exactly one port, queue or unit, and nothing else is.  In          *)
(* particular what the selection takes off the queue is sent, although      *)
(* operands and units are tested a second time before it is (issue.cpp's    *)
(* item_id_list), and a stalled input is neither lost nor repeated.         *)
InOnePlace ==
    Boundary =>
        LET open == {k \in 1 .. Len(rob) : rob[k].done = "no"}
        IN  /\ Unsent \cup Issued \cup Executed = {rob[k].op : k \in open}
            /\ Len(rename_readreg) + PortLeft + Len(issue_q)
                 + Cardinality(Issued) + Cardinality(Executed) = Cardinality(open)

(* The registers whose writer has not delivered its result.                 *)
Undelivered ==
    {rob[k].op.phy : k \in {j \in 1 .. Len(rob) :
        /\ rob[j].op.rd # None
        /\ rob[j].done # "ok"
        /\ rob[j].op.phy \notin Delivered(execute_wb \cup wb_commit)}}

(* No wake-up is lost and none is premature: an operand in the queue is     *)
(* missing exactly as long as its writer has not delivered, whichever of    *)
(* the three routes it takes and however long the input was stalled, and an *)
(* instruction that was sent has all its operands.                          *)
OperandsExact ==
    Boundary => /\ \A k \in 1 .. Len(issue_q) :
                      issue_q[k].waiting = issue_q[k].op.srcs \cap Undelivered
                /\ \A op \in Issued \cup Executed : op.srcs \cap Undelivered = {}

(* CSR instructions and mret run alone: from the cycle they are sent until  *)
(* they retire they are the oldest instruction and no other one is sent     *)
(* (is_inst_waiting, next_handle_rob_id).                                   *)
SerialAlone ==
    Boundary => \A k \in 1 .. Len(rob) :
        Serial(rob[k].op.kind) /\ rob[k].op \notin Unsent =>
            k = 1 /\ \A j \in 2 .. Len(rob) : rob[j].op \in Unsent

(* A fence is sent when all older instructions have retired and all their   *)
(* stores have left the store buffer, and before any younger instruction.   *)
FenceOrdered ==
    Boundary => \A k \in 1 .. Len(rob) : rob[k].op.kind = "fence" =>
        IF rob[k].op \in Unsent THEN \A j \in k + 1 .. Len(rob) : rob[j].op \in Unsent
        ELSE k = 1 /\ stored = 0

(* Loads and stores are sent and executed in program order, although the    *)
(* LSU may hold a store while another operation waits in front of it.       *)
MemoryInOrder ==
    Boundary => \A j, k \in 1 .. Len(rob) :
        j < k /\ op_unit(rob[j].op.kind) = "lsu" /\ op_unit(rob[k].op.kind) = "lsu" =>
            /\ rob[j].op \in Unsent => rob[k].op \in Unsent
            /\ rob[j].op \in Unsent \cup Issued => rob[k].op \in Unsent \cup Issued

(* Nothing blocks the issue queue for good: every instruction leaves the    *)
(* ROB, by retiring or by a flush, although rename, the queue, the LSU, the *)
(* store buffer and the serialised instructions wait for each other.  This  *)
(* is what RenameCommit assumes of the back end.                            *)
Progress == \A i \in RobId : (\E k \in 1 .. Len(rob) : rob[k].op.id = i)
                               ~> ~ \E k \in 1 .. Len(rob) : rob[k].op.id = i
=============================================================================
