---------------------------- MODULE RenameCommit ----------------------------
(***************************************************************************)
(* Register renaming and in-order retirement: pipeline::rename and         *)
(* pipeline::commit with the state they share (rat, rob,                   *)
(* checkpoint_buffer, the valid bits of phy_regfile).                      *)
(*                                                                         *)
(* One pass of the main loop is five steps in the order of main.cpp:       *)
(*   commit   retire finished instructions, or start or continue a flush   *)
(*   execute  everything between rename and wb, as the set `backend' of    *)
(*            instructions that finish in any order with any latency       *)
(*   rename   allocate physical registers, ROB entries and checkpoints     *)
(*   fetch    fetch and decode: any instruction stream, with the           *)
(*            checkpoint a predicted branch takes at fetch                 *)
(*   sync     the requests the stages queued with the *_sync methods       *)
(* Stages see the feedback of the commit of the same pass.                 *)
(***************************************************************************)
EXTENDS Rat

CONSTANTS RobSize,       \* ROB_SIZE
          CpSize,        \* CHECKPOINT_BUFFER_SIZE
          CommitWidth,   \* COMMIT_WIDTH
          RenameWidth,   \* RENAME_WIDTH
          FetchWidth,    \* FETCH_WIDTH
          FifoSize,      \* instructions held between fetch and rename
          Mix            \* the events of the instruction stream considered

ASSUME SizesAssumption == /\ RobSize \in Nat \ {0} /\ CpSize \in Nat \ {0}
                          /\ CommitWidth \in Nat \ {0}
                          /\ RenameWidth \in Nat \ {0}
                          /\ FetchWidth \in Nat \ {0}
                          /\ FifoSize \in Nat \ {0}
ASSUME NoCpAssumption == None \notin 0 .. CpSize - 1
ASSUME MixAssumption == Mix \subseteq {"predicted", "unpredicted", "exception", "interrupt"}

VARIABLES
    stage,                 \* the next step of the pass
    cur_state,             \* commit::cur_state
    rob_item_id,           \* commit: the entry a walk back ends at,
    restore_rob_item_id,   \* and the one to be undone next (0 otherwise)
    feedback,              \* commit_feedback_pack of this pass
    rat, rat_q,            \* rat and its sync_request_q
    rob, rob_q,            \* rob and its sync_request_q
    data_valid, reg_q,     \* phy_regfile's valid bits and sync_request_q
    cpb, cp_q,             \* checkpoint_buffer and its sync_request_q
    fifo,                  \* fetch_decode_fifo and decode_rename_fifo in one
    jump_wait,             \* fetch::jump_wait
    backend,               \* instructions between rename and wb
    wb_commit,             \* wb_commit_port
    arf                    \* history: the register of the last retired writer

commitVars == <<cur_state, rob_item_id, restore_rob_item_id, arf>>
vars == <<stage, commitVars, feedback, rat, rat_q, rob, rob_q, data_valid,
          reg_q, cpb, cp_q, fifo, jump_wait, backend, wb_commit>>

-----------------------------------------------------------------------------
(* The data.  An instruction leaves decode with its kind, the register it   *)
(* writes (0: none) and, when predicted, the checkpoint taken at fetch.     *)
RobId == 0 .. RobSize - 1
CpId == 0 .. CpSize - 1
Kind == {"plain", "jump"}
Op == [kind : Kind, rd : Arch \cup {None}, cp : CpId \cup {None}]
InFlight == [rob_id : RobId, rd_phy : Phy \cup {None}, kind : Kind,
             cp : CpId \cup {None}]
Result == [op : InFlight, has_exception : BOOLEAN, miss : BOOLEAN]
NoItem == [used |-> FALSE]
RobItem == [used : {TRUE}, new : Phy \cup {None}, old : Phy \cup {None},
            finish : BOOLEAN, has_exception : BOOLEAN, bru_op : BOOLEAN,
            miss : BOOLEAN, cp : CpId \cup {None}]
NoCp == [valid |-> {}, visible |-> {}]

(* The reorder buffer as a ring of ids (Fifo shows that the ring is a       *)
(* queue); entries outside the window are blanked.                          *)
RobIdAt(k) == (rob.rptr + k - 1) % RobSize      \* k-th oldest, from 1
RobAt(k) == rob.buf[RobIdAt(k)]
get_free_space == RobSize - rob.cnt
TailIdOneEarly == RobIdAt(IF rob.cnt > 1 THEN rob.cnt - 1 ELSE 1)   \* mutant
get_tail_id == RobIdAt(rob.cnt)
EmptyRob == [buf |-> [i \in RobId |-> NoItem], rptr |-> 0, cnt |-> 0]

EmptyCpb == [buf |-> [i \in CpId |-> NoCp], rptr |-> 0, cnt |-> 0]
InRing(ring, size, id) == \E k \in 0 .. ring.cnt - 1 : id = (ring.rptr + k) % size

NoFeedback == [flush |-> FALSE, jump_enable |-> FALSE]

Init == /\ stage = "commit"
        /\ cur_state = "normal"
        /\ rob_item_id = 0 /\ restore_rob_item_id = 0
        /\ feedback = NoFeedback
        /\ arf \in {m \in [Arch -> Phy] : \A a, b \in Arch : m[a] = m[b] => a = b}
        /\ rat = init_rat(arf) /\ rat_q = << >>
        /\ rob = EmptyRob /\ rob_q = [pop |-> 0, done |-> {}]
        /\ data_valid = {arf[a] : a \in Arch} /\ reg_q = << >>
        /\ cpb = EmptyCpb /\ cp_q = [pop |-> FALSE, set |-> << >>]
        /\ fifo = << >> /\ jump_wait = FALSE
        /\ backend = {} /\ wb_commit = {}

-----------------------------------------------------------------------------
(* Commit, state normal.  The retire loop visits an entry when all older    *)
(* ones of the group were retired and none of them was a branch: a branch   *)
(* always ends the group.                                                   *)
Visited == {k \in 1 .. rob.cnt : /\ k <= CommitWidth
                                 /\ \A j \in 1 .. k - 1 : /\ RobAt(j).finish
                                                          /\ ~ RobAt(j).has_exception
                                                          /\ ~ RobAt(j).bru_op}
Retired == {k \in Visited : RobAt(k).finish /\ ~ RobAt(k).has_exception}
RetireNum == CHOOSE n \in 0 .. rob.cnt : Retired = 1 .. n
Faulting == {k \in Visited : RobAt(k).finish /\ RobAt(k).has_exception}

RetireWithoutRelease(item) ==                    \* mutant of RetireRequest
    [op |-> "retire", new |-> item.new, old |-> None]

(* The requests of the retired entries: the register an entry has replaced  *)
(* is released, its own is committed.                                       *)
RetireRequest(item) == [op |-> "retire", new |-> item.new, old |-> item.old]
RetireRequests == [k \in 1 .. RetireNum |-> RetireRequest(RobAt(k))]
RetireRegs == [k \in 1 .. RetireNum |-> [op |-> "clear", phy |-> RobAt(k).old]]

UneditedCp(item) == cpb.buf[item.cp]             \* mutant of EditedCp

(* The checkpoint of a mispredicted branch as commit edits it: the register *)
(* the branch itself replaced and every hidden register become free.        *)
EditedCp(item) ==
    LET cp == cpb.buf[item.cp]
    IN  [valid   |-> (cp.valid \ {item.old}) \cap cp.visible,
         visible |-> cp.visible]

(* The asserts of that path: cp_release_map and `_cnt == 31'.               *)
EditedCpOk(item) ==
    LET cp == cpb.buf[item.cp]
    IN  /\ item.old # None => item.old \in cp.valid /\ item.old \notin cp.visible
        /\ Cardinality(cp.visible) = Cardinality(Arch)

DropInputWhenRetiring ==                         \* mutant of HandleInput
    rob_q' = [pop |-> RetireNum, done |-> IF RetireNum > 0 THEN {} ELSE wb_commit]

(* handle input: the results wb delivered are entered into the ROB.         *)
HandleInput == rob_q' = [pop |-> RetireNum, done |-> wb_commit]

(* Register a lives where its newest writer among the n oldest entries puts *)
(* it, else where its last retired writer did.                              *)
Writers(a, n) == {k \in 1 .. n : RobAt(k).new # None /\ rat.table[RobAt(k).new] = a}
Newest(ks) == CHOOSE k \in ks : \A j \in ks : j <= k
MapAfter(a, n) == IF Writers(a, n) = {} THEN arf[a] ELSE RobAt(Newest(Writers(a, n))).new
RetireArf == arf' = [a \in Arch |-> MapAfter(a, RetireNum)]

(* What all outcomes of the retire loop do.                                 *)
RetireGroup == /\ rat_q' = RetireRequests
               /\ reg_q' = RetireRegs
               /\ RetireArf

LastBranch == IF RetireNum > 0 /\ RobAt(RetireNum).bru_op THEN RobAt(RetireNum) ELSE NoItem

NeverPop == FALSE                                \* mutant of PopCheckpoint

(* The branch at the end of the group was predicted: its checkpoint, the    *)
(* oldest, is no longer needed.                                             *)
PopCheckpoint == LastBranch.used /\ LastBranch.cp # None

(* The loop ends without a flush: nothing retired, a group of plain         *)
(* instructions, a group that ends with a correctly predicted branch (its   *)
(* checkpoint is popped) or with an unpredicted jump (fetch is told).       *)
CommitRetire ==
    /\ stage = "commit" /\ cur_state = "normal"
    /\ Faulting = {}
    /\ ~ (LastBranch.used /\ LastBranch.miss)
    /\ RetireGroup
    /\ HandleInput
    /\ cp_q' = [cp_q EXCEPT !.pop = PopCheckpoint]
    /\ feedback' = [flush |-> FALSE,
                    jump_enable |-> LastBranch.used /\ LastBranch.cp = None]
    /\ stage' = "execute"
    /\ UNCHANGED <<cur_state, rob_item_id, restore_rob_item_id, rat, rob,
                   data_valid, cpb, fifo, jump_wait, backend, wb_commit>>

(* The group ends with a mispredicted branch: rat and phy_regfile go back   *)
(* to its checkpoint at sync, the ROB and the checkpoint buffer are emptied *)
(* at once.                                                                 *)
CommitMispredict ==
    /\ stage = "commit" /\ cur_state = "normal"
    /\ LastBranch.used /\ LastBranch.miss
    /\ LET cp == EditedCp(LastBranch)
       IN  /\ rat_q' = Append(RetireRequests, [op |-> "restore", cp |-> cp])
           /\ reg_q' = Append(RetireRegs, [op |-> "restore", valid |-> cp.visible])
    /\ rat' = [rat EXCEPT !.ok = @ /\ EditedCpOk(LastBranch)]
    /\ RetireArf
    /\ rob_q' = [pop |-> RetireNum, done |-> {}]
    /\ rob' = EmptyRob
    /\ cpb' = EmptyCpb
    /\ feedback' = [flush |-> TRUE, jump_enable |-> TRUE]
    /\ stage' = "execute"
    /\ UNCHANGED <<cur_state, rob_item_id, restore_rob_item_id,
                   data_valid, cp_q, fifo, jump_wait, backend, wb_commit>>

(* An entry with an exception is reached: the older ones are retired and a  *)
(* walk back from the tail to the faulting entry begins.                    *)
CommitException ==
    /\ stage = "commit" /\ cur_state = "normal"
    /\ \E k \in Faulting : rob_item_id' = RobIdAt(k)
    /\ restore_rob_item_id' = get_tail_id
    /\ RetireGroup
    /\ rob_q' = [pop |-> RetireNum, done |-> {}]
    /\ cur_state' = "flush"
    /\ feedback' = [flush |-> TRUE, jump_enable |-> FALSE]
    /\ stage' = "execute"
    /\ UNCHANGED <<rat, rob, data_valid, cpb, cp_q, fifo, jump_wait, backend, wb_commit>>

(* A pending enabled interrupt takes precedence over retirement: everything *)
(* in the ROB is to be undone.                                              *)
CommitInterrupt ==
    /\ stage = "commit" /\ cur_state = "normal"
    /\ "interrupt" \in Mix
    /\ rob.cnt > 0
    /\ rob_item_id' = RobIdAt(1)
    /\ restore_rob_item_id' = get_tail_id
    /\ cur_state' = "interrupt_flush"
    /\ feedback' = [flush |-> TRUE, jump_enable |-> FALSE]
    /\ stage' = "execute"
    /\ UNCHANGED <<arf, rat, rat_q, rob, rob_q, data_valid, reg_q,
                   cpb, cp_q, fifo, jump_wait, backend, wb_commit>>

get_prev_id == (restore_rob_item_id + RobSize - 1) % RobSize

(* The walk back ends at rob_item_id, or where the ROB has no older entry.  *)
WalkBackDone == \/ restore_rob_item_id = rob_item_id
                \/ ~ InRing(rob, RobSize, get_prev_id)

(* States flush and interrupt_flush: one entry is undone per cycle, from    *)
(* the tail to rob_item_id; then the ROB is emptied and fetch is sent to    *)
(* the trap handler.                                                        *)
CommitWalkBack ==
    /\ stage = "commit" /\ cur_state # "normal"
    /\ LET item == rob.buf[restore_rob_item_id]
           prev == get_prev_id
           last == WalkBackDone
       IN  /\ rat_q' = << [op |-> "restore_map", new |-> item.new, old |-> item.old] >>
           /\ reg_q' = << [op |-> "clear", phy |-> item.new] >>
           /\ rob' = IF last THEN EmptyRob ELSE rob
           /\ restore_rob_item_id' = IF last THEN 0 ELSE prev
           /\ rob_item_id' = IF last THEN 0 ELSE rob_item_id
           /\ cur_state' = IF last THEN "normal" ELSE cur_state
    /\ rat' = [rat EXCEPT !.ok = @ /\ InRing(rob, RobSize, restore_rob_item_id)]
    /\ feedback' = [flush |-> TRUE, jump_enable |-> FALSE]
    /\ stage' = "execute"
    /\ UNCHANGED <<arf, rob_q, data_valid, cpb, cp_q, fifo,
                   jump_wait, backend, wb_commit>>

-----------------------------------------------------------------------------
(* Execution and write back.  On a flush every stage drops what it holds.   *)
(* Otherwise any subset of the instructions in flight reaches wb, each with *)
(* its result; wb writes the register of those without an exception.        *)
FlushKeepsResults ==                             \* mutant of ExecuteFlush
    /\ stage = "execute" /\ feedback.flush
    /\ stage' = "rename"
    /\ UNCHANGED <<commitVars, feedback, rat, rat_q, rob, rob_q, data_valid,
                   reg_q, cpb, cp_q, fifo, jump_wait, backend, wb_commit>>
ExecuteFlush ==
    /\ stage = "execute" /\ feedback.flush
    /\ backend' = {} /\ wb_commit' = {}
    /\ stage' = "rename"
    /\ UNCHANGED <<commitVars, feedback, rat, rat_q, rob, rob_q, data_valid,
                   reg_q, cpb, cp_q, fifo, jump_wait>>

WriteBackFaulting(results) ==                    \* mutant of WriteBack
    [op |-> "set", phys |-> {r.op.rd_phy : r \in results} \ {None}]
WriteBack(results) ==
    LET good == {r \in results : r.op.rd_phy # None /\ ~ r.has_exception}
    IN  [op |-> "set", phys |-> {r.op.rd_phy : r \in good}]

Execute ==
    /\ stage = "execute" /\ ~ feedback.flush
    /\ \E done \in SUBSET backend :
       \E bad \in SUBSET {o \in done : o.kind = "plain" /\ "exception" \in Mix},
          miss \in SUBSET {o \in done : o.cp # None} :
          LET results == {[op |-> o, has_exception |-> o \in bad,
                           miss |-> o \in miss] : o \in done}
          IN  /\ backend' = backend \ done
              /\ wb_commit' = results
              /\ reg_q' = Append(reg_q, WriteBack(results))
    /\ stage' = "rename"
    /\ UNCHANGED <<commitVars, feedback, rat, rat_q, rob, rob_q, data_valid,
                   cpb, cp_q, fifo, jump_wait>>

-----------------------------------------------------------------------------
(* Rename.  The loop takes instructions from the fifo as long as the free   *)
(* registers cover those requested so far and the ROB has a free entry.     *)
Needs(k) == Cardinality({j \in 1 .. k : fifo[j].rd # None})
Renamable(k) == \A j \in 1 .. k : Needs(j) <= Cardinality(Free(rat)) /\ j <= get_free_space
RenameNum == CHOOSE n \in 0 .. RenameWidth :
                /\ n <= Len(fifo) /\ Renamable(n)
                /\ \A m \in n + 1 .. RenameWidth : ~ (m <= Len(fifo) /\ Renamable(m))

(* The registers handed to a group of n: distinct free ones to the writers. *)
Allocations(n) ==
    {new \in [1 .. n -> Free(rat) \cup {None}] :
        /\ \A k \in 1 .. n : new[k] = None <=> fifo[k].rd = None
        /\ \A j, k \in 1 .. n : j # k /\ new[j] = new[k] => new[j] = None}

GroupWriters(k) == {j \in 1 .. k - 1 : fifo[j].rd = fifo[k].rd}
OldPhyOfTable(new, k) ==                         \* mutant of OldPhy
    IF fifo[k].rd = None THEN None ELSE get_phy_id(rat, fifo[k].rd)

(* old_phy_reg_id: the target of the nearest older writer of the same       *)
(* register in the group, else the current mapping.                         *)
OldPhy(new, k) ==
    IF fifo[k].rd = None THEN None
    ELSE IF GroupWriters(k) = {} THEN get_phy_id(rat, fifo[k].rd)
    ELSE new[Newest(GroupWriters(k))]

NewItem(new, k) == [used |-> TRUE, new |-> new[k], old |-> OldPhy(new, k),
                    finish |-> FALSE, has_exception |-> FALSE,
                    bru_op |-> FALSE, miss |-> FALSE, cp |-> None]
NewRobId(k) == (rob.rptr + rob.cnt + k - 1) % RobSize

MapRequests(new, n) ==
    [k \in 1 .. n |-> [op |-> "set_map", arch |-> fifo[k].rd, new |-> new[k]]]

CpBeforeBranch(new, k) ==                        \* mutant of GlobalCp
    LET r == Applied(rat, MapRequests(new, k - 1))
    IN  [valid |-> r.valid, visible |-> r.visible]
(* global_cp after the first k instructions of the group.                   *)
GlobalCp(new, k) ==
    LET r == Applied(rat, MapRequests(new, k))
    IN  [valid |-> r.valid, visible |-> r.visible]

(* The checkpoints that are filled; None for an instruction without one.    *)
CheckpointRequests(new, n) ==
    [k \in 1 .. n |-> [id |-> fifo[k].cp, cp |-> GlobalCp(new, k)]]

Rename ==
    /\ stage = "rename" /\ ~ feedback.flush
    /\ LET n == RenameNum IN \E new \in Allocations(n) :
           /\ rat_q' = rat_q \o MapRequests(new, n)
           /\ rat' = [rat EXCEPT !.ok = @ /\ \A k \in 1 .. n : fifo[k].rd # None =>
                                        Cardinality(Mapped(rat, fifo[k].rd)) = 1]
           /\ rob' = [rob EXCEPT !.buf = [i \in RobId |->
                                   IF \E k \in 1 .. n : NewRobId(k) = i
                                   THEN NewItem(new, CHOOSE k \in 1 .. n : NewRobId(k) = i)
                                   ELSE @[i]],
                                 !.cnt = @ + n]
           /\ cp_q' = [cp_q EXCEPT !.set = CheckpointRequests(new, n)]
           /\ backend' = backend \cup
                {[rob_id |-> NewRobId(k), rd_phy |-> new[k],
                  kind |-> fifo[k].kind, cp |-> fifo[k].cp] : k \in 1 .. n}
           /\ fifo' = SubSeq(fifo, n + 1, Len(fifo))
    /\ stage' = "fetch"
    /\ UNCHANGED <<commitVars, feedback, rob_q, data_valid, reg_q, cpb,
                   jump_wait, wb_commit>>

(* rename::run while commit flushes or the issue stage stalls.              *)
RenameSkip ==
    /\ stage = "rename"
    /\ stage' = "fetch"
    /\ UNCHANGED <<commitVars, feedback, rat, rat_q, rob, rob_q, data_valid,
                   reg_q, cpb, cp_q, fifo, jump_wait, backend, wb_commit>>

-----------------------------------------------------------------------------
(* Fetch and decode.                                                        *)
FetchFlush ==
    /\ stage = "fetch" /\ feedback.flush
    /\ fifo' = << >> /\ jump_wait' = FALSE
    /\ stage' = "sync"
    /\ UNCHANGED <<commitVars, feedback, rat, rat_q, rob, rob_q, data_valid,
                   reg_q, cpb, cp_q, backend, wb_commit>>

(* After an unpredicted jump fetch waits for commit to announce its target. *)
FetchWait ==
    /\ stage = "fetch" /\ ~ feedback.flush /\ jump_wait
    /\ jump_wait' = ~ feedback.jump_enable
    /\ stage' = "sync"
    /\ UNCHANGED <<commitVars, feedback, rat, rat_q, rob, rob_q, data_valid,
                   reg_q, cpb, cp_q, fifo, backend, wb_commit>>

(* A fetch group is a run of plain instructions, ended early by a jump: a   *)
(* predicted one takes a checkpoint, and waits like an unpredicted one when *)
(* the checkpoint buffer is full.                                           *)
Plain == [kind : {"plain"}, rd : Arch \cup {None}, cp : {None}]
Jump(cp) == [kind : {"jump"}, rd : Arch \cup {None}, cp : {cp}]
NeverFull == FALSE                               \* mutant of CpFull
CpFull == cpb.cnt = CpSize
NewCpId == (cpb.rptr + cpb.cnt) % CpSize

Room == IF FifoSize - Len(fifo) < FetchWidth THEN FifoSize - Len(fifo) ELSE FetchWidth

FetchPlain ==
    /\ stage = "fetch" /\ ~ feedback.flush /\ ~ jump_wait
    /\ \E n \in 0 .. Room : \E g \in [1 .. n -> Plain] : fifo' = fifo \o g
    /\ stage' = "sync"
    /\ UNCHANGED <<commitVars, feedback, rat, rat_q, rob, rob_q, data_valid,
                   reg_q, cpb, cp_q, jump_wait, backend, wb_commit>>

FetchPredicted ==
    /\ stage = "fetch" /\ ~ feedback.flush /\ ~ jump_wait
    /\ "predicted" \in Mix /\ Room > 0 /\ ~ CpFull
    /\ \E n \in 0 .. Room - 1 : \E g \in [1 .. n -> Plain], j \in Jump(NewCpId) :
          fifo' = Append(fifo \o g, j)
    /\ cpb' = [cpb EXCEPT !.cnt = @ + 1]
    /\ stage' = "sync"
    /\ UNCHANGED <<commitVars, feedback, rat, rat_q, rob, rob_q, data_valid,
                   reg_q, cp_q, jump_wait, backend, wb_commit>>

FetchUnpredicted ==
    /\ stage = "fetch" /\ ~ feedback.flush /\ ~ jump_wait
    /\ Room > 0
    /\ "unpredicted" \in Mix \/ ("predicted" \in Mix /\ CpFull)
    /\ \E n \in 0 .. Room - 1 : \E g \in [1 .. n -> Plain], j \in Jump(None) :
          fifo' = Append(fifo \o g, j)
    /\ jump_wait' = TRUE
    /\ stage' = "sync"
    /\ UNCHANGED <<commitVars, feedback, rat, rat_q, rob, rob_q, data_valid,
                   reg_q, cpb, cp_q, backend, wb_commit>>

-----------------------------------------------------------------------------
(* rat.sync, rob.sync, phy_regfile.sync, checkpoint_buffer.sync.            *)
(* The valid bit of a register is what the last request about it says.      *)
Concerns(req, p) == \/ req.op = "clear" /\ req.phy = p
                    \/ req.op = "set" /\ p \in req.phys
                    \/ req.op = "restore"
Validates(req, p) == req.op = "set" \/ (req.op = "restore" /\ p \in req.valid)
RegSync(v, q) ==
    {p \in Phy : LET about == {j \in 1 .. Len(q) : Concerns(q[j], p)}
                 IN  IF about = {} THEN p \in v ELSE Validates(q[Newest(about)], p)}

Finished(item, r) ==
    [item EXCEPT !.finish = TRUE, !.has_exception = r.has_exception,
                 !.bru_op = r.op.kind # "plain", !.miss = r.miss, !.cp = r.op.cp]

(* The pops, then set_item of every result; a pop of an emptied ROB does    *)
(* nothing.                                                                 *)
RobSync ==
    LET n == IF rob.cnt = 0 THEN 0 ELSE rob_q.pop
        popped == {(rob.rptr + k) % RobSize : k \in 0 .. n - 1}
        result(i) == CHOOSE r \in rob_q.done : r.op.rob_id = i
    IN  [buf  |-> [i \in RobId |->
                     IF \E r \in rob_q.done : r.op.rob_id = i
                     THEN Finished(rob.buf[i], result(i))
                     ELSE IF i \in popped THEN NoItem ELSE rob.buf[i]],
         rptr |-> (rob.rptr + n) % RobSize,
         cnt  |-> rob.cnt - n]

CpSync ==
    LET filled(id) == {j \in 1 .. Len(cp_q.set) : cp_q.set[j].id = id}
        set == [id \in CpId |-> IF filled(id) = {} THEN cpb.buf[id]
                                ELSE cp_q.set[Newest(filled(id))].cp]
    IN  IF cp_q.pop /\ cpb.cnt > 0
        THEN [buf  |-> [set EXCEPT ![cpb.rptr] = NoCp],
              rptr |-> (cpb.rptr + 1) % CpSize,
              cnt  |-> cpb.cnt - 1]
        ELSE [cpb EXCEPT !.buf = set]

Sync ==
    /\ stage = "sync"
    /\ rat' = Applied(rat, rat_q)
    /\ rob' = RobSync
    /\ data_valid' = RegSync(data_valid, reg_q)
    /\ cpb' = CpSync
    /\ rat_q' = << >> /\ reg_q' = << >>
    /\ rob_q' = [pop |-> 0, done |-> {}]
    /\ cp_q' = [pop |-> FALSE, set |-> << >>]
    /\ feedback' = NoFeedback
    /\ stage' = "commit"
    /\ UNCHANGED <<commitVars, fifo, jump_wait, backend, wb_commit>>

Commit == \/ CommitRetire \/ CommitMispredict \/ CommitException
          \/ CommitInterrupt \/ CommitWalkBack
Fetch == \/ FetchFlush \/ FetchWait \/ FetchPlain
         \/ FetchPredicted \/ FetchUnpredicted

Next == Commit \/ ExecuteFlush \/ Execute \/ Rename \/ RenameSkip \/ Fetch \/ Sync

Spec == Init /\ [][Next]_vars
-----------------------------------------------------------------------------
(* Properties.  Most relate states at the start of a pass, when the queued  *)
(* requests have been applied.                                              *)
TypeOK ==
    /\ stage \in {"commit", "execute", "rename", "fetch", "sync"}
    /\ cur_state \in {"normal", "flush", "interrupt_flush"}
    /\ rob_item_id \in RobId /\ restore_rob_item_id \in RobId
    /\ feedback \in [flush : BOOLEAN, jump_enable : BOOLEAN]
    /\ rat \in RatType
    /\ rat_q \in Seq(Request)
    /\ rob \in [buf : [RobId -> RobItem \cup {NoItem}], rptr : RobId, cnt : 0 .. RobSize]
    /\ rob_q.pop \in 0 .. CommitWidth /\ rob_q.done \in SUBSET Result
    /\ data_valid \in SUBSET Phy
    /\ cpb \in [buf : [CpId -> CheckpointType], rptr : CpId, cnt : 0 .. CpSize]
    /\ cp_q.pop \in BOOLEAN
    /\ fifo \in Seq(Op) /\ Len(fifo) <= FifoSize
    /\ jump_wait \in BOOLEAN
    /\ backend \in SUBSET InFlight /\ wb_commit \in SUBSET Result
    /\ arf \in [Arch -> Phy]

Boundary == stage = "commit"

(* The entries whose mapping is in force: all, or while commit walks back   *)
(* those up to the one to be undone next.                                   *)
Position(id) == ((id + RobSize - rob.rptr) % RobSize) + 1
InForce == IF cur_state = "normal" THEN rob.cnt ELSE Position(restore_rob_item_id)

(* No assert of rat.h, of rename.cpp on its mappings or of commit.cpp on    *)
(* the checkpoint it restores can fail, in any interleaving of retirement,  *)
(* renaming, misprediction, exceptions and interrupts.                      *)
AssertionsHold == rat.ok

(* Precise state: each register has exactly one visible mapping, the one of *)
(* its newest writer in program order.  After a misprediction or a trap it  *)
(* is the mapping of the last retired writer (rat.h set_map, restore,       *)
(* restore_map; rename.cpp's in-group forwarding of old_phy_reg_id).        *)
MappingExact == Boundary => \A a \in Arch : Mapped(rat, a) = {MapAfter(a, InForce)}

(* Physical registers are neither leaked nor owned twice: those in use are  *)
(* exactly the retired mapping and the targets of the entries in force.     *)
InFlightPhys == {RobAt(k).new : k \in 1 .. InForce} \ {None}
NoRegisterLeak ==
    Boundary => /\ rat.valid = {arf[a] : a \in Arch} \cup InFlightPhys
                /\ Cardinality(rat.valid) =
                     Cardinality(Arch) + Cardinality({k \in 1 .. InForce : RobAt(k).new # None})

(* The integrity check of main.cpp (commented out there) at any cycle, also *)
(* in the middle of a walk back: one committed register per architectural   *)
(* register, that of the last retired writer, and its value is valid.       *)
CommittedExact == Boundary => \A a \in Arch : /\ Committed(rat, a) = {arf[a]}
                                             /\ arf[a] \in data_valid

(* The valid bits of phy_regfile: a register is readable exactly when its   *)
(* writer has delivered a result.  A register handed out by rename never    *)
(* carries the valid bit of its previous owner.                             *)
Pending == {o.rd_phy : o \in backend} \cup {r.op.rd_phy : r \in {x \in wb_commit : x.has_exception}}
           \cup {RobAt(k).new : k \in {j \in 1 .. rob.cnt : RobAt(j).has_exception}}
ValidBitsExact ==
    Boundary /\ cur_state = "normal" => data_valid = rat.valid \ Pending

(* The checkpoint of every predicted branch in the ROB is still allocated   *)
(* and, although commits go on after it was taken, still holds the mapping  *)
(* right after that branch; no two branches in flight share one.            *)
RobCp(k) ==
    LET id == RobIdAt(k)
        ops == backend \cup {r.op : r \in wb_commit}
    IN  IF RobAt(k).finish THEN RobAt(k).cp
        ELSE (CHOOSE o \in ops : o.rob_id = id).cp
CheckpointsExact ==
    Boundary /\ cur_state = "normal" =>
        LET inRob == {k \in 1 .. rob.cnt : RobCp(k) # None}
            inFifo == {k \in 1 .. Len(fifo) : fifo[k].cp # None}
        IN  /\ \A k \in inRob : /\ InRing(cpb, CpSize, RobCp(k))
                                /\ cpb.buf[RobCp(k)].visible = {MapAfter(a, k) : a \in Arch}
            /\ \A k \in inFifo : InRing(cpb, CpSize, fifo[k].cp)
            /\ \A j, k \in inRob : j # k => RobCp(j) # RobCp(k)
            /\ \A j, k \in inFifo : j # k => fifo[j].cp # fifo[k].cp
            /\ \A j \in inRob, k \in inFifo : RobCp(j) # fifo[k].cp

(* A result never reaches an entry of another instruction: whatever is in   *)
(* flight refers to an allocated, unfinished entry with the same target,    *)
(* although ids are reused as soon as the ROB is flushed.                   *)
ResultsMatchEntries ==
    Boundary /\ cur_state = "normal" =>
        \A o \in backend \cup {r.op : r \in wb_commit} :
            /\ InRing(rob, RobSize, o.rob_id)
            /\ ~ rob.buf[o.rob_id].finish
            /\ rob.buf[o.rob_id].new = o.rd_phy

(* The main loop never stops, an instruction in the back end finishes       *)
(* eventually (the units have bounded latency), and so the issue queue does *)
(* not stall rename forever.                                                *)
Completes(i) == Execute /\ \E o \in backend \ backend' : o.rob_id = i
FairSpec == /\ Spec
            /\ WF_vars(Next)
            /\ SF_vars(Rename)
            /\ \A i \in RobId : SF_vars(Completes(i))

(* No instruction stays in the ROB forever: it retires or is flushed, also  *)
(* when the free registers and the checkpoints have run out.                *)
EntryLeaves == \A i \in RobId : rob.buf[i].used ~> ~ rob.buf[i].used

(* Prediction resumes: as long as no trap is taken a full checkpoint buffer *)
(* gets room again, because the branches that hold the checkpoints retire   *)
(* in the order of the buffer (commit.cpp pop_sync).  A trap leaves the     *)
(* checkpoints of the branches it undoes in the buffer.                     *)
CheckpointsDrain == [](cur_state = "normal") => (CpFull ~> ~ CpFull)
=============================================================================
