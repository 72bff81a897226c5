------------------------------- MODULE Trap -------------------------------
(***************************************************************************)
(* Interrupts, exceptions and CSRs: the clint slave raises request lines,  *)
(* interrupt_interface turns them into a cause, commit takes the interrupt *)
(* or the exception by walking the ROB back over several cycles, the csr   *)
(* unit and the bru read CSRs when they execute, and what retires changes  *)
(* the csr file through its request queue.                                 *)
(*                                                                         *)
(* One pass of the main loop is five steps: clint (run_pre), commit (one   *)
(* step per slot), units (results reach the ROB, the csr unit or bru       *)
(* executes), front (issue, rename) and sync (interrupt_interface.run,     *)
(* clint.run_post, csr_file.sync, the store buffer's write).               *)
(* Programs are arbitrary: an instruction gets its kind when it enters the *)
(* ROB.  A CSR holds the set of its bits that are one, mepc and mtvec an   *)
(* instruction index.  mtval and the acks, which nothing reads, are left   *)
(* out; so is the external request, which nothing raises.                  *)
(***************************************************************************)
EXTENDS Integers, Sequences, FiniteSets

CONSTANTS CodeLen,      \* the number of instruction addresses
          Instr,        \* the instructions programs may consist of
          RobSize,      \* ROB_SIZE
          StoreSize,    \* STORE_BUFFER_SIZE
          CommitWidth,  \* COMMIT_WIDTH
          Half          \* 2^32: mtime and mtimecmp are two words each

ASSUME SizesAssumption == /\ CodeLen \in Nat \ {0} /\ RobSize \in Nat \ {0}
                          /\ StoreSize \in Nat \ {0}
                          /\ CommitWidth \in Nat \ {0} /\ Half \in Nat \ {0}

(* A CSR instruction on a set of bits, a write of an instruction index, or  *)
(* a store of a word to a register of the clint.                            *)
ASSUME InstrAssumption ==
    \A i \in Instr :
       /\ i.k \in {"plain", "fault", "mret", "csr", "csrw", "store"}
       /\ i.k = "csr" => /\ i.addr \in {"mstatus", "mie", "mip", "readonly", "unmapped"}
                         /\ i.op \in {"r", "rw", "rs", "rc"}
       /\ i.k = "csrw" => i.addr \in {"mepc", "mtvec"} /\ i.to \in 0 .. CodeLen - 1
       /\ i.k = "store" => \/ i.reg = "msip" /\ i.val \in {0, 1}
                           \/ /\ i.reg \in {"cmp_lo", "cmp_hi", "time_lo", "time_hi"}
                              /\ i.val \in 0 .. Half - 1

VARIABLES
    stage,       \* the next step of the pass
    slot,        \* commit: the entries retired so far in this pass
    flushed,     \* commit_feedback_pack.flush
    msip, mtime, mtimecmp,   \* clint
    lines,       \* interrupt_interface: msip, mtip
    csr,         \* csr_file
    csr_q,       \* csr_file: sync_request_q
    rob,         \* the instructions in flight, oldest first
    pc,          \* fetch: the next instruction to enter the ROB
    jump_wait,   \* fetch: waits for the target of an mret
    state,       \* commit: cur_state
    restore,     \* commit: restore_rob_item_id, as a position in the ROB
    cause,       \* commit: interrupt_id
    cause_pc,    \* commit: interrupt_pc
    stores       \* store_buffer: retired stores to the clint, oldest first

clint == <<msip, mtime, mtimecmp>>
commitvars == <<state, restore, cause, cause_pc>>
frontvars == <<pc, jump_wait>>
vars == <<stage, slot, flushed, clint, lines, csr, csr_q, rob, frontvars, commitvars, stores>>

Cause == {"msi", "mti"}
Next_pc(p) == (p + 1) % CodeLen

(* What a CSR keeps of a value written to it.                               *)
Filter(addr, v) == CASE addr = "mstatus" -> v \cap {"MIE", "MPIE"}
                     [] addr \in {"mie", "mip"} -> v \cap Cause
                     [] OTHER -> v
Mapped == {"mstatus", "mie", "mip", "mepc", "mcause", "mtvec", "readonly"}
WriteCheck(addr) == addr \in Mapped \ {"readonly"}

(* The csr file c after the requests q: what the last write to a CSR leaves *)
(* in it.                                                                   *)
LastWrites(q, a) == {k \in 1 .. Len(q) : /\ q[k].addr = a
                                         /\ \A j \in k + 1 .. Len(q) : q[j].addr # a}
Applied(c, q) == [a \in DOMAIN c |->
                     IF LastWrites(q, a) = {} THEN c[a]
                     ELSE Filter(a, q[CHOOSE k \in LastWrites(q, a) : TRUE].val)]

Init == /\ stage = "clint" /\ slot = 0 /\ flushed = FALSE
        /\ msip = FALSE /\ mtime = 0 /\ mtimecmp = 0
        /\ lines = {}
        /\ csr = [mstatus |-> {}, mie |-> {}, mip |-> {}, mepc |-> 0,
                  mcause |-> "none", mtvec |-> 0, readonly |-> {}]
        /\ csr_q = << >>
        /\ rob = << >>
        /\ pc = 0 /\ jump_wait = FALSE
        /\ state = "normal" /\ restore = 0 /\ cause = "none" /\ cause_pc = 0
        /\ stores = << >>

-----------------------------------------------------------------------------
(* clint.run_pre: the lines follow the registers.                           *)
RunPre == /\ stage = "clint"
          /\ lines' = {c \in Cause : IF c = "msi" THEN msip ELSE mtime >= mtimecmp}
          /\ stage' = "commit"
          /\ UNCHANGED <<slot, flushed, clint, csr, csr_q, rob, frontvars, commitvars, stores>>

-----------------------------------------------------------------------------
(* Commit.                                                                  *)
Enabled == IF "MIE" \in csr.mstatus THEN lines \cap csr.mie ELSE {}
GetSoftwareCause == IF "msi" \in Enabled THEN "msi" ELSE "none"       \* mutant of GetCause
GetCause == CASE "msi" \in Enabled -> "msi"
              [] "msi" \notin Enabled /\ "mti" \in Enabled -> "mti"
              [] OTHER -> "none"

Committing(s) == stage = "commit" /\ state = s
NoInterrupt == slot = 0 => GetCause = "none"

(* An interrupt is looked for once per pass, before anything retires.       *)
TakeInterrupt ==
    /\ Committing("normal") /\ slot = 0 /\ rob # << >>
    /\ GetCause # "none"
    /\ cause' = GetCause /\ cause_pc' = rob[1].pc
    /\ state' = "interrupt_flush" /\ restore' = Len(rob)
    /\ flushed' = TRUE /\ stage' = "sync"
    /\ UNCHANGED <<slot, clint, lines, csr, csr_q, rob, frontvars, stores>>

(* The oldest instruction retires: its CSR write is queued, an mret redirects *)
(* fetch and ends the pass.                                                   *)
Retire ==
    /\ Committing("normal") /\ NoInterrupt
    /\ slot < CommitWidth /\ rob # << >>
    /\ LET e == rob[1] IN
       /\ e.status = "finished" /\ ~e.exception
       /\ csr_q' = csr_q \o
             (IF e.write # << >> THEN <<[sys |-> FALSE, addr |-> e.ins.addr, val |-> e.write[1]]>> ELSE << >>) \o
             (IF e.ins.k = "mret"
              THEN <<[sys |-> TRUE, addr |-> "mstatus",
                      val |-> IF "MPIE" \in csr.mstatus THEN csr.mstatus \cup {"MIE"}
                                                         ELSE csr.mstatus \ {"MIE"}]>>
              ELSE << >>)
       /\ IF e.ins.k = "mret" THEN pc' = e.target /\ jump_wait' = FALSE
                              ELSE UNCHANGED frontvars
       /\ stores' = IF e.ins.k = "store" THEN Append(stores, e.ins) ELSE stores
       /\ stage' = IF e.ins.k = "mret" THEN "units" ELSE "commit"
    /\ rob' = Tail(rob) /\ slot' = slot + 1
    /\ UNCHANGED <<flushed, clint, lines, csr, commitvars>>

(* The oldest instruction has an exception.                                 *)
RaiseException ==
    /\ Committing("normal") /\ NoInterrupt
    /\ slot < CommitWidth /\ rob # << >>
    /\ rob[1].status = "finished" /\ rob[1].exception
    /\ state' = "flush" /\ restore' = Len(rob)
    /\ flushed' = TRUE /\ stage' = "sync"
    /\ UNCHANGED <<slot, clint, lines, csr, csr_q, rob, frontvars, cause, cause_pc, stores>>

(* Nothing more retires in this pass.                                       *)
RetireEnds ==
    /\ Committing("normal") /\ (rob # << >> => NoInterrupt)
    /\ \/ slot = CommitWidth
       \/ rob = << >>
       \/ rob # << >> /\ rob[1].status # "finished"
    /\ stage' = "units"
    /\ UNCHANGED <<slot, flushed, clint, lines, csr, csr_q, rob, frontvars, commitvars, stores>>

(* One entry is undone per pass, the youngest first.                        *)
WalkBack ==
    /\ stage = "commit" /\ state # "normal"
    /\ restore > 1
    /\ restore' = restore - 1
    /\ flushed' = TRUE /\ stage' = "sync"
    /\ UNCHANGED <<slot, clint, lines, csr, csr_q, rob, frontvars, state, cause, cause_pc, stores>>

(* fetch starts at mtvec and waits for no jump.                             *)
RedirectKeepsWait == pc' = csr.mtvec /\ UNCHANGED jump_wait       \* mutant of Redirect
Redirect == pc' = csr.mtvec /\ jump_wait' = FALSE

(* The last entry is undone and the trap is entered.  interrupt_id and      *)
(* interrupt_pc are not read after that; the model resets them.             *)
EnterTrap(writes) ==
    /\ restore = 1
    /\ rob' = << >>
    /\ csr_q' = csr_q \o writes
    /\ Redirect
    /\ state' = "normal" /\ restore' = 0
    /\ cause' = "none" /\ cause_pc' = 0
    /\ flushed' = TRUE /\ stage' = "sync"
    /\ UNCHANGED <<slot, clint, lines, csr, stores>>

Sys(addr, v) == [sys |-> TRUE, addr |-> addr, val |-> v]
EnterException ==
    /\ Committing("flush")
    /\ EnterTrap(<<Sys("mepc", rob[1].pc), Sys("mcause", "exception")>>)
EnterInterrupt ==
    /\ Committing("interrupt_flush")
    /\ EnterTrap(<<Sys("mepc", cause_pc), Sys("mcause", cause),
                   Sys("mstatus", IF "MIE" \in csr.mstatus THEN {"MPIE"} ELSE {})>>)

-----------------------------------------------------------------------------
(* The units.  A CSR instruction computes the value it will write from the  *)
(* CSR's value now; an mret reads its target now.                           *)
Combine(i, old) == CASE i.op = "rw" -> i.src
                     [] i.op = "rs" -> old \cup i.src
                     [] i.op = "rc" -> old \ i.src
IllegalIfUnmapped(i) == i.addr \notin Mapped       \* mutant of Illegal
Illegal(i) == i.addr \notin Mapped \/ (i.op # "r" /\ ~WriteCheck(i.addr))
Executed(e) ==
    CASE e.ins.k = "csrw" -> [e EXCEPT !.status = "executed", !.write = <<e.ins.to>>]
      [] e.ins.k = "mret" -> [e EXCEPT !.status = "executed", !.target = csr.mepc]
      [] e.ins.k = "csr" ->
           IF Illegal(e.ins) THEN [e EXCEPT !.status = "executed", !.exception = TRUE]
           ELSE IF e.ins.op = "r" THEN [e EXCEPT !.status = "executed"]
           ELSE [e EXCEPT !.status = "executed",
                          !.write = <<Combine(e.ins, csr[e.ins.addr])>>]

(* csr and mret instructions wait to be the oldest; stores execute in order *)
(* and need a place in the store buffer.                                    *)
Serial(i) == i.k \in {"csr", "csrw", "mret"}
StoresFinished == Cardinality({k \in 1 .. Len(rob) : rob[k].ins.k = "store"
                                                     /\ rob[k].status = "finished"})
Finishable(k) ==
    \/ rob[k].status = "executed"
    \/ /\ rob[k].status = "waiting" /\ ~Serial(rob[k].ins)
       /\ rob[k].ins.k = "store" =>
             /\ \A j \in 1 .. k - 1 : rob[j].ins.k = "store" => rob[j].status = "finished"
             /\ Len(stores) + StoresFinished < StoreSize
Finish(e) == [e EXCEPT !.status = "finished", !.exception = @ \/ e.ins.k = "fault"]

(* In one pass results reach the ROB and an issued instruction executes.    *)
Units == /\ stage = "units"
         /\ \E F \in SUBSET {k \in 1 .. Len(rob) : Finishable(k)},
              X \in SUBSET {k \in 1 .. Len(rob) : rob[k].status = "issued"} :
               rob' = [k \in 1 .. Len(rob) |-> CASE k \in F -> Finish(rob[k])
                                                 [] k \in X -> Executed(rob[k])
                                                 [] OTHER -> rob[k]]
         /\ stage' = "front"
         /\ UNCHANGED <<slot, flushed, clint, lines, csr, csr_q, frontvars, commitvars, stores>>

(* Issue gives a csr or mret instruction to its unit once it is the next to *)
(* retire; rename adds one instruction, fetch stops behind an mret.         *)
IssueAnyTime(k) == rob[k].status = "waiting" /\ Serial(rob[k].ins)       \* mutant of MayIssue
MayIssue(k) == k = 1 /\ rob[k].status = "waiting" /\ Serial(rob[k].ins)
Entry(i) == [pc |-> pc, ins |-> i, status |-> "waiting", exception |-> FALSE,
             write |-> << >>, target |-> 0]
IssueRename ==
    /\ stage = "front"
    /\ \E s \in 0 .. Len(rob), new \in {<< >>} \cup {<<i>> : i \in Instr} :
          /\ s # 0 => MayIssue(s)
          /\ new # << >> => Len(rob) < RobSize /\ ~jump_wait
          /\ rob' = [k \in 1 .. Len(rob) |-> IF k = s THEN [rob[k] EXCEPT !.status = "issued"]
                                                      ELSE rob[k]]
                    \o [k \in 1 .. Len(new) |-> Entry(new[k])]
          /\ pc' = IF new = << >> THEN pc ELSE Next_pc(pc)
          /\ jump_wait' = (jump_wait \/ (new # << >> /\ new[1].k = "mret"))
    /\ stage' = "sync"
    /\ UNCHANGED <<slot, flushed, clint, lines, csr, csr_q, commitvars, stores>>

-----------------------------------------------------------------------------
(* The end of the pass.                                                     *)
Low(t) == t % Half
High(t) == t \div Half

(* A store reaches the clint and changes one word of a register.            *)
ClintWriteSwapped(s, now) ==     \* mutant of ClintWrite: the words of a register exchanged
    /\ msip' = IF s.reg = "msip" THEN s.val = 1 ELSE msip
    /\ mtimecmp' = CASE s.reg = "cmp_hi" -> High(mtimecmp) * Half + s.val
                     [] s.reg = "cmp_lo" -> s.val * Half + Low(mtimecmp)
                     [] OTHER -> mtimecmp
    /\ mtime' = CASE s.reg = "time_hi" -> High(now) * Half + s.val
                  [] s.reg = "time_lo" -> s.val * Half + Low(now)
                  [] OTHER -> now
ClintWrite(s, now) ==
    /\ msip' = IF s.reg = "msip" THEN s.val = 1 ELSE msip
    /\ mtimecmp' = CASE s.reg = "cmp_lo" -> High(mtimecmp) * Half + s.val
                     [] s.reg = "cmp_hi" -> s.val * Half + Low(mtimecmp)
                     [] OTHER -> mtimecmp
    /\ mtime' = CASE s.reg = "time_lo" -> High(now) * Half + s.val
                  [] s.reg = "time_hi" -> s.val * Half + Low(now)
                  [] OTHER -> now

(* interrupt_interface.run queues the lines as the new mip behind what      *)
(* retired; then the csr file applies the queue.  A pass with a flush       *)
(* writes no store.                                                         *)
IntifRunFirst == <<Sys("mip", lines)>> \o csr_q       \* mutant of IntifRun
IntifRun == Append(csr_q, Sys("mip", lines))
Tick == (mtime + 1) % (Half * Half)
StoreWritten == ~flushed /\ stores # << >>
Sync == /\ stage = "sync"
        /\ csr' = Applied(csr, IntifRun)
        /\ csr_q' = << >>
        /\ \/ /\ mtime' = Tick /\ UNCHANGED <<msip, mtimecmp, stores>>
           \/ /\ StoreWritten
              /\ ClintWrite(Head(stores), Tick)
              /\ stores' = Tail(stores)
        /\ stage' = "clint" /\ slot' = 0 /\ flushed' = FALSE
        /\ UNCHANGED <<lines, rob, frontvars, commitvars>>

Next == \/ RunPre \/ TakeInterrupt \/ Retire \/ RaiseException \/ RetireEnds
        \/ WalkBack \/ EnterException \/ EnterInterrupt
        \/ Units \/ IssueRename \/ Sync

Spec == Init /\ [][Next]_vars

(* The main loop keeps running, units have a bounded latency, the front end *)
(* delivers instructions, and a retired store is written in a pass without  *)
(* a flush: what may progress in pass after pass does.  This is strong      *)
(* fairness with what enables each step written out.                        *)
UnitsReady == stage = "units" /\ \E k \in 1 .. Len(rob) : Finishable(k) \/ rob[k].status = "issued"
FrontReady == /\ stage = "front"
              /\ (Len(rob) < RobSize /\ ~jump_wait) \/ \E k \in 1 .. Len(rob) : MayIssue(k)
Fairness == /\ WF_vars(Next)
            /\ []<>UnitsReady => []<><<stage = "units" /\ rob' # rob>>_vars
            /\ []<>FrontReady => []<><<stage = "front" /\ rob' # rob>>_vars
            /\ []<>(stage = "sync" /\ StoreWritten) => []<><<stage = "sync" /\ stores' # stores>>_vars
FairSpec == Spec /\ Fairness
-----------------------------------------------------------------------------
(* The asserts of csr_file and of the walk back: a retired write is to a    *)
(* CSR that exists and may be written, and commit has an entry to undo.     *)
AssertionsHold ==
    /\ \A k \in 1 .. Len(csr_q) : WriteCheck(csr_q[k].addr)
    /\ state # "normal" => restore \in 1 .. Len(rob)

(* The timer request is a level: it falls only when the counter wraps or a  *)
(* store asks for it, with a greater value for a word of mtimecmp or a      *)
(* smaller one for a word of mtime.  Any other write of a word, and every   *)
(* carry from word to word, leaves a request standing.                      *)
Lowers(s) == \/ s.reg = "cmp_lo" /\ s.val > Low(mtimecmp)
             \/ s.reg = "cmp_hi" /\ s.val > High(mtimecmp)
             \/ s.reg = "time_lo" /\ s.val < Low(mtime + 1)
             \/ s.reg = "time_hi" /\ s.val < High(mtime + 1)
RequestHeld == [][mtime >= mtimecmp =>
                     \/ mtime' >= mtimecmp'
                     \/ mtime + 1 = Half * Half
                     \/ stores # << >> /\ stores' = Tail(stores) /\ Lowers(Head(stores))]_vars

(* mip shows the request lines of the pass before, whatever programs write  *)
(* to it.                                                                   *)
MipShowsLines == stage = "clint" => csr.mip = lines

(* The core implements a machine that executes one instruction at a time:   *)
(* traps are precise, a CSR instruction is atomic, an interrupt is enabled  *)
(* and pending when it is taken, and what a flushed instruction read or     *)
(* computed has no effect.                                                  *)
PendingCsr == Applied(csr, csr_q)
HartCsr == [a \in {"mstatus", "mie", "mepc", "mcause", "mtvec"} |->
               IF state # "interrupt_flush" THEN PendingCsr[a]
               ELSE CASE a = "mepc" -> cause_pc
                      [] a = "mcause" -> cause
                      [] a = "mstatus" -> {"MPIE"}
                      [] OTHER -> csr[a]]
HartPc == CASE state = "interrupt_flush" -> csr.mtvec
            [] state # "interrupt_flush" /\ rob # << >> -> rob[1].pc
            [] OTHER -> pc
SequentialHart == INSTANCE Hart WITH pc <- HartPc, csr <- HartCsr
ImplementsHart == SequentialHart!HSpec

(* An interrupt that stays enabled and requested is taken, whatever the     *)
(* program does: no instruction mix keeps commit from looking for it.       *)
InterruptTaken == stage = "commit" /\ Enabled # {} ~> state = "interrupt_flush" \/ Enabled = {}

(* The core does not stop: instructions retire or traps are entered for     *)
(* ever, so serial instructions, the wait behind an mret, the walk back and *)
(* the store buffer never wait on one another.                              *)
KeepsGoing == []<><<Retire \/ EnterException \/ EnterInterrupt>>_vars
=============================================================================
