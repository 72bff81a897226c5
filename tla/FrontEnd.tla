----------------------------- MODULE FrontEnd -----------------------------
(***************************************************************************)
(* The front end and its feedback loop: fetch follows predictions or waits *)
(* behind a jump it cannot predict, decode and rename move instructions    *)
(* through two queues into the ROB, and commit checks every jump and sends *)
(* fetch back when it was wrong.  A fence.i waits until everything before  *)
(* it, stores included, has left the core.                                 *)
(*                                                                         *)
(* One pass of the main loop is commit (one step per slot, then the        *)
(* results), rename, decode, fetch (one step per slot) and sync.  Any      *)
(* program is allowed; a jump (mret is one) gets its outcome when it       *)
(* executes, and the predictor may answer anything.  Addresses count       *)
(* instructions.                                                           *)
(***************************************************************************)
EXTENDS Integers, Sequences, FiniteSets

CONSTANTS CodeLen,        \* the number of instruction addresses
          FetchSize,      \* FETCH_DECODE_FIFO_SIZE
          DecodeSize,     \* DECODE_RENAME_FIFO_SIZE
          RobSize,        \* ROB_SIZE
          CpSize,         \* CHECKPOINT_BUFFER_SIZE
          StoreSize,      \* STORE_BUFFER_SIZE
          FetchWidth, DecodeWidth, RenameWidth, CommitWidth,
          Kinds           \* the kinds of instructions programs use

ASSUME SizesAssumption ==
    /\ {CodeLen, FetchSize, DecodeSize, RobSize, CpSize, StoreSize} \subseteq Nat \ {0}
    /\ {FetchWidth, DecodeWidth, RenameWidth, CommitWidth} \subseteq Nat \ {0}
    /\ Kinds \subseteq {"plain", "jump", "store", "fence_i", "fault"}

VARIABLES
    code,        \* the program: the kind of the instruction at each address
    stage,       \* the next step of the pass
    slot,        \* the slot of the loop inside commit or fetch
    feedback,    \* commit_feedback_pack
    idle,        \* decode and rename report an empty input
    pc,          \* fetch
    jump_wait,   \* fetch: waits for the outcome of a jump
    fd, dr,      \* fetch_decode_fifo, decode_rename_fifo, oldest first
    popped,      \* what these two, the ROB and the checkpoint buffer lost in this pass
    rob,         \* the ROB, oldest first
    cps,         \* the number of checkpoints in use
    stores,      \* store_buffer: the number of retired stores not yet written
    trap,        \* commit walks back over several passes
    mie,         \* interrupts may be on: off from a handler's entry to the next retirement
    arch         \* history: the instruction the program executes next

vars == <<code, stage, slot, feedback, idle, pc, jump_wait, fd, dr, popped, rob, cps, stores, trap, mie, arch>>

PC == 0 .. CodeLen - 1
Plus4(p) == (p + 1) % CodeLen
Mtvec == 0
NoFeedback == [enable |-> FALSE, flush |-> FALSE, jump_enable |-> FALSE, jump |-> FALSE,
               next_pc |-> 0, has_exception |-> FALSE]
NotIdle == [decode |-> FALSE, rename |-> FALSE]
NonePopped == [fd |-> 0, dr |-> 0, rob |-> 0, cp |-> 0]

Init == /\ code \in [PC -> Kinds]
        /\ stage = "commit" /\ slot = 0
        /\ feedback = NoFeedback /\ idle = NotIdle
        /\ pc = 0 /\ jump_wait = FALSE
        /\ fd = << >> /\ dr = << >> /\ popped = NonePopped
        /\ rob = << >> /\ cps = 0 /\ stores = 0
        /\ trap = FALSE /\ mie = FALSE
        /\ arch = 0

-----------------------------------------------------------------------------
(* Commit.                                                                  *)
NextPc(e) == IF e.kind = "jump" /\ e.jump THEN e.target ELSE Plus4(e.pc)
\* mutant of Hit
HitDirectionOnly(e) == e.jump = e.predicted_jump
Hit(e) == e.jump = e.predicted_jump /\ (e.target = e.predicted_target \/ ~e.predicted_jump)
Redirected(e) == [feedback EXCEPT !.enable = TRUE, !.jump_enable = TRUE, !.jump = e.jump,
                                  !.next_pc = NextPc(e)]

Committing == stage = "commit" /\ ~trap /\ rob # << >> /\ slot < CommitWidth
EndCommit == stage' = "input" /\ slot' = 0

(* The oldest instruction retires; a jump ends the group.                   *)
RetireOther ==
    /\ Committing /\ rob[1].finish /\ rob[1].kind \notin {"jump", "fault"}
    /\ stores' = stores + (IF rob[1].kind = "store" THEN 1 ELSE 0)
    /\ rob' = Tail(rob) /\ slot' = slot + 1
    /\ popped' = [popped EXCEPT !.rob = @ + 1]
    /\ feedback' = [feedback EXCEPT !.enable = TRUE]
    /\ arch' = NextPc(rob[1]) /\ mie' = TRUE
    /\ UNCHANGED <<code, stage, idle, pc, jump_wait, fd, dr, cps, trap>>

(* A jump that was predicted, rightly or wrongly, or that fetch waits for.  *)
RetireJump ==
    /\ Committing /\ rob[1].finish /\ rob[1].kind = "jump"
    /\ LET e == rob[1] IN
       \/ /\ e.predicted /\ Hit(e)
          /\ rob' = Tail(rob) /\ cps' = cps - 1
          /\ popped' = [popped EXCEPT !.rob = @ + 1, !.cp = 1]
          /\ feedback' = [feedback EXCEPT !.enable = TRUE]
          /\ EndCommit
       \/ /\ e.predicted /\ ~Hit(e)
          /\ rob' = << >> /\ cps' = 0 /\ UNCHANGED popped
          /\ feedback' = [Redirected(e) EXCEPT !.flush = TRUE]
          /\ stage' = "rename" /\ slot' = 0
       \/ /\ ~e.predicted
          /\ rob' = Tail(rob) /\ UNCHANGED cps
          /\ popped' = [popped EXCEPT !.rob = @ + 1]
          /\ feedback' = Redirected(e)
          /\ EndCommit
    /\ arch' = NextPc(rob[1]) /\ mie' = TRUE
    /\ UNCHANGED <<code, idle, pc, jump_wait, fd, dr, stores, trap>>

(* An interrupt before the oldest instruction, or its exception.            *)
Trap ==
    /\ Committing
    /\ \/ slot = 0 /\ mie /\ mie' = FALSE
       \/ rob[1].finish /\ rob[1].kind = "fault" /\ UNCHANGED mie
    /\ trap' = TRUE
    /\ feedback' = [feedback EXCEPT !.enable = TRUE, !.flush = TRUE]
    /\ stage' = "rename" /\ slot' = 0
    /\ UNCHANGED <<code, idle, pc, jump_wait, fd, dr, popped, rob, cps, stores, arch>>

(* The walk back: one pass after another flushes, the last one enters the   *)
(* handler.                                                                 *)
WalkBack ==
    /\ stage = "commit" /\ trap
    /\ \/ /\ feedback' = [NoFeedback EXCEPT !.enable = TRUE, !.flush = TRUE]
          /\ UNCHANGED <<rob, trap, mie, arch>>
       \/ /\ feedback' = [NoFeedback EXCEPT !.enable = TRUE, !.flush = TRUE, !.has_exception = TRUE,
                                            !.next_pc = Mtvec]
          /\ rob' = << >> /\ trap' = FALSE /\ arch' = Mtvec
    /\ stage' = "rename"
    /\ UNCHANGED <<code, slot, idle, pc, jump_wait, fd, dr, popped, cps, stores, mie>>

RetireEnds ==
    /\ stage = "commit" /\ ~trap
    /\ \/ rob = << >>
       \/ slot = CommitWidth
       \/ rob # << >> /\ ~rob[1].finish
    /\ feedback' = [feedback EXCEPT !.enable = @ \/ rob # << >>]
    /\ EndCommit
    /\ UNCHANGED <<code, idle, pc, jump_wait, fd, dr, popped, rob, cps, stores, trap, mie, arch>>

(* Results reach the ROB; a store has a place in the store buffer by then.  *)
StoresBuffered == stores + Cardinality({k \in 1 .. Len(rob) : rob[k].kind = "store" /\ rob[k].finish})
Finish(k, jump, target) ==
    /\ ~rob[k].finish
    /\ rob[k].kind = "store" =>
          /\ StoresBuffered < StoreSize
          /\ \A j \in 1 .. k - 1 : rob[j].kind = "store" => rob[j].finish
    /\ rob[k].kind # "jump" => ~jump /\ target = 0
    /\ rob' = [rob EXCEPT ![k].finish = TRUE, ![k].jump = jump, ![k].target = target]
HandleInput ==
    /\ stage = "input"
    /\ \/ /\ \E k \in 1 .. Len(rob), jump \in BOOLEAN, target \in PC : Finish(k, jump, target)
          /\ UNCHANGED stage
       \/ stage' = "rename" /\ UNCHANGED rob
    /\ UNCHANGED <<code, slot, feedback, idle, pc, jump_wait, fd, dr, popped, cps, stores, trap, mie, arch>>

-----------------------------------------------------------------------------
(* rename takes as many instructions as registers, ROB and issue allow.     *)
Rename ==
    /\ stage = "rename"
    /\ \E n \in 0 .. RenameWidth :
          /\ n <= Len(dr) /\ n <= RobSize - Len(rob) - popped.rob
          /\ feedback.flush => n = 0
          /\ rob' = rob \o SubSeq(dr, 1, n)
          /\ dr' = SubSeq(dr, n + 1, Len(dr))
          /\ popped' = [popped EXCEPT !.dr = n]
    /\ idle' = [idle EXCEPT !.rename = dr = << >>]
    /\ stage' = "decode"
    /\ UNCHANGED <<code, slot, feedback, pc, jump_wait, fd, cps, stores, trap, mie, arch>>

(* decode moves what fits; a queue counts as full until the next pass even  *)
(* if its reader has taken entries.                                         *)
Smallest(a, b) == IF a < b THEN a ELSE b
Decode ==
    /\ stage = "decode"
    /\ LET room == DecodeSize - (Len(dr) + popped.dr)
           n == Smallest(Smallest(DecodeWidth, Len(fd)), room)
       IN IF feedback.flush
          THEN dr' = << >> /\ UNCHANGED <<fd, popped>>
          ELSE /\ dr' = dr \o SubSeq(fd, 1, n)
               /\ fd' = SubSeq(fd, n + 1, Len(fd))
               /\ popped' = [popped EXCEPT !.fd = n]
    /\ idle' = [idle EXCEPT !.decode = fd = << >>]
    /\ stage' = "fetch"
    /\ UNCHANGED <<code, slot, feedback, pc, jump_wait, rob, cps, stores, trap, mie, arch>>

-----------------------------------------------------------------------------
(* Fetch.                                                                   *)
FetchFull == Len(fd) + popped.fd >= FetchSize
Fetched == [pc |-> pc, kind |-> code[pc], finish |-> FALSE, jump |-> FALSE, target |-> 0,
                  predicted |-> FALSE, predicted_jump |-> FALSE, predicted_target |-> 0]

(* fence.i goes alone, into an empty core.                                  *)
\* mutant of FenceIBlocked
FenceIIgnoresStores == slot # 0 \/ ~idle.decode \/ ~idle.rename \/ feedback.enable
FenceIBlocked == \/ slot # 0
                 \/ ~idle.decode \/ ~idle.rename
                 \/ feedback.enable
                 \/ StoresBuffered # 0

EndFetch == stage' = "sync" /\ slot' = 0
Fetching == stage = "fetch" /\ ~feedback.flush /\ ~jump_wait /\ slot < FetchWidth

FetchPlain ==
    /\ Fetching /\ ~FetchFull /\ code[pc] # "jump"
    /\ code[pc] = "fence_i" => ~FenceIBlocked
    /\ fd' = Append(fd, Fetched)
    /\ pc' = Plus4(pc)
    /\ slot' = slot + 1
    /\ UNCHANGED <<stage, jump_wait, cps>>

(* The predictor answers and a checkpoint is free: follow the prediction.   *)
FetchPredicted ==
    /\ Fetching /\ ~FetchFull /\ code[pc] = "jump"
    /\ cps + popped.cp < CpSize /\ cps' = cps + 1
    /\ \E jump \in BOOLEAN, target \in PC :
          /\ fd' = Append(fd, [Fetched EXCEPT !.predicted = TRUE, !.predicted_jump = jump,
                                                      !.predicted_target = target])
          /\ pc' = IF jump THEN target ELSE Plus4(pc)
    /\ EndFetch /\ UNCHANGED jump_wait

(* No answer, or no checkpoint: wait for the jump to retire.                *)
FetchUnpredicted ==
    /\ Fetching /\ ~FetchFull /\ code[pc] = "jump"
    /\ fd' = Append(fd, Fetched)
    /\ pc' = Plus4(pc) /\ jump_wait' = TRUE
    /\ EndFetch /\ UNCHANGED cps

(* A fence.i at pc that must wait ends the group.                           *)
FenceIWaits ==
    /\ Fetching /\ ~FetchFull /\ code[pc] = "fence_i" /\ FenceIBlocked
    /\ EndFetch /\ UNCHANGED <<fd, pc, jump_wait, cps>>

FetchEnds ==
    /\ stage = "fetch" /\ ~feedback.flush /\ ~jump_wait
    /\ FetchFull \/ slot = FetchWidth
    /\ EndFetch /\ UNCHANGED <<fd, pc, jump_wait, cps>>

(* Behind an unpredicted jump fetch waits for its outcome.                  *)
FetchWaits ==
    /\ stage = "fetch" /\ ~feedback.flush /\ jump_wait
    /\ IF feedback.jump_enable
       THEN jump_wait' = FALSE /\ pc' = IF feedback.jump THEN feedback.next_pc ELSE pc
       ELSE UNCHANGED <<pc, jump_wait>>
    /\ EndFetch /\ UNCHANGED <<fd, cps>>

\* mutant of FetchFlush
FlushKeepsWait ==
    /\ stage = "fetch" /\ feedback.flush
    /\ fd' = << >>
    /\ pc' = IF feedback.has_exception \/ feedback.jump_enable THEN feedback.next_pc ELSE pc
    /\ EndFetch /\ UNCHANGED <<cps, jump_wait>>

FetchFlush ==
    /\ stage = "fetch" /\ feedback.flush
    /\ fd' = << >> /\ jump_wait' = FALSE
    /\ pc' = IF feedback.has_exception \/ feedback.jump_enable THEN feedback.next_pc ELSE pc
    /\ EndFetch /\ UNCHANGED cps

Fetch == /\ \/ FetchPlain
            \/ FetchPredicted \/ FetchUnpredicted \/ FenceIWaits
            \/ FetchEnds \/ FetchWaits \/ FetchFlush
         /\ UNCHANGED <<code, feedback, idle, dr, popped, rob, stores, trap, mie, arch>>

(* The end of the pass: a retired store may be written.                     *)
Sync == /\ stage = "sync"
        /\ \/ stores > 0 /\ ~feedback.flush /\ stores' = stores - 1
           \/ UNCHANGED stores
        /\ stage' = "commit"
        /\ feedback' = NoFeedback /\ idle' = NotIdle /\ popped' = NonePopped
        /\ UNCHANGED <<code, slot, pc, jump_wait, fd, dr, rob, cps, trap, mie, arch>>

Next == \/ RetireOther \/ RetireJump \/ Trap \/ WalkBack \/ RetireEnds \/ HandleInput
        \/ Rename \/ Decode \/ Fetch \/ Sync

Spec == Init /\ [][Next]_vars

(* The main loop keeps running; the units deliver, rename finds registers,  *)
(* retired stores are written and a walk back ends.                         *)
FairSpec == /\ Spec
            /\ WF_vars(Next)
            /\ SF_vars(HandleInput /\ rob' # rob)
            /\ SF_vars(Rename /\ rob' # rob)
            /\ SF_vars(Sync /\ stores' # stores)
            /\ SF_vars(WalkBack /\ ~trap')
-----------------------------------------------------------------------------
InFlight == rob \o dr \o fd
Entry == [pc : PC, kind : Kinds, finish : BOOLEAN, jump : BOOLEAN, target : PC,
          predicted : BOOLEAN, predicted_jump : BOOLEAN, predicted_target : PC]

(* The types of the variables, which the proofs rest on.                    *)
Feedback == [enable : BOOLEAN, flush : BOOLEAN, jump_enable : BOOLEAN, jump : BOOLEAN,
             next_pc : PC, has_exception : BOOLEAN]
TypeOK == /\ code \in [PC -> Kinds]
          /\ stage \in {"commit", "input", "rename", "decode", "fetch", "sync"}
          /\ slot \in Nat /\ stores \in Nat
          /\ feedback \in Feedback
          /\ idle \in [decode : BOOLEAN, rename : BOOLEAN]
          /\ popped \in [fd : Nat, dr : Nat, rob : Nat, cp : Nat]
          /\ pc \in PC
          /\ rob \in Seq(Entry) /\ dr \in Seq(Entry) /\ fd \in Seq(Entry)

(* The instructions in flight are the path fetch predicted from the         *)
(* instruction the program executes next: nothing is lost, repeated or      *)
(* fetched from a stale address, and behind an unpredicted jump there is    *)
(* nothing.                                                                 *)
FollowedBy(e) == IF e.predicted /\ e.predicted_jump THEN e.predicted_target ELSE Plus4(e.pc)
Settled == stage = "commit" /\ slot = 0 /\ ~trap
PathExact ==
    Settled =>
       LET n == Len(InFlight) IN
       /\ (IF n = 0 THEN pc ELSE InFlight[1].pc) = arch
       /\ \A k \in 1 .. n : (IF k = n THEN pc ELSE InFlight[k + 1].pc) = FollowedBy(InFlight[k])
       /\ \A k \in 1 .. n : InFlight[k].kind = "jump" /\ ~InFlight[k].predicted => k = n /\ jump_wait
       /\ jump_wait => n > 0 /\ InFlight[n].kind = "jump" /\ ~InFlight[n].predicted

(* A fence.i enters an empty core: while it is in flight nothing older is,  *)
(* and every older store has been written to memory.                        *)
FenceIOrdered ==
    \A k \in 1 .. Len(InFlight) : InFlight[k].kind = "fence_i" => k = 1 /\ stores = 0

(* Instructions retire, or handlers are entered, again and again: fetch     *)
(* does not wait forever, for a jump that a trap has removed or for a core  *)
(* that never gets empty, and no queue stays full.                          *)
Progress == []<><<RetireOther \/ RetireJump \/ (WalkBack /\ ~trap')>>_vars
=============================================================================
