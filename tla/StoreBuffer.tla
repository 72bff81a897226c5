---------------------------- MODULE StoreBuffer ----------------------------
(***************************************************************************)
(* component::store_buffer with the units around it: the load/store unit   *)
(* pushes stores speculatively and forwards from the buffer to loads,      *)
(* commit announces the ids of retired ROB entries and flushes, and        *)
(* committed stores leave the buffer for the bus one per cycle.            *)
(*                                                                         *)
(* One pass of the main loop is four steps: commit, lsu, rename (new       *)
(* instructions enter the ROB) and store (store_buffer.run, bus.sync,      *)
(* store_buffer.sync).  The ROB is a queue of instructions that are stores *)
(* or anything else; the issue stage hands memory operations to the LSU in *)
(* program order.  Memory is a map from byte addresses; a value of n bytes *)
(* is a function on 0 .. n - 1, least significant byte first, so the shift *)
(* and mask arithmetic of the code selects bytes here.                     *)
(***************************************************************************)
EXTENDS Integers, Sequences

CONSTANTS Addr,         \* the byte addresses of memory: 0 .. some bound
          Sizes,        \* the access sizes, of 1, 2 and 4
          Byte,         \* the values of a byte
          BufferSize,   \* STORE_BUFFER_SIZE
          RobSize,      \* ROB_SIZE
          CommitWidth   \* COMMIT_WIDTH

ASSUME AddrAssumption == /\ Addr \subseteq Nat
                         /\ \E n \in Addr : Addr = 0 .. n
                         /\ Sizes \subseteq {1, 2, 4}
ASSUME BoundsAssumption == /\ BufferSize \in Nat \ {0} /\ RobSize \in Nat \ {0}
                           /\ CommitWidth \in Nat \ {0}

VARIABLES
    stage,       \* the next step of the pass
    rob,         \* the instructions in the ROB, oldest first
    new_id,      \* rob: the id the next instruction gets
    trap,        \* commit walks back over several cycles
    feedback,    \* commit_feedback_pack: flush, committed_rob_id
    busy,        \* lsu: a store is held back because the buffer is full
    buffer,      \* store_buffer, oldest first
    push_q,      \* store_buffer: sync_request_q
    memory,      \* what the bus returns
    retired      \* history: memory after all retired stores

vars == <<stage, rob, new_id, trap, feedback, busy, buffer, push_q, memory, retired>>

RobId == 0 .. RobSize - 1

(* A naturally aligned access inside memory; others raise an exception and  *)
(* never reach the buffer.                                                  *)
Access == {x \in [addr : Addr, size : Sizes] :
              x.addr % x.size = 0 /\ x.addr + x.size - 1 \in Addr}
Store == UNION {[addr : {x.addr}, size : {x.size}, data : [0 .. x.size - 1 -> Byte]] : x \in Access}
NoStore == [addr |-> 0, size |-> 0, data |-> << >>]

(* Entries: an instruction waits, is executed, and is then reported to      *)
(* commit as finished.                                                      *)
IsStore(e) == e.store.size > 0
Finished(k) == rob[k].status = "finished"

(* Memory after one store, and after a sequence of them: the last one that  *)
(* covers a byte determines it.                                             *)
Covers(s, a) == a >= s.addr /\ a < s.addr + s.size
Write(m, s) == [a \in Addr |-> IF Covers(s, a) THEN s.data[a - s.addr] ELSE m[a]]
Newest(ks) == CHOOSE k \in ks : \A j \in ks : j <= k
Covering(seq, a) == {k \in 1 .. Len(seq) : Covers(seq[k], a)}
ByteOf(m, seq, a) == IF Covering(seq, a) = {} THEN m[a]
                     ELSE LET s == seq[Newest(Covering(seq, a))] IN s.data[a - s.addr]
WriteAll(m, seq) == [a \in Addr |-> ByteOf(m, seq, a)]
NoFeedback == [flush |-> FALSE, committed |-> {}]

Init == /\ stage = "commit"
        /\ rob = << >> /\ new_id = 0
        /\ trap = FALSE
        /\ feedback = NoFeedback
        /\ busy = FALSE
        /\ buffer = << >> /\ push_q = << >>
        /\ memory \in [Addr -> Byte]
        /\ retired = memory

-----------------------------------------------------------------------------
(* Commit.  The first n entries retire; their ids are announced.            *)
Stores(seq) == [k \in 1 .. Len(seq) |-> seq[k].store]
CommitIds(n) == {rob[k].id : k \in 1 .. n}
RetireFirst(n) == retired' = WriteAll(retired, Stores(SubSeq(rob, 1, n)))
Finishing == {n \in 0 .. CommitWidth : n <= Len(rob) /\ \A k \in 1 .. n : Finished(k)}

(* A group takes all it can, or ends with a branch (some entry that is not  *)
(* a store).                                                                *)
Retirable == {n \in Finishing : \/ \A m \in Finishing : m <= n
                                \/ n > 0 /\ ~ IsStore(rob[n])}

CommitRetire ==
    /\ stage = "commit" /\ ~ trap
    /\ \E n \in Retirable : /\ RetireFirst(n)
                            /\ feedback' = [flush |-> FALSE, committed |-> CommitIds(n)]
                            /\ rob' = SubSeq(rob, n + 1, Len(rob))
    /\ stage' = "lsu"
    /\ UNCHANGED <<new_id, trap, busy, buffer, push_q, memory>>

(* The last retired entry is a mispredicted branch: the ROB is emptied and  *)
(* its ids start again at 0.                                                *)
CommitMispredict ==
    /\ stage = "commit" /\ ~ trap
    /\ \E n \in Retirable \ {0} : /\ ~ IsStore(rob[n])
                                  /\ RetireFirst(n)
                                  /\ feedback' = [flush |-> TRUE, committed |-> CommitIds(n)]
    /\ rob' = << >> /\ new_id' = 0
    /\ stage' = "lsu"
    /\ UNCHANGED <<trap, busy, buffer, push_q, memory>>

(* Entry n + 1 has an exception: its id is announced as committed as well.  *)
(* A faulting store has not been pushed.                                    *)
CommitException ==
    /\ stage = "commit" /\ ~ trap
    /\ \E n \in Finishing : /\ n < CommitWidth /\ n < Len(rob)
                            /\ Finished(n + 1) /\ ~ IsStore(rob[n + 1])
                            /\ RetireFirst(n)
                            /\ feedback' = [flush |-> TRUE, committed |-> CommitIds(n + 1)]
    /\ rob' = << >>
    /\ trap' = TRUE
    /\ stage' = "lsu"
    /\ UNCHANGED <<new_id, busy, buffer, push_q, memory>>

(* An interrupt: nothing retires.                                           *)
CommitInterrupt ==
    /\ stage = "commit" /\ ~ trap
    /\ rob # << >>
    /\ feedback' = [flush |-> TRUE, committed |-> {}]
    /\ rob' = << >>
    /\ trap' = TRUE
    /\ stage' = "lsu"
    /\ UNCHANGED <<new_id, busy, buffer, push_q, memory, retired>>

(* The walk back keeps the flush up; it ends with an empty ROB.             *)
CommitWalkBack ==
    /\ stage = "commit" /\ trap
    /\ feedback' = [flush |-> TRUE, committed |-> {}]
    /\ trap' \in BOOLEAN
    /\ new_id' = IF trap' THEN new_id ELSE 0
    /\ stage' = "lsu"
    /\ UNCHANGED <<rob, busy, buffer, push_q, memory, retired>>

-----------------------------------------------------------------------------
(* The load/store unit, and the way of executed instructions to commit.     *)
is_full == Len(buffer) = BufferSize
Waiting == {k \in 1 .. Len(rob) : IsStore(rob[k]) /\ rob[k].status = "waiting"}
NextStore == CHOOSE k \in Waiting : \A j \in Waiting : k <= j

LsuFlush ==
    /\ stage = "lsu" /\ feedback.flush
    /\ busy' = FALSE
    /\ stage' = "rename"
    /\ UNCHANGED <<rob, new_id, trap, feedback, buffer, push_q, memory, retired>>

(* The results that reach commit in this cycle: of any instructions already *)
(* executed, and of any others than stores.                                 *)
Reportable == {k \in 1 .. Len(rob) : rob[k].status = "executed" \/ ~ IsStore(rob[k])}
Reported(done) == [k \in 1 .. Len(rob) |->
                     IF k \in done THEN [rob[k] EXCEPT !.status = "finished"] ELSE rob[k]]
Item(e) == [rob_id |-> e.id, store |-> e.store, committed |-> FALSE]

(* The oldest waiting store is executed.                                    *)
LsuStore ==
    /\ stage = "lsu" /\ ~ feedback.flush
    /\ Waiting # {} /\ ~ is_full
    /\ busy' = FALSE
    /\ push_q' = Append(push_q, Item(rob[NextStore]))
    /\ \E done \in SUBSET Reportable :
          rob' = [Reported(done) EXCEPT ![NextStore].status = "executed"]
    /\ stage' = "rename"
    /\ UNCHANGED <<new_id, trap, feedback, buffer, memory, retired>>

(* The buffer is full: the store is held and tried again in the next cycle. *)
LsuHold ==
    /\ stage = "lsu" /\ ~ feedback.flush
    /\ Waiting # {} /\ is_full
    /\ busy' = TRUE
    /\ \E done \in SUBSET Reportable : rob' = Reported(done)
    /\ stage' = "rename"
    /\ UNCHANGED <<new_id, trap, feedback, buffer, push_q, memory, retired>>

(* No store is issued in this cycle.                                        *)
LsuOther ==
    /\ stage = "lsu" /\ ~ feedback.flush
    /\ ~ busy
    /\ \E done \in SUBSET Reportable : rob' = Reported(done)
    /\ stage' = "rename"
    /\ UNCHANGED <<new_id, trap, feedback, busy, buffer, push_q, memory, retired>>

NextId(id) == (id + 1) % RobSize

(* Rename: an instruction enters the ROB, or none does.                     *)
Rename ==
    /\ stage = "rename"
    /\ ~ feedback.flush /\ Len(rob) < RobSize
    /\ \E s \in Store \cup {NoStore} :
          rob' = Append(rob, [id |-> new_id, store |-> s, status |-> "waiting"])
    /\ new_id' = NextId(new_id)
    /\ stage' = "store"
    /\ UNCHANGED <<trap, feedback, busy, buffer, push_q, memory, retired>>

RenameNone ==
    /\ stage = "rename"
    /\ stage' = "store"
    /\ UNCHANGED <<rob, new_id, trap, feedback, busy, buffer, push_q, memory, retired>>

-----------------------------------------------------------------------------
(* store_buffer::run and sync.                                              *)
MarkNothing(b) == b                              \* mutant of Mark
Mark(b) == [k \in 1 .. Len(b) |->
              IF b[k].rob_id \in feedback.committed
              THEN [b[k] EXCEPT !.committed = TRUE] ELSE b[k]]

(* A flush drops everything from the first entry that is neither committed  *)
(* nor being committed in this cycle.                                       *)
Kept == {n \in 0 .. Len(buffer) :
            \A k \in 1 .. n : buffer[k].committed \/ buffer[k].rob_id \in feedback.committed}
KeptAll == buffer                                \* mutant of Truncated
KeptCommitted ==                                 \* mutant of Truncated
    SelectSeq(buffer, LAMBDA i : i.committed)

Truncated == SubSeq(buffer, 1, Newest(Kept))

StoreFlush ==
    /\ stage = "store" /\ feedback.flush
    /\ buffer' = Mark(Truncated)
    /\ push_q' = << >>
    /\ feedback' = NoFeedback
    /\ stage' = "commit"
    /\ UNCHANGED <<rob, new_id, trap, busy, memory, retired>>

(* Otherwise a committed front entry is written to the bus, the entries of  *)
(* retired instructions are marked and the queued push is done, if there is *)
(* room.                                                                    *)
Minimum(a, b) == IF a < b THEN a ELSE b
Pushed(b) == b \o SubSeq(push_q, 1, Minimum(Len(push_q), BufferSize - Len(b)))

NeverWriteBack == FALSE                          \* mutant of WriteBack
WriteBack == buffer # << >> /\ Head(buffer).committed

StoreRun ==
    /\ stage = "store" /\ ~ feedback.flush
    /\ memory' = IF WriteBack THEN Write(memory, Head(buffer).store) ELSE memory
    /\ buffer' = Pushed(Mark(IF WriteBack THEN Tail(buffer) ELSE buffer))
    /\ push_q' = << >>
    /\ feedback' = NoFeedback
    /\ stage' = "commit"
    /\ UNCHANGED <<rob, new_id, trap, busy, retired>>

Commit == \/ CommitRetire \/ CommitMispredict \/ CommitException
          \/ CommitInterrupt \/ CommitWalkBack
Lsu == LsuFlush \/ LsuStore \/ LsuHold \/ LsuOther
StoreStep == StoreFlush \/ StoreRun

Next == Commit \/ Lsu \/ Rename \/ RenameNone \/ StoreStep

Spec == Init /\ [][Next]_vars

-----------------------------------------------------------------------------
(* get_feedback_value: what a load of `size' bytes at addr returns.  The    *)
(* bytes of an entry that overlap the access, by their place in the result, *)
(* are laid over what the bus returns, oldest entry first: the youngest     *)
(* entry with a byte determines it.                                         *)
OverlaySameAddress(addr, size, s) ==             \* mutant of Overlay
    IF s.addr = addr THEN [b \in 0 .. Minimum(s.size, size) - 1 |-> s.data[b]] ELSE << >>

Overlay(addr, size, s) ==
    IF s.addr >= addr /\ s.addr < addr + size
    THEN LET offset == s.addr - addr
             length == Minimum(s.size, addr + size - s.addr)
         IN  [b \in offset .. offset + length - 1 |-> s.data[b - offset]]
    ELSE IF s.addr < addr /\ s.addr + s.size > addr
    THEN LET offset == addr - s.addr
             length == Minimum(size, s.addr + s.size - addr)
         IN  [b \in 0 .. length - 1 |-> s.data[b + offset]]
    ELSE << >>

Overlapping(addr, size, b) ==
    {k \in 1 .. Len(buffer) : b \in DOMAIN Overlay(addr, size, buffer[k].store)}
get_feedback_value(addr, size) ==
    [b \in 0 .. size - 1 |->
        LET hits == Overlapping(addr, size, b)
        IN  IF hits = {} THEN memory[addr + b]
            ELSE Overlay(addr, size, buffer[Newest(hits)].store)[b]]

-----------------------------------------------------------------------------
(* Memory as program order defines it for the next access of the LSU: all   *)
(* retired stores and then the executed ones still in the ROB.              *)
Executed(e) == IsStore(e) /\ e.status # "waiting"
ProgramMemory ==
    WriteAll(retired, [k \in 1 .. Len(rob) |-> IF Executed(rob[k]) THEN rob[k].store ELSE NoStore])

(* A load returns, byte by byte, the youngest older store's value, whatever *)
(* mix of retired, committed and speculative stores it overlaps, in the     *)
(* buffer and in memory (store_buffer.h get_feedback_value, lsu.cpp).       *)
LoadsExact ==
    stage = "lsu" /\ ~ feedback.flush =>
        \A x \in Access : get_feedback_value(x.addr, x.size) =
                          [b \in 0 .. x.size - 1 |-> ProgramMemory[x.addr + b]]

(* Retired stores are never lost and speculative ones never reach memory:   *)
(* memory and the committed entries always make up the retired state, in    *)
(* particular after a flush that shares its cycle with a retirement, and    *)
(* although ids are reused right after a flush.                             *)
CommittedStores(b) == [k \in 1 .. Len(b) |-> IF b[k].committed THEN b[k].store ELSE NoStore]
RetiredStoresKept == stage = "commit" => WriteAll(memory, CommittedStores(buffer)) = retired

(* The buffer is in program order: committed entries first, then exactly    *)
(* the executed stores of the ROB, in order; none is dropped when it fills. *)
Same(i, e) == i.rob_id = e.id /\ i.store = e.store
BufferMatchesRob ==
    stage = "commit" /\ ~ trap =>
        LET open == {k \in 1 .. Len(buffer) : ~ buffer[k].committed}
            done == {k \in 1 .. Len(rob) : Executed(rob[k])}
        IN  /\ \A k \in open : \E j \in done : Same(buffer[k], rob[j])
            /\ \A j \in done : \E k \in open : Same(buffer[k], rob[j])
            /\ \A k1, k2 \in open, j1, j2 \in done :
                  Same(buffer[k1], rob[j1]) /\ Same(buffer[k2], rob[j2]) => (k1 < k2 <=> j1 < j2)
            /\ \A j, k \in 1 .. Len(buffer) : j < k /\ buffer[k].committed => buffer[j].committed

(* What the main loop and the units guarantee: the loop goes on, a store    *)
(* reaches the LSU, no result is under way for ever, a walk back ends.      *)
UnderWay(i) == \E k \in Reportable : rob[k].id = i /\ rob[k].status # "finished"
FairSpec == /\ Spec
            /\ WF_vars(Next)
            /\ SF_vars(LsuStore)
            /\ \A i \in RobId : []<>~UnderWay(i)
            /\ []<>~trap

(* A store held back by a full buffer is not stuck: the older stores that   *)
(* fill the buffer retire and drain.                                        *)
HeldStoreReleased == busy ~> ~ busy

(* Every retired store reaches memory: as long as the front entry of the   *)
(* buffer is a committed one, front entries are written, whatever flushes   *)
(* intervene.                                                               *)
FrontRetired == buffer # << >> /\ Head(buffer).committed
StoresDrain == []<>~FrontRetired \/ []<><<StoreRun /\ WriteBack>>_vars
=============================================================================
