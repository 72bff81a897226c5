# A verification project for MyRISC-VCore_Model

MyRISC-VCore_Model (`src/src/`) is a cycle-level simulator of a superscalar,
out-of-order RISC-V core. This directory holds TLA+ modules that model its
core logic, TLC configurations that check them on small machines, and proofs
checked by TLAPS. `PROJECT.json` maps every definition to the lines it stands
for.

## 1. The system

### Parts

The simulator is one loop (`top_source/main.cpp` 1092-1182). A pass of the loop
is a clock cycle: each pipeline stage's `run` is called once, from the last
stage to the first, so that a stage sees what its successors did in this cycle
and what its predecessors did in the previous one. Stages change shared
components either at once or through a `*_sync` method, which queues a request
that the component's `sync`, called at the end of the pass, applies in queue
order. Which of the two a call uses is what most of the hard questions are
about.

| part | state it keeps | operations |
|------|----------------|------------|
| `fifo<T>` (`component/fifo.h`) | ring, read/write pointer, a stage bit for each, a saved read pointer | push, pop, flush, reset_pop_status |
| `rat` | per physical register: architectural register, valid, visible, commit bit | set_map, release_map, commit_map, restore_map, restore, sync |
| `rob` (a fifo) | reorder buffer entries | push, pop_sync, set_item_sync, flush, walks by id |
| `checkpoint_buffer` (a fifo) | checkpoints: the two bitmaps of the rat, branch history | push, set_item_sync, pop_sync, flush |
| `regfile` | values and valid bits of physical registers | write_sync, restore_sync |
| fetch | pc, `jump_wait` | run; takes a checkpoint for a predicted branch |
| decode | - | run; moves instructions between two fifos |
| rename | - | run; allocates registers, ROB entries, fills checkpoints |
| readreg, issue, `issue_queue` | issue queue, round-robin pointers, waiting flags | run; operand bypass, wake-up, selection, in-order memory and CSR operations |
| execution units | one operation each; the LSU a held store | run |
| wb | - | run; writes phy_regfile, reports to commit |
| commit | `cur_state`, `rob_item_id`, `restore_rob_item_id` | run; retires, starts and continues flushes |
| `store_buffer` (a fifo) | speculative and committed stores | push_sync, run, get_feedback_value |
| bus, slaves (memory, clint) | memory, timer | reads at once, writes at sync |
| csr file, interrupt interface | CSRs, pending bits | write_sync, write_sys_sync, get_cause, set_ack_sync |
| branch predictor, ras | history tables, return addresses | get_prediction, update |
| character device, GUI server | threads with lock-free queues, stop flags | receive, send, commands |

### Interaction

Commit returns a feedback pack (flush, jump, committed ids) that every other
stage and the store buffer receive in the same pass. Rename reads the rat and
writes it at sync; commit of the same pass may have queued releases before it.
Fetch pushes into the checkpoint buffer at once, rename fills the entry at sync
and commit reads it many cycles later. The LSU tests the store buffer, which
drains later in the same pass and takes the LSU's push at its end.

### What is hard

* State read in one cycle and used in a later one: a checkpoint, the saved read
  pointer of a fifo, the ROB id a result carries, the id a committed store was
  announced with.
* Requests of several stages applied in one sync, in queue order.
* Immediate flushes next to queued pops.
* Flushes of three kinds (misprediction in one cycle, exception and interrupt by
  a walk back over several), at any point, with ids that start again at 0.
* Resources at their limit: free registers, ROB, checkpoints, store buffer.
* Progress: walk backs end, entries leave the ROB, held stores are released.
* Reports from different moments of a pass read together, as the three idle
  tests of fence.i.
* Threads (core, server and receiver of the character device, the GUI server)
  that spin on one another's queues.

`PROJECT.json` lists these hazards at the lines where they bite, with the
properties that cover them.

### What makes each part correct

* fifo: it is a FIFO queue; full and empty are never confused.
* rat, rename, commit, checkpoints: an architectural register is always mapped
  to the target of its newest writer in program order; after a flush, to that of
  the last retired writer; no physical register is lost or owned twice; a value
  is marked valid exactly when its writer has delivered it; no assert fires.
* store buffer, LSU: a load returns what program order says; retired stores
  reach memory exactly once and in order; speculative ones never do.
* issue queue: what stays after `compress` is what was not sent, in order.
* readreg, issue, units: every instruction is sent to a unit exactly once, with
  operands that have been written; loads and stores in order; CSR instructions
  and mret alone, a fence when older stores have reached memory; nothing blocks
  for good.
* interrupts, CSRs: to a program the core is a machine that executes one
  instruction at a time; enabled requests are taken.
* fetch, decode: what is in flight is the path that was predicted, starting at
  the instruction the program executes next; fence.i meets an empty core.
* character device: characters are neither lost, repeated nor reordered; it is
  known in which states a thread waits for ever.

## 2. Modules

| module | models | run by |
|--------|--------|--------|
| `BoundedQueue` | the abstract promise of a queue | (instantiated by `Fifo`) |
| `Fifo` | `component/fifo.h` | `MCFifo` |
| `Rat` | `component/rat.h` as operators | (extended by `RenameCommit`) |
| `RenameCommit` | commit, wb, rename, fetch with rat, rob, checkpoint_buffer, valid bits | `MCRenameCommit` |
| `RenameCommitProofs` | theorems about `RenameCommit` | - |
| `StoreBuffer` | `store_buffer.h` with the LSU, the retirement of stores and memory | `MCStoreBuffer` |
| `StoreBufferProofs` | theorems about `StoreBuffer` | - |
| `IssueQueue` | `issue_queue.h`, a `Fifo` with changes in the middle | `MCIssueQueue` |
| `QueueProofs` | theorems about `Fifo` and `IssueQueue` | - |
| `Issue` | readreg, issue and the execution units | `MCIssue` |
| `IssueProofs` | theorems about `Issue` | - |
| `Hart` | the abstract promise about traps and CSRs | (instantiated by `Trap`) |
| `Trap` | csr file, interrupt interface, clint, with commit, the csr unit and mret | `MCTrap` |
| `TrapProofs` | theorems about `Trap`, with the refinement of `Hart` | - |
| `FrontEnd` | fetch, decode, rename's input and commit's feedback, with addresses | `MCFrontEnd` |
| `FrontEndProofs` | theorems about `FrontEnd` | - |
| `CharDevice` | `csr/charfifo.h` and the threads of the character device | `MCCharDevice` |
| `CharDeviceProofs` | theorems about `CharDevice` | - |
| `Induction` | induction over numbers, stated for sets; extended by the proofs that need it | - |

### Fifo

The variables are the members of the class. `phase` is the only addition: the
two front-end queues run with `pop_status_save`, and the main loop uses such a
queue in a fixed order in a cycle (reset_pop_status, the consumer's pops, the
producer's pushes or its flush). That order matters: `flush` does not reset the
saved pointer, so a push after a flush in the same cycle would be tested against
an unrelated position. Without the flag operations come in any order.
`Contents` is the queue the ring stands for, `ImplementsQueue` the refinement.

### Rat and RenameCommit

`Rat` keeps the four tables of `rat.h` as one function and three sets and adds
`ok`, which becomes FALSE where an assert of the code would abort. Which of the
free registers is handed out is left open. An instruction queues one request,
which stands for the calls the code makes for it (release and commit of a retired
one are a single request); `Tables` gives the table after each request of a queue,
and `Applied`, the table after all of them, is `rat::sync`.

`RenameCommit` walks through a pass in five steps (`stage`): commit, execute,
rename, fetch, sync. Requests queued in a pass are in `rat_q`, `rob_q`, `reg_q`
and `cp_q`; `Sync` applies them in the code's order. For the valid bits that comes to
the last request that concerns a register (`RegSync`). What lies between rename and
wb is a set `backend` of instructions that finish in any order with any latency
and any outcome, which is more than issue and the units can produce. The two
front-end queues are one `fifo`; fetch delivers any instruction stream. `Mix`
selects the events an instance considers (predicted branches, unpredicted jumps,
exceptions, interrupts). `arf` is a history variable: the register of the last
retired writer, the reference of the properties.

The ROB and the checkpoint buffer are rings of ids with a count; `Fifo` is what
justifies using a count in place of the stage bits. `NoItem` marks entries
outside the window.

### StoreBuffer

Four steps per pass: commit, lsu, rename, store. Values are functions from byte
offsets to bytes, so that the shifts and masks of `get_feedback_value` become a
choice of bytes (`Overlay`). The ROB is reduced to a queue of stores and other
instructions with ids that wrap and restart at 0 after a flush. Misaligned and
unmapped accesses raise an exception before the LSU and never reach the buffer.
`retired` is a history variable: memory after all retired stores. A byte after a
row of stores is the one of the last store that covers it (`ByteOf`), which is
what applying them one by one comes to. Addresses are an interval of numbers
(`AddrAssumption`): an access that starts and ends in the memory lies in it.

### IssueQueue and Issue

`IssueQueue` extends `Fifo` with the window test, the walk by ids, `compress` and
the queued updates, and checks `sync` against a reference on sequences. The
issue stage of today only compresses, so its ring never wraps; `pop_sync`, which
the commented-out variant of the stage and `test/issue_queue.cpp` use, is an
action too, so that `compress` is checked for every position of the ring.
The loop of `compress` is a recursive function of the number of iterations
(`CompressLoop`); the updates of `set_item_sync` are resolved to the last one of
a slot. The queue does not use `pop_status_save`, which is a conjunct of
`QueueInit`; `Fifo` and its theorems keep both modes.

`Issue` uses the queue as a sequence, which `IssueQueue` justifies. A pass
without a flush is three steps, `BackRun` (commit, wb, the units), `IssueRun`
(`issue::run`) and `FrontRun` or `FrontStalled` (readreg, rename, sync); a pass
with one is the step `Flush`. An operand is the register it waits for: readreg,
the input of the issue stage and the wake-up of the queue each take away what
the register file, the execute feedback or the wb feedback offer.
`SelectStep` and `DispatchStep` are one iteration of the two loops of
`issue::run`: the first picks `item_id_list`, which `compress` takes off the
queue, the second tests operands and units again. `SelectLoop`, `DispatchLoop` and
`Remaining` (what `compress` leaves) are recursive functions of the number of
iterations. The mapping of registers is
read off the ROB (`RenameCommit` shows that the rat agrees with it); the store
buffer is a count. A branch is an `alu` instruction after which a flush may cut.
A retired trap or misprediction costs further cycles of walk back in the code;
they hold no instruction and are left to `RenameCommit`.

### Hart and Trap

`Hart` is the reference: one instruction per step, an interrupt only between two
instructions, CSRs that change at once. It says what this core does, which in
three places is not what the privileged specification says: an exception leaves
mstatus alone, mret leaves MPIE alone, and a CSR instruction whose source is x0
never writes.

`Trap` is the pipeline. A pass is clint (`run_pre` raises the lines), commit (one
step per slot, or one step of a walk back), units, front and sync. CSR writes of
retiring instructions, of trap entry and of `interrupt_interface::run` go through
`csr_q` and are applied at sync in queue order. A CSR is the set of its bits that
are one, so that `csrrs` and `csrrc` are union and difference; mepc and mtvec are
instruction addresses. mtime and mtimecmp are two words of `Half` values. The
refinement mapping gives `Hart` the CSRs with the queue applied; while an
interrupt is walked back its entry is already visible, because nothing can
retire any more. Programs are arbitrary: an instruction gets its kind when it
enters the ROB, from the set `Instr`, of which only the fields an instruction of
its kind has are assumed (`InstrAssumption`).

### FrontEnd

A pass is commit (per slot), the results, rename, decode, fetch (per slot) and
sync. The program `code` is any function from addresses to kinds; a jump gets
its outcome when it executes; the predictor may answer anything, which covers
`branch_predictor.h`. A queue's free space counts what its reader has taken in
this pass (`popped`), as `pop_status_save` does. `arch` is a history variable:
the instruction the program executes next. The walk back takes any number of
passes (`RenameCommit` and `Trap` model each of them).

### CharDevice

One step per access to something another thread sees. The driver of the guest
(`rt-thread/bsp/MyRISCVCore`, `drv_uart.c`) peeks with a CSR read, which executes
speculatively, and pops with a CSR write, which takes effect at `csr_file.sync`;
sync spins while the queue is full, and the core with it (`spin`). Characters are
numbered, modulo more than the device can hold at a time, so that loss,
repetition and reordering show; a carriage return has no number, because the
receiver drops it. The queues are boost's `spsc_queue`, of which only that a push
into a full queue fails matters; the client is external. Clients may come and go,
or never come.

### Names

Definitions marked `mutant` are faulty variants of the definition that follows.
Replacing the definition by the variant must make the property that
`PROJECT.json` names with it fail; they show that the properties can fail.

## 3. Runs

| run | instance | shows |
|-----|----------|-------|
| fifo | 3 slots, 2 values, with `pop_status_save` | the ring is a queue, `get_size`, `get_front`, `get_tail` exact |
| rename_mixed | 4 registers for 2 architectural, ROB 2, groups of 2, 2 checkpoints, all events | mapping, free list, valid bits exact under events in combination; ids reused; no assert fires |
| rename_deep | the same registers, ROB 3, one checkpoint, branches and traps | older instructions retire and edit a checkpoint while its branch waits |
| rename_live | 2 registers for 1, ROB 2, one checkpoint, branches and traps | every entry leaves the ROB; without traps a full checkpoint buffer drains |
| store_buffer | 2 bytes, sizes 1 and 2, buffer 2, ROB 2, all flushes | loads, retired stores, order; held stores are released, retired ones drain |
| issue_queue | ring of 4, 2 values | `compress` and updates at every position of the ring |
| issue_order | 3 registers for 1, ROB 3, queue 3, groups of 3, a store buffer of 1, ALU operations, loads, stores, fences, flushes | no operand used early, no wake-up lost; memory operations and fences in order |
| issue_live | 2 registers for 1, ROB 3, queue 2, groups of 2, CSR instructions, fences, stores, flushes | nothing lost or sent twice when an input stalls inside a group; CSR instructions alone; every instruction leaves the ROB |
| trap | 2 addresses, ROB 2, groups of 2, software and timer requests, exceptions, mret, six CSRs | the pipeline implements `Hart`; mip shows the lines; no assert fires |
| trap_live | ROB 2, a clint with words of 2 values, written word by word | a request falls only on a wrap or on a write of a word that asks for it; enabled ones are taken; the core never stops |
| front | programs of 2 instructions over stores, jumps, fence.i, faults; queues 2 and 1, ROB 3, 2 checkpoints, widths 2 | fetch follows the program's path; fence.i meets an empty core; no wait lasts for ever |
| char | queues of 2, a receive buffer of 2, carriage returns, clients that close or reset, quit | input and output exact; the device hangs only in the states `HangsOnlyIf` names |

*Why the bounds are enough.* Rings of two and three slots wrap after a few
steps and are full and empty with the pointers at every position. Two
architectural registers and groups of two give instructions of one group that
write the same and different registers; one or two spare physical registers make
rename run out of them in most states. The ROB of three holds a branch or a
faulting instruction with an older and a younger one. Two checkpoints let one be
taken while another is restored. In the issue stage a queue of two behind groups
of two stalls its input inside a group, and groups of three put a producer, a
load that waits for it and a younger store into the queue at once. In `Trap` two
entries are a serial instruction with one behind it, and a walk back of two
steps; two addresses tell mepc, mtvec and the next instruction apart, and a word
of two values lets the low word of mtime carry and the whole counter wrap. In
`FrontEnd` two addresses tell a right from a wrong target, every queue fills, and
a group can end in the middle. In `CharDevice` queues and buffer of two fill and
wrap, and a receiver can spin with a character left in its buffer. The
runs of `Issue` do not use the kinds `mul`, `div` and `mret` (`Trap` has mret).
Physical and architectural registers are interchangeable, and the safety runs of
`RenameCommit` and `Issue` use symmetry over them. `View` (in
`MCRenameCommit`) drops what no step can read again, the table entry and commit
bit of a free register and checkpoints nobody refers to.

*Fairness.* `WF(Next)`: the loop goes on. `SF(Completes(i))`: an instruction in
the back end finishes, because the units have bounded latency and the oldest
instruction is never blocked. `SF(Rename)`: the issue queue does not stall rename
forever, because it drains when instructions finish. In `StoreBuffer`: a store
reaches the LSU, no result is under way for ever, and a walk back ends, because
it undoes an entry per pass. `Issue` needs one assumption only, that the loop goes on
(`LoopRuns`); its `Progress` is the reason for the assumptions the other modules
make about the back end. `Trap` and `FrontEnd` assume in the same way that units
deliver, that rename takes instructions, that retired stores are written in
passes without a flush, and `FrontEnd` that a walk back ends. Nothing is assumed
about branches, traps or what is fetched; the liveness properties hold for
endless traps too. In `CharDevice` the threads are scheduled, the guest polls
for ever and not every read of it is flushed, of the clients that come some
read, and what a client that is gone has sent comes to an end; clients need
neither come nor leave nor send, and a core that waits for room in `send_fifo`
while no client comes is one of the hangs `HangsOnlyIf` names. Deadlock is not
checked there, since the device really can come to a standstill: which
standstills there are is what `HangsOnlyIf` says.

## 4. Proofs

`QueueProofs` proves about `Fifo`, for every size, element set and both modes:

* `RingSafe`: `Spec => [](TypeOK /\ PointersOrdered)`. The inductive invariant is
  that conjunction. What carries the induction is the part of `PointersOrdered`
  about the saved pointer: a push tests fullness against the saved pointer only,
  so one has to know that the saved pointer is at most one lap behind the write
  pointer and never ahead of the real read pointer. That fails between a flush and
  the end of the cycle, where `phase` excludes pushes.
* `Refinement`: `Spec => ImplementsQueue`. With the invariant, each push appends
  to `Contents`, each pop takes its tail, a flush empties it and
  reset_pop_status does not change it.

* `ReadsSafe`: `Spec => []ReadsExact`. From the same invariant: the difference of
  the pointers modulo the size is the length of `Contents` unless the ring is
  full, which the stage bits tell (`SizeReads`), and the slots the ends are read
  from are the first and the last of `Contents` (`EndsRead`).

Assumed: the size is a positive natural number and the flag a Boolean.

`FrontEndProofs` proves, for every program over the kinds, every prediction,
outcome and trap and all sizes and widths:

* `FenceISafe`: `Spec => []FenceIOrdered`. The inductive invariant `FenceInv` says
  where a fence.i can be (`FenceInRob`, `FenceInDr`, `FenceInFd`: always first,
  with everything before it empty and no store left) and, which is what makes it
  inductive, what each report fetch relies on means at the moment it is used:
  after commit, no feedback means an empty ROB (`EmptyRob`); after rename, also an
  empty `dr` (`EmptyDr`); after decode, an empty core (`EmptyCore`). The reports
  stay true because in between only later stages' queues could refill them, and
  those are reported empty in the same pass. `DrFits` is needed because decode
  computes its room by a subtraction.
* `PathSafe`: `Spec => []PathExact`. The property speaks about the start of a pass;
  between a commit that redirects fetch and the fetch that obeys, the core is off
  its path on purpose. `PathInv` therefore has a clause for each of the three
  situations of a pass: `OnPath` while nothing is redirected, `AfterJump` while the
  target of the jump fetch waits for is on its way, `AfterFlush` while the younger
  instructions are disappearing, queue by queue. `FeedbackOfPass` says that the
  feedback is gone when the next commit begins.

There is one lemma per action in each proof. Assumed: the sizes and widths are
positive.

`CharDeviceProofs` proves, for every capacity of the queues and the buffer:

* `InputSafe`: `Spec => []InputExact` and `OutputSafe`: `Spec => []OutputExact`.
  `IInv` adds to the two properties `PeekedIsFront`, without which the pop of a
  value peeked several cycles earlier could remove another character, and
  `OneReceiver`, without which two receivers could interleave what they push. Both
  directions rest on one fact about runs of consecutive numbers under `Append` and
  `Tail` (`AppendRun`, `TailRun`). Assumed: the capacities are positive.

`TrapProofs` proves, for every set of instructions, every size and width:

* `AssertionsSafe`: `Spec => []AssertionsHold`; `MipSafe`: `Spec => []MipShowsLines`;
  `RequestSafe`: `Spec => RequestHeld`, an action property. It rests on `WordOrder`:
  replacing a word of a register by one that is not smaller (greater) does not make
  the register smaller (greater).
* `HartRefined`: `Spec => ImplementsHart`, the safety refinement of `Hart` under the
  mapping of `Trap`. Retirement of an instruction, the step that starts the walk
  back of an interrupt and the last one of the walk back of an exception are the
  steps of `Hart`, all others stutter.

`TrapInv` has to say what an entry of the ROB means long after it executed: its
pending CSR write and its target are what the CSRs of *now* give (`Results`).
That is inductive only because a serial instruction executes alone and with no
request of an older one in the queue (`SerialAlone`, `Drained`), and mip is
excepted, which `interrupt_interface::run` overwrites in every pass (what a program
writes to it is lost, and `Hart` says so). `Path` (consecutive addresses, an
mret only last) gives the pc of the next retirement, `FlushOf` that the cause of a
walk back survives it. Assumed: positive sizes, and `InstrAssumption`.

`StoreBufferProofs` proves, for every memory, every size of buffer and ROB:

* `RetiredSafe`: `Spec => []RetiredStoresKept`, `BufferSafe`:
  `Spec => []BufferMatchesRob`, `LoadsSafe`: `Spec => []LoadsExact`.

`BufferInv` is stated for the middle of a pass, when commit has announced ids that
the buffer has not marked yet and the LSU has queued a push. An item is `Fixed`
when it is marked or its id is announced. Fixed items come first (`FixedFirst`);
memory with the fixed stores on top is the retired memory (`Content`); the others
are the executed stores of the ROB in order (`Matches`). Since ids are reused, the
delicate clause is `IdsLeft`: an id announced in this pass may already belong to a
new instruction, but not to one that has executed. `Consecutive` and
`StoresInOrder` give the order of ids and executions; the lemma `Overwrite` says
that the drained store may be written to memory before the ones behind it.
Assumed: positive sizes, `AddrAssumption`.

`QueueProofs` proves about `IssueQueue`, for every size of the ring and every width:

* `WindowSafe`: `QueueSpec => []WindowExact`; `RingOrdered`: `QueueSpec => []RingSound`;
  `SyncSafe`: `QueueSpec => SyncExact`, an action property: what `sync` leaves is what the
  reference on sequences says.

The proof is a loop proof: `LoopInv` relates the buffer after n iterations of
`compress` to the entries before it (`Compacted`: the survivors so far have moved
to the front and what is still to be visited is untouched). That the loop's
recursive function exists, and that the loop invariant holds for every n, is
induction over n, which `Induction` provides for sets of numbers (`NatInductionSet`,
from the well-foundedness of `<`). `QueueInv` adds to the invariant of `Fifo` that
`item_id_list` lists slots of increasing positions in the window and that queued
updates refer to occupied slots. Assumed: the size is positive.

`RenameCommitProofs` proves, for every number of physical and architectural
registers, every size of the ROB, the checkpoint buffer and the fifo and every
width of commit, rename and fetch:

* `RenameTypeCorrect`: `Spec => []TypeOK`; `AssertionsNeverFail`:
  `Spec => []AssertionsHold`.
* `MappingPrecise`: `Spec => []MappingExact`; `NoLeak`: `Spec => []NoRegisterLeak`;
  `CommittedPrecise`: `Spec => []CommittedExact`.
* `ValidBitsPrecise`: `Spec => []ValidBitsExact`; `CheckpointsPrecise`:
  `Spec => []CheckpointsExact`; `ResultsMatch`: `Spec => []ResultsMatchEntries`.

All follow from `Invariance`: `Spec => []RenameInv`. The properties speak about the
start of a pass. In the middle of one the stages see a state that lags behind what
they have asked for: commit has queued releases and pops, wb valid bits, rename
mappings, and none of it has happened. `RenameInv` therefore is about the state
with the queued requests applied: `Table` is the rat after its queue, `Es` and `Ids`
are the entries of the ROB that stay and their ids, `Bits` the valid bits, `Contents`
the checkpoints, `Claims` the checkpoint each instruction in flight refers to, in
program order. For these, whose values `Sync` does not change, it says:

* `MapInv`: the table is the one that the entries in force produce from the retired
  mapping `arf`. This is `Entries` (targets are distinct and not retired ones, and
  each entry recorded the register its writer replaced) and `Agrees` (valid, visible
  and commit bits and the table, for any number of entries already retired).
  `MappingExact`, `NoRegisterLeak` and half of `CommittedExact` are read off it; the
  recorded registers are what makes retirement and walk back preserve it.
* `Ahead`: rename looks at the rat *without* commit's requests of the same pass. It
  sees the same mapping, and what it sees as free is free (`Hides`).
* `OpsInv`, `KindInv`: instructions and results on their way are those of the
  unfinished entries, one for each; ids alone could not say so, since they start
  again after a flush.
* `BitsInv`: the valid bits are those of the taken registers whose writer has
  delivered; the retired ones are valid also during a walk back.
* `CpInv`: the claims are in the window of the ring of checkpoints and increase in
  program order, which is why popping the oldest when a branch retires pops the
  right one; a filled checkpoint shows the mapping after its branch, and its valid
  set still contains what commit's edit of it relies on.
* `Queues`, `Pass`, `WalkInv`: what can be in the queues at each stage, that a flush
  leaves nothing behind, and where a walk back is.

The module first proves facts about rows of entries (`Latest`, `Now`; retiring,
undoing and adding one entry and then a group), then about the rings of ids, then
one lemma per action, and under it one per part that the action can disturb. Groups
are inductions over the number of requests, with `Induction`. Assumed: positive
sizes, more physical than architectural registers (`RegistersAssumption`) of which
none is `None`, which is no index of a checkpoint either.

`IssueProofs` proves, for every number of registers, every size of the ROB, the
issue queue and the store buffer, every number of ALUs and multipliers and every
width:

* `SentOnce`: `Spec => []InOnePlace`; `WakeupsExact`: `Spec => []OperandsExact`;
* `SerialisedAlone`: `Spec => []SerialAlone`; `FencesOrdered`:
  `Spec => []FenceOrdered`; `MemoryOrdered`: `Spec => []MemoryInOrder`.

All follow from `IssueInvariance`: `Spec => []IssueInv`. The properties speak about
the start of a pass, `IssueInv` about each of its three steps:

* `TypeInv`, `IdsInv`: types and bounds; ROB ids follow one another around the ring,
  so that an instruction is one entry and `next_handle_rob_id` names one entry.
* `PassInv`: what commit and the two feedback packs report is what the ROB and the
  ports hold at that step, and which ports have been emptied.
* `RegsInv`: no physical register has two owners, and a source was the newest
  mapping when its reader was renamed. Without it a wake-up for one writer could
  be taken for that of another.
* `BitsInv`: the valid bits are those of the registers in use whose writer has
  delivered. readreg reads them once, cycles before the entry is in the queue.
* `PlaceInv`, `SlotInv`: what has not been sent stands in a line (queue, what is left
  of the input, the port of rename) in program order; everything unfinished is in
  the line, in the port of its unit or held by the LSU, or has a result, and in one
  of these only. A held store is older than what the port of the LSU has.
* `OperandInv`: an entry of the queue waits for exactly its missing sources. For the
  input, which a stall may keep for many cycles while it sees no feedback, only an
  inequality holds, and `BitsInv` closes the gap when the entry is loaded.
* `OrderInv`, `SentInv`: a barrier in the line has everything younger behind it, a
  memory operation the younger memory operations; a barrier that was sent is next
  to retire, with `is_inst_waiting` set for it, or an empty store buffer.

A pass's front step is split into facts about a row of entries from which n have
retired (`...Drop`) and to which a group was added (`...Grow`). The step of the issue
stage is a loop proof: `SelectOK` is an invariant of the selection loop and at the
same time of the dispatch loop on the list chosen so far. The code runs the two one
after the other and tests operands and units in both, but takes off the queue what
the first one lists. `SelectOK` shows that the second loop never stops before the end
of the list: each listed entry has its operands, finds a unit that is free and is
followed by nothing when it is serialised (`SelectionIs`). The induction over the
iterations is by `Induction`, and the line after the step is the old one without
the listed positions (`ThinnedLine`). Assumed: positive sizes and widths,
and that `None` is neither a register nor an instruction (`NoneAssumption`).

Every invariant and every action property of the safety kind that a run checks is
proved. Only model-checked is liveness, and what depends on ENABLED, which are out
of the prover's reach (`EntryLeaves`, `CheckpointsDrain`, `Progress`, `HangsOnlyIf`
and the like).

## 5. Not modelled

* The arithmetic of single instructions and the decoder's tables: pure functions
  that unit tests reach.
* The branch predictor and the return address stack: `FrontEnd` and
  `RenameCommit` allow every prediction, so nothing shown here depends on them.
* The GUI server, the command interface and the pause logic; trace output,
  printing and JSON.
* The external interrupt request, which nothing raises; mtval; the counters.
* A fetch whose memory answer arrives one pass later: such a pass changes nothing.
* Everything outside `src/src` except the character driver: the operating system
  image, benchmark programs and vendored headers are not this program.

### Observations

What the models show that no document of the repository speaks about:

* The exception and interrupt paths do not empty the checkpoint buffer, so
  checkpoints of undone branches stay in it until a misprediction flushes it
  (`commit.cpp` 1123, 1236); `CheckpointsDrain` therefore speaks about behaviours
  without traps, and no property covers the checkpoints a trap leaves behind.
* The character device can come to a standstill. When a client goes while the
  core spins on a full `send_fifo` and the receiver on a full `rev_fifo`, the
  server thread joins the receiver, which waits for the core, which waits for the
  server thread (`main.cpp` 230, 285, `charfifo.h` 30). When `shutdown` of a reset
  connection throws, the server thread ends without setting
  `charfifo_thread_stopped`, for which the end of the program waits (`main.cpp`
  286, 1745). And while no client comes, nobody makes room for a core that spins on
  `send_fifo`. `HangsOnlyIf` names these states and excludes all others.
* The three differences from the privileged specification listed under `Hart`.

## 6. Plan

1. `Ras`: the return address stack with its counters against an abstract stack,
   and the repair of the branch history.
2. The GUI server: two io contexts, commands posted with a reference to a
   connection that may have ended.
