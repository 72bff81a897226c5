----------------------------- MODULE IssueQueue -----------------------------
(***************************************************************************)
(* component::issue_queue<T> (component/issue_queue.h), a fifo whose       *)
(* entries leave from any position.  The issue stage uses it in a fixed    *)
(* order in a cycle: it lists the ids of the entries it sends to execution *)
(* units, requests updates of other entries (set_item_sync), pushes new    *)
(* ones, and then compress_sync and sync move the remaining entries        *)
(* together, in place.  The ring may be full, and it may wrap once entries *)
(* have also left by pop_sync.                                             *)
(***************************************************************************)
EXTENDS Fifo

CONSTANT IssueWidth        \* ISSUE_WIDTH

ASSUME IssueWidthAssumption == IssueWidth \in Nat

VARIABLES step,            \* what the issue stage does next in this cycle
          item_id_list,    \* the ids of the entries that leave
          sync_request_q   \* the updates requested in this cycle

queueVars == <<vars, step, item_id_list, sync_request_q>>

-----------------------------------------------------------------------------
WindowWithWptr(id) ==                                         \* mutant
    ~ is_empty /\ IF wstage = rstage THEN rptr <= id /\ id <= wptr
                  ELSE rptr <= id \/ id < wptr
check_id_valid(id) ==
    ~ is_empty /\ IF wstage = rstage THEN rptr <= id /\ id < wptr
                  ELSE rptr <= id \/ id < wptr

(* The ids a loop over the queue visits: from the front to the first id     *)
(* that is not valid or is the front again.                                 *)
VisitedIds == LET n == CHOOSE n \in 1 .. Size :
                         /\ \A k \in 1 .. n - 1 : check_id_valid((rptr + k) % Size)
                         /\ n = Size \/ ~ check_id_valid((rptr + n) % Size)
              IN  IF is_empty THEN << >> ELSE [k \in 1 .. n |-> (rptr + k - 1) % Size]

StageOfFront(id) == rstage                                    \* mutant
StageOf(id) == IF id < rptr THEN 1 - rstage ELSE rstage       \* cur_stage

RemoveOnlyFirst(acc, id, list) ==                             \* mutant
    IF ~ acc.found
    THEN IF acc.i <= Len(list) /\ id = list[acc.i]
         THEN [acc EXCEPT !.found = TRUE, !.i = @ + 1, !.wptr = id, !.wstage = StageOf(id)]
         ELSE acc
    ELSE [acc EXCEPT !.buffer[acc.wptr] = acc.buffer[id],
                     !.wptr = NextPtr(@), !.wstage = NextStage(acc.wptr, @)]

(* One iteration of compress: an entry of the list leaves a hole, an entry  *)
(* behind the first hole moves to the next place, which is also the new     *)
(* write pointer.                                                           *)
CompressStep(acc, id, list) ==
    LET listed == acc.i <= Len(list) /\ id = list[acc.i]
    IN  IF listed /\ ~ acc.found
        THEN [acc EXCEPT !.found = TRUE, !.i = @ + 1, !.wptr = id, !.wstage = StageOf(id)]
        ELSE IF listed THEN [acc EXCEPT !.i = @ + 1]
        ELSE IF acc.found
        THEN [acc EXCEPT !.buffer[acc.wptr] = acc.buffer[id],
                         !.wptr = NextPtr(@), !.wstage = NextStage(acc.wptr, @)]
        ELSE acc

(* The loop after n iterations.                                             *)
CompressLoop(buf, list) ==
    LET loop[n \in 0 .. Len(VisitedIds)] ==
            IF n = 0
            THEN [buffer |-> buf, wptr |-> rptr, wstage |-> rstage, found |-> FALSE, i |-> 1]
            ELSE CompressStep(loop[n - 1], VisitedIds[n], list)
    IN  loop

compress(buf, list) ==
    IF list = << >> \/ is_empty THEN [buffer |-> buf, wptr |-> wptr, wstage |-> wstage]
    ELSE CompressLoop(buf, list)[Len(VisitedIds)]

(* The queued set_item requests applied: the last one for a slot counts.    *)
Requests(id) == {j \in 1 .. Len(sync_request_q) : sync_request_q[j].id = id}
set_items ==
    [id \in Ptr |->
        IF Requests(id) = {} THEN buffer[id]
        ELSE sync_request_q[CHOOSE j \in Requests(id) : \A i \in Requests(id) : i <= j].value]

-----------------------------------------------------------------------------
QueueInit == /\ Init /\ PopStatusSave = FALSE   \* only the front end's queues set it
             /\ step = "select" /\ item_id_list = << >> /\ sync_request_q = << >>

(* The selection loop of issue::run: ids in the order of the queue.         *)
Increasing(f, n) == \A i, j \in 1 .. n : i < j => f[i] < f[j]
Select == /\ step = "select"
          /\ \E n \in 0 .. IssueWidth : \E at \in [1 .. n -> 1 .. Len(VisitedIds)] :
                /\ Increasing(at, n)
                /\ item_id_list' = [j \in 1 .. n |-> VisitedIds[at[j]]]
          /\ step' = "update"
          /\ UNCHANGED <<vars, sync_request_q>>

(* set_item_sync: the wake-up loop visits the ids in the order of the queue *)
(* and leaves out those of the list.                                        *)
Update(k, value) ==
    /\ step = "update"
    /\ \A j \in 1 .. Len(item_id_list) : item_id_list[j] # VisitedIds[k]
    /\ \A j \in 1 .. Len(sync_request_q) :
          \E m \in 1 .. k - 1 : sync_request_q[j].id = VisitedIds[m]
    /\ sync_request_q' = Append(sync_request_q, [id |-> VisitedIds[k], value |-> value])
    /\ UNCHANGED <<vars, step, item_id_list>>

Insert(value) == /\ step \in {"update", "insert"}
                 /\ push(value)
                 /\ step' = "insert"
                 /\ UNCHANGED <<item_id_list, sync_request_q>>

(* compress_sync and sync at the end of issue::run.                         *)
Sync == /\ step \in {"update", "insert"}
        /\ LET new == compress(set_items, item_id_list)
           IN  /\ buffer' = new.buffer
               /\ wptr' = new.wptr /\ wstage' = new.wstage
        /\ step' = "select" /\ item_id_list' = << >> /\ sync_request_q' = << >>
        /\ UNCHANGED <<rptr, rstage, rptr_saved, rstage_saved, phase>>

(* The flush branch of issue::run.                                          *)
Flush == /\ step = "select"
         /\ flush
         /\ UNCHANGED <<step, item_id_list, sync_request_q>>

(* pop_sync and sync: the front leaves.  The issue stage only compresses;   *)
(* the in-order variant kept in its source, and the class's test, pop.      *)
PopFront == /\ step = "select"
            /\ pop
            /\ UNCHANGED <<step, item_id_list, sync_request_q>>

QueueNext == \/ Select \/ Sync \/ Flush \/ PopFront
             \/ \E k \in 1 .. Len(VisitedIds), v \in Elem : Update(k, v)
             \/ \E v \in Elem : Insert(v)

QueueSpec == QueueInit /\ [][QueueNext]_queueVars

-----------------------------------------------------------------------------
(* Properties.                                                              *)
(* The window test of check_id_valid holds of exactly the occupied slots,   *)
(* also for a wrapped and for a full ring, so that the loops of the issue   *)
(* stage visit every entry once, oldest first.                              *)
WindowExact == VisitedIds = [k \in 1 .. Count |-> Slot(k)]

(* The stage bits still order the pointers after compress has moved the     *)
(* write pointer back across the end of the ring.                           *)
RingSound == 0 <= Count /\ Count <= Size

(* The reference: the entries whose id is not listed, with their updates.   *)
Unlisted == {k \in 1 .. Count : \A j \in 1 .. Len(item_id_list) : item_id_list[j] # Slot(k)}
Updated(k) ==
    IF \E j \in 1 .. Len(sync_request_q) : sync_request_q[j].id = Slot(k)
    THEN sync_request_q[CHOOSE j \in 1 .. Len(sync_request_q) : sync_request_q[j].id = Slot(k)].value
    ELSE Contents[k]
Survivors(queue) ==
    \E at \in [1 .. Len(queue) -> 1 .. Count] :
        /\ Increasing(at, Len(queue))
        /\ {at[j] : j \in 1 .. Len(queue)} = Unlisted
        /\ \A j \in 1 .. Len(queue) : queue[j] = Updated(at[j])

(* What leaves is exactly what was listed: at the end of a cycle the queue  *)
(* holds the other entries, each with its update, and the entries pushed    *)
(* since, all in order (issue_queue.h compress and sync).                   *)
SyncExact == [][Sync => Survivors(Contents')]_queueVars
=============================================================================
