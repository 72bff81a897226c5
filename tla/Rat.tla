-------------------------------- MODULE Rat --------------------------------
(***************************************************************************)
(* component::rat (component/rat.h): the register alias table, as          *)
(* operators on a record                                                   *)
(*   table    the architectural register a physical register was mapped to *)
(*   valid    the physical registers in use                                *)
(*   visible  those that are the current mapping of their register         *)
(*   commit   those whose writer has retired (meaningful while valid)      *)
(*   ok       no assert of rat.h has failed (common.h aborts the program)  *)
(* x0 is never renamed.  Registers are interchangeable names: the order in *)
(* which get_free_phy_id scans them is left open.                          *)
(***************************************************************************)
EXTENDS Integers, FiniteSets, Sequences

CONSTANTS Phy,    \* the PHY_REG_NUM physical registers
          Arch,   \* the architectural registers other than x0
          None    \* no register

ASSUME NoneAssumption == None \notin Phy \cup Arch
ASSUME RegistersAssumption == /\ IsFiniteSet(Phy) /\ IsFiniteSet(Arch)
                              /\ Cardinality(Phy) > Cardinality(Arch)

RatType == [table : [Phy -> Arch \cup {None}], valid : SUBSET Phy,
            visible : SUBSET Phy, commit : SUBSET Phy, ok : BOOLEAN]

(* What a checkpoint keeps of the table (save, checkpoint_t::clone): the    *)
(* two bitmaps.                                                             *)
CheckpointType == [valid : SUBSET Phy, visible : SUBSET Phy]

-----------------------------------------------------------------------------
(* The registers get_phy_id and get_commit_phy_id count for register a.     *)
Mapped(r, a) == {p \in r.valid \cap r.visible : r.table[p] = a}
Committed(r, a) == {p \in r.valid \cap r.commit : r.table[p] = a}

(* get_phy_id, where the code asserts that there is exactly one.            *)
get_phy_id(r, a) == CHOOSE p \in Mapped(r, a) : TRUE

(* What get_free_phy_id hands out.                                          *)
Free(r) == Phy \ r.valid

(* set_map: p becomes the visible mapping of a, its predecessor is hidden.  *)
set_map(r, a, p) ==
    [table   |-> [r.table EXCEPT ![p] = a],
     valid   |-> r.valid \cup {p},
     visible |-> (r.visible \ Mapped(r, a)) \cup {p},
     commit  |-> r.commit \ {p},
     ok      |-> r.ok /\ p \notin r.valid /\ Cardinality(Mapped(r, a)) = 1]

(* release_map: the register that a retiring instruction replaced is freed. *)
release_map(r, p) ==
    [r EXCEPT !.table = [@ EXCEPT ![p] = None],
              !.valid = @ \ {p},
              !.ok = @ /\ p \in r.valid /\ p \notin r.visible]

commit_map(r, p) ==
    [r EXCEPT !.commit = @ \cup {p},
              !.ok = @ /\ p \in r.valid /\ p \notin r.commit]

(* restore_map: the walk back undoes the set_map of one instruction.        *)
restore_map(r, new, old) ==
    [r EXCEPT !.table = [@ EXCEPT ![new] = None],
              !.valid = (@ \ {new}) \cup {old},
              !.visible = (@ \ {new}) \cup {old},
              !.ok = /\ @
                     /\ new \in r.valid /\ old \in r.valid
                     /\ new \in r.visible /\ old \notin r.visible]

RestoreValidOnly(r, cp) == [r EXCEPT !.valid = cp.valid]   \* mutant of restore

(* restore: a mispredicted branch reinstates the bitmaps of its checkpoint; *)
(* the table and the commit bits are not part of it.                        *)
restore(r, cp) == [r EXCEPT !.valid = cp.valid, !.visible = cp.visible]

(* The map init() leaves: each register in a physical register of its own,  *)
(* committed.                                                               *)
init_rat(m) == [table   |-> [p \in Phy |-> IF \E a \in Arch : m[a] = p
                                           THEN CHOOSE a \in Arch : m[a] = p ELSE None],
                valid   |-> {m[a] : a \in Arch},
                visible |-> {m[a] : a \in Arch},
                commit  |-> {m[a] : a \in Arch},
                ok      |-> TRUE]

-----------------------------------------------------------------------------
(* A request holds what one instruction queues with the *_sync methods:     *)
(* release_map and commit_map when it retires, set_map when it is renamed,  *)
(* restore_map when it is undone, restore when it was mispredicted.  An     *)
(* instruction without a target (None) queues nothing but a restore.        *)
Request == [op : {"retire", "restore_map"}, new : Phy \cup {None}, old : Phy \cup {None}]
      \cup [op : {"set_map"}, arch : Arch \cup {None}, new : Phy \cup {None}]
      \cup [op : {"restore"}, cp : CheckpointType]

Apply(r, req) ==
    IF req.op = "restore" THEN restore(r, req.cp)
    ELSE IF req.new = None THEN r
    ELSE IF req.op = "set_map" THEN set_map(r, req.arch, req.new)
    ELSE IF req.op = "restore_map" THEN restore_map(r, req.new, req.old)
    ELSE commit_map(release_map(r, req.old), req.new)

(* The table after each of the requests of a queue, and sync: after all.    *)
Tables(r, q) ==
    LET after[n \in 0 .. Len(q)] == IF n = 0 THEN r ELSE Apply(after[n - 1], q[n])
    IN  after
Applied(r, q) == Tables(r, q)[Len(q)]
=============================================================================
