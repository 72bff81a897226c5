--------------------------- MODULE MCRenameCommit ---------------------------
(***************************************************************************)
(* Model checking of RenameCommit on small machines.  Registers are model  *)
(* values; nothing in the module orders them.  States that differ only in  *)
(* what no step can read again are identified: the table and commit bit of *)
(* a free register (set_map overwrites both) and the content of a          *)
(* checkpoint that no instruction in flight refers to.                     *)
(***************************************************************************)
EXTENDS RenameCommit, TLC

Symmetry == Permutations(Phy) \cup Permutations(Arch)

LiveCps == {fifo[k].cp : k \in 1 .. Len(fifo)} \cup {o.cp : o \in backend}
      \cup {r.op.cp : r \in wb_commit \cup rob_q.done}
      \cup {rob.buf[i].cp : i \in {j \in RobId : rob.buf[j].used}}

View == <<stage, commitVars, feedback, rat_q, rob, rob_q, data_valid, reg_q,
          cp_q, fifo, jump_wait, backend, wb_commit,
          [rat EXCEPT !.commit = @ \cap rat.valid,
                      !.table = [p \in Phy |-> IF p \in rat.valid THEN @[p] ELSE None]],
          [cpb EXCEPT !.buf = [i \in CpId |-> IF i \in LiveCps THEN @[i] ELSE NoCp]]>>
=============================================================================
