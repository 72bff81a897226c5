------------------------------ MODULE MCTrap ------------------------------
(* Model checking of Trap with programs over small sets of instructions.    *)
EXTENDS Trap

Plain == [k |-> "plain"]
Fault == [k |-> "fault"]
MRet == [k |-> "mret"]
CsrOp(addr, op, src) == [k |-> "csr", addr |-> addr, op |-> op, src |-> src]
StoreTo(reg, val) == [k |-> "store", reg |-> reg, val |-> val]

(* Software interrupts, exceptions and most CSRs.                           *)
CoreInstr == {Fault, MRet,
              CsrOp("mstatus", "rs", {"MIE", "other"}), CsrOp("mie", "rw", {"msi", "mti", "other"}),
              CsrOp("mip", "rw", {"msi"}), CsrOp("readonly", "rs", {}),
              [k |-> "csrw", addr |-> "mepc", to |-> 1], [k |-> "csrw", addr |-> "mtvec", to |-> 1],
              StoreTo("msip", 1), StoreTo("msip", 0)}

(* The timer, whose registers are written one word at a time.               *)
TimerInstr == {Fault, MRet, CsrOp("mstatus", "rs", {"MIE"}), CsrOp("mie", "rw", {"mti"}),
               StoreTo("cmp_lo", 1), StoreTo("cmp_hi", 1), StoreTo("time_hi", 1)}
=============================================================================
