------------------------------- MODULE Hart -------------------------------
(***************************************************************************)
(* What the core promises about traps and CSRs: a machine that executes    *)
(* one instruction at a time, takes an interrupt only between two          *)
(* instructions, and changes the CSRs at once.  The pipeline of module     *)
(* Trap implements it.                                                     *)
(*                                                                         *)
(* The promise is this core's, not the privileged specification's: an      *)
(* exception leaves mstatus alone, mret leaves MPIE alone, and a CSR       *)
(* instruction whose register source is x0 does not write.                 *)
(***************************************************************************)
EXTENDS Integers

CONSTANTS CodeLen,  \* the number of instruction addresses
          Instr     \* the instructions programs may consist of

VARIABLES pc,       \* the instruction to execute next
          csr,      \* mstatus, mie, mepc, mcause, mtvec
          lines     \* the interrupt requests that are up

hvars == <<pc, csr, lines>>

Bits(addr) == IF addr = "mstatus" THEN {"MIE", "MPIE"} ELSE {"msi", "mti"}

HInit == /\ pc \in 0 .. CodeLen - 1
         /\ csr = [mstatus |-> {}, mie |-> {}, mepc |-> 0, mcause |-> "none", mtvec |-> 0]
         /\ lines \in SUBSET {"msi", "mti"}

Following == (pc + 1) % CodeLen

(* Instructions and stores without an effect on this state.                *)
Step(i) == /\ i.k \in {"plain", "store"}
           /\ pc' = Following
           /\ UNCHANGED <<csr, lines>>

(* A CSR instruction reads, combines and writes in one step.  What a       *)
(* program writes to mip is lost.                                          *)
SetBits(i, old) == (CASE i.op = "rw" -> i.src
                      [] i.op = "rs" -> old \cup i.src
                      [] i.op = "rc" -> old \ i.src) \cap Bits(i.addr)
Csr(i) == /\ i.k = "csr"
          /\ \/ i.addr \in {"mstatus", "mie"} /\ i.op # "r"
                /\ csr' = [csr EXCEPT ![i.addr] = SetBits(i, @)]
             \/ (i.addr = "mip" \/ i.op = "r") /\ UNCHANGED csr
          /\ pc' = Following
          /\ UNCHANGED lines
CsrAddr(i) == /\ i.k = "csrw"
              /\ csr' = [csr EXCEPT ![i.addr] = i.to]
              /\ pc' = Following
              /\ UNCHANGED lines

(* mret copies MPIE to MIE and returns to mepc.                            *)
Mret(i) == /\ i.k = "mret"
           /\ pc' = csr.mepc
           /\ csr' = [csr EXCEPT !.mstatus = (@ \ {"MIE"}) \cup (IF "MPIE" \in @ THEN {"MIE"} ELSE {})]
           /\ UNCHANGED lines

(* An exception at pc.                                                     *)
Exception(i) == /\ \/ i.k = "fault"
                   \/ i.k = "csr" /\ i.addr = "readonly" /\ i.op # "r"
                   \/ i.k = "csr" /\ i.addr = "unmapped"
                /\ csr' = [csr EXCEPT !.mepc = pc, !.mcause = "exception"]
                /\ pc' = csr.mtvec
                /\ UNCHANGED lines

(* An interrupt before the instruction at pc; software comes before timer. *)
Interrupt(c) == /\ "MIE" \in csr.mstatus
                /\ c \in lines \cap csr.mie
                /\ c = "mti" => "msi" \notin lines \cap csr.mie
                /\ csr' = [csr EXCEPT !.mepc = pc, !.mcause = c,
                                      !.mstatus = {"MPIE"}]
                /\ pc' = csr.mtvec
                /\ UNCHANGED lines

Lines == lines' \in SUBSET {"msi", "mti"} /\ UNCHANGED <<pc, csr>>

HNext == \/ \E i \in Instr : Step(i) \/ Csr(i) \/ CsrAddr(i) \/ Mret(i) \/ Exception(i)
         \/ \E c \in {"msi", "mti"} : Interrupt(c)
         \/ Lines

HSpec == HInit /\ [][HNext]_hvars
=============================================================================
