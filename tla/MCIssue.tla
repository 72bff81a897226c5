------------------------------ MODULE MCIssue ------------------------------
(* Model checking of Issue on small machines.  Registers are model values;  *)
(* nothing in the module orders them.                                       *)
EXTENDS Issue, TLC

Symmetry == Permutations(Phy) \cup Permutations(Arch)
=============================================================================
