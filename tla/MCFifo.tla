------------------------------- MODULE MCFifo -------------------------------
(* Model checking of Fifo on a ring of three slots with two distinct packs, *)
(* as the front end uses it; IssueQueue uses it as the other buffers do.    *)
EXTENDS Fifo
=============================================================================
