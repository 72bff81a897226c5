---------------------------- MODULE MCFrontEnd ----------------------------
(* Model checking of FrontEnd with short queues.                            *)
EXTENDS FrontEnd
=============================================================================
