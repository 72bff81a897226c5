--------------------------- MODULE MCStoreBuffer ---------------------------
(* Model checking of StoreBuffer on small memories.                         *)
EXTENDS StoreBuffer
=============================================================================
