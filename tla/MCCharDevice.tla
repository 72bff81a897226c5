--------------------------- MODULE MCCharDevice ---------------------------
(* Model checking of CharDevice with short queues.                          *)
EXTENDS CharDevice
===========================================================================
