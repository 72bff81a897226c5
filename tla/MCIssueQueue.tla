---------------------------- MODULE MCIssueQueue ----------------------------
(* Model checking of IssueQueue: a ring of four slots, groups of two and   *)
(* two distinguishable entries.                                             *)
EXTENDS IssueQueue
=============================================================================
