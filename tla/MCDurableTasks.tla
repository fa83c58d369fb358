---------------------------- MODULE MCDurableTasks ----------------------------
(***************************************************************************)
(* DurableTasks for TLC.                                                   *)
(***************************************************************************)
EXTENDS DurableTasks, TLC

CONSTANTS r1, r2, w1

=============================================================================
