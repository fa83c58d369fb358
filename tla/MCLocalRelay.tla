----------------------------- MODULE MCLocalRelay -----------------------------
(***************************************************************************)
(* LocalRelay for TLC.                                                     *)
(***************************************************************************)
EXTENDS LocalRelay, TLC

CONSTANTS f1, f2, c1

MCCallerOf == (c1 :> f1)

=============================================================================
