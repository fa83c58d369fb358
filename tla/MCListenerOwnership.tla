-------------------------- MODULE MCListenerOwnership --------------------------
(***************************************************************************)
(* ListenerOwnership for TLC: processes are interchangeable.               *)
(***************************************************************************)
EXTENDS ListenerOwnership, TLC

Symmetry == Permutations(Procs)
=============================================================================
