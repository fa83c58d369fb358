--------------------------- MODULE MCBridgeManager ---------------------------
(***************************************************************************)
(* BridgeManager for TLC: two extensions of the server's version and a     *)
(* stale one.                                                              *)
(***************************************************************************)
EXTENDS BridgeManager, TLC

CONSTANTS fresh1, fresh2, stale, write

Reports == (fresh1 :> "exact") @@ (fresh2 :> "exact") @@ (stale :> "stale")
=============================================================================
