--------------------------- MODULE MCRemoteGateway ---------------------------
(***************************************************************************)
(* RemoteGateway for TLC.                                                  *)
(***************************************************************************)
EXTENDS RemoteGateway, TLC

CONSTANTS w1, w2, r1

\* two writes of the same tool with the same input, and a read
MCInput == (w1 :> "move") @@ (w2 :> "move") @@ (r1 :> "list")

=============================================================================
