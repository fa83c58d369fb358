----------------------------- MODULE DocumentLock -----------------------------
(***************************************************************************)
(* What the transaction manager promises its clients: each transaction     *)
(* takes its document's lock once, when it begins, and keeps it until it   *)
(* ends; a document is never worked on by two transactions.                *)
(***************************************************************************)
CONSTANTS Docs, Tx, None

VARIABLES
  phase,  \* of each transaction: "unborn", "open" or "ended"
  owner   \* the open transaction of each document, or None

TypeOK ==
  /\ phase \in [Tx -> {"unborn", "open", "ended"}]
  /\ owner \in [Docs -> Tx \cup {None}]

Init ==
  /\ phase = [t \in Tx |-> "unborn"]
  /\ owner = [d \in Docs |-> None]

Acquire(t, d) ==
  /\ phase[t] = "unborn"
  /\ owner[d] = None
  /\ phase' = [phase EXCEPT ![t] = "open"]
  /\ owner' = [owner EXCEPT ![d] = t]

Release(t, d) ==
  /\ owner[d] = t
  /\ phase[t] = "open"
  /\ phase' = [phase EXCEPT ![t] = "ended"]
  /\ owner' = [owner EXCEPT ![d] = None]

Next == \E t \in Tx, d \in Docs : Acquire(t, d) \/ Release(t, d)

Spec == Init /\ [][Next]_<<phase, owner>>

=============================================================================
