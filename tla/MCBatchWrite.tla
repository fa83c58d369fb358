----------------------------- MODULE MCBatchWrite -----------------------------
(***************************************************************************)
(* BatchWrite for TLC: a drawing of two primitives and the batches of up   *)
(* to two operations on the first of them and on the first one created.    *)
(***************************************************************************)
EXTENDS BatchWrite

CONSTANTS v1, v2

TwoPrimitives == <<v1, v2>>

Create(v) == [kind |-> "create", target |-> Unknown, value |-> v]
Modify(id, v) == [kind |-> "modify", target |-> id, value |-> v]
Delete(id) == [kind |-> "delete", target |-> id, value |-> Absent]

Writes == {Create(v1), Modify(1, v2), Modify(3, v2), Delete(1), Delete(3)}

UpToTwo ==
  {<<a>> : a \in Writes} \cup
  {b \in {<<a1, a2>> : a1, a2 \in Writes} : OneWritePerTarget(b)}

\* a deletion followed by a write to a primitive that is not there
DeleteThenFail == {<<Delete(1), Modify(3, v2)>>}

\* two batches that modify the same primitive
Modify1 == {<<Modify(1, v2)>>}

OneCreate == {<<Create(v1)>>}

=============================================================================
