------------------------ MODULE MCTransactionManager ------------------------
(***************************************************************************)
(* TransactionManager for TLC: the operation limits of its transactions.   *)
(***************************************************************************)
EXTENDS TransactionManager, TLC

CONSTANTS d1, d2, k1, k2

TwoThenOne == <<2, 1>>
OneEach == [t \in Tx |-> 1]

\* Documents are interchangeable, and so are the rollback calls of one
\* transaction; transactions are numbered in order of creation, and are not.
Symmetry == Permutations({d1, d2}) \cup Permutations({k1, k2})

=============================================================================
