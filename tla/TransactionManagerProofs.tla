----------------------- MODULE TransactionManagerProofs -----------------------
(***************************************************************************)
(* Proofs about TransactionManager, for every number of documents,         *)
(* transactions, operations and overlapping calls; for clients that await  *)
(* each of their calls, that holders are single as long as nothing comes   *)
(* to an expired transaction; and, if they also finish in time, that the   *)
(* manager implements DocumentLock.                                        *)
(***************************************************************************)
EXTENDS TransactionManager, SequenceTheorems, TLAPS

-----------------------------------------------------------------------------
(***************************************************************************)
(* Updates of the log keep its type and length.                            *)
(***************************************************************************)

\* Settling or restoring one operation leaves a log of operations.
LEMMA SetOpKeepsType ==
  ASSUME TypeOK, NEW t \in Tx, NEW i, NEW s \in OpStates, NEW c \in Compensations,
         SetOp(t, i, s, c)
  PROVE  /\ ops' \in [Tx -> Seq(Operation)]
         /\ \A u \in Tx : u # t => ops'[u] = ops[u]
         /\ DOMAIN ops'[t] = DOMAIN ops[t]
         /\ \A j \in DOMAIN ops[t] :
              ops'[t][j] = IF j = i THEN [state |-> s, compensation |-> c] ELSE ops[t][j]
<1> DEFINE op == [state |-> s, compensation |-> c]
           log == [ops[t] EXCEPT ![i] = op]
<1>1. ops[t] \in Seq(Operation) /\ op \in Operation
  BY DEF TypeOK, Operation
<1>2. ops' = [ops EXCEPT ![t] = log]
  BY DEF SetOp
<1>3. log \in Seq(Operation) /\ DOMAIN log = DOMAIN ops[t]
  <2>1. /\ Len(ops[t]) \in Nat
        /\ DOMAIN ops[t] = 1..Len(ops[t])
        /\ ops[t] \in [1..Len(ops[t]) -> Operation]
    BY <1>1, LenProperties
  <2>2. log \in [1..Len(ops[t]) -> Operation]
    BY <1>1, <2>1
  <2>3. log \in Seq(Operation)
    BY <2>1, <2>2, SeqDef
  <2> QED  BY <2>1, <2>2, <2>3
<1>4. \A j \in DOMAIN ops[t] : log[j] = IF j = i THEN op ELSE ops[t][j]
  BY <1>1
<1> HIDE DEF log
<1>5. ops'[t] = log /\ \A u \in Tx : u # t => ops'[u] = ops[u]
  BY <1>2 DEF TypeOK
<1>6. ops' \in [Tx -> Seq(Operation)]
  BY <1>2, <1>3 DEF TypeOK
<1> QED  BY <1>3, <1>4, <1>5, <1>6

\* Reserving appends one pending operation to the log.
LEMMA ReserveKeepsType ==
  ASSUME TypeOK, NEW t \in Tx, NEW s \in [Tx -> TxStates], Reserve(t, s)
  PROVE  /\ ops' \in [Tx -> Seq(Operation)]
         /\ state' \in [Tx -> TxStates]
         /\ validations' \in [Tx -> Seq(Operation) \cup {None}]
         /\ \A u \in Tx : u # t => ops'[u] = ops[u] /\ state'[u] = s[u]
                                   /\ validations'[u] = validations[u]
         /\ ops'[t] = Append(ops[t], Reserved)
         /\ DOMAIN ops[t] \subseteq DOMAIN ops'[t]
         /\ \A j \in DOMAIN ops'[t] :
              ops'[t][j] = IF j \in DOMAIN ops[t] THEN ops[t][j] ELSE Reserved
<1>1. ops[t] \in Seq(Operation) /\ Reserved \in Operation
  BY DEF TypeOK, Operation, Reserved, OpStates, Compensations
<1>2. ops' = [ops EXCEPT ![t] = Append(ops[t], Reserved)]
  BY DEF Reserve
<1>3. Append(ops[t], Reserved) \in Seq(Operation)
  BY <1>1
<1>4. /\ DOMAIN ops[t] = 1..Len(ops[t])
      /\ DOMAIN Append(ops[t], Reserved) = 1..(Len(ops[t]) + 1)
      /\ \A j \in 1..Len(ops[t]) : Append(ops[t], Reserved)[j] = ops[t][j]
      /\ Append(ops[t], Reserved)[Len(ops[t]) + 1] = Reserved
      /\ Len(ops[t]) \in Nat
  BY <1>1
<1>5. ops'[t] = Append(ops[t], Reserved) /\ \A u \in Tx : u # t => ops'[u] = ops[u]
  BY <1>2 DEF TypeOK
<1>6. ops' \in [Tx -> Seq(Operation)]
  BY <1>2, <1>3 DEF TypeOK
<1>7. \A j \in DOMAIN ops'[t] :
        ops'[t][j] = IF j \in DOMAIN ops[t] THEN ops[t][j] ELSE Reserved
  BY <1>4, <1>5
<1>8. DOMAIN ops[t] \subseteq DOMAIN ops'[t]
  BY <1>4, <1>5
<1>9. /\ state' \in [Tx -> TxStates]
      /\ validations' \in [Tx -> Seq(Operation) \cup {None}]
      /\ \A u \in Tx : u # t => state'[u] = s[u] /\ validations'[u] = validations[u]
  BY DEF TypeOK, Reserve, TxStates
<1> QED  BY <1>5, <1>6, <1>7, <1>8, <1>9

-----------------------------------------------------------------------------
(***************************************************************************)
(* What expireStaleTransactions leaves behind.                             *)
(***************************************************************************)

\* Expiry only moves open transactions to "failed" or "expired", and the lock
\* table it leaves is a lock table.
LEMMA ExpireKeepsType ==
  ASSUME TypeOK
  PROVE  /\ stateX \in [Tx -> TxStates]
         /\ rollbackCompleteX \in [Tx -> {"unset", "no", "yes"}]
         /\ lockX \in [Docs -> Tx \cup {None}]
         /\ \A t \in Tx : stateX[t] = "unborn" <=> state[t] = "unborn"
         /\ \A t \in Tx : ~ Stale(t) => stateX[t] = state[t]
                                        /\ rollbackCompleteX[t] = rollbackComplete[t]
         /\ \A t \in Tx : Stale(t) => \/ stateX[t] = "failed" /\ rollbackCompleteX[t] = "no"
                                      \/ stateX[t] = "expired"
<1>1. lockX \in [Docs -> Tx \cup {None}]
  BY DEF TypeOK, lockX, LastWithWrites, StaleOn
<1>2. \A t \in Tx : stateX[t] = IF ~ Stale(t) THEN state[t]
                                ELSE IF Unresolved(t) # {} THEN "failed" ELSE "expired"
  BY DEF stateX
<1>3. \A t \in Tx : Stale(t) => state[t] # "unborn"
  BY DEF Stale, Open
<1>4. stateX \in [Tx -> TxStates]
  BY DEF TypeOK, stateX, TxStates
<1>5. /\ rollbackCompleteX \in [Tx -> {"unset", "no", "yes"}]
      /\ \A t \in Tx : rollbackCompleteX[t] =
           IF Stale(t) /\ Unresolved(t) # {} THEN "no" ELSE rollbackComplete[t]
  BY DEF TypeOK, rollbackCompleteX
<1> QED  BY <1>1, <1>2, <1>3, <1>4, <1>5

-----------------------------------------------------------------------------
(***************************************************************************)
(* Type correctness.                                                       *)
(***************************************************************************)

\* A transaction that has operations has begun.
LEMMA BlankHasNoOps ==
  ASSUME TypeOK, NEW t \in Tx, NEW i \in DOMAIN ops[t]
  PROVE  state[t] # "unborn"
<1>1. SUFFICES ASSUME ops[t] = << >> PROVE FALSE
  BY DEF TypeOK
<1> QED  BY <1>1

\* The initial state is well typed, and every step keeps it so.
LEMMA InitTypeOK == ASSUME Init PROVE TypeOK
  BY ConstantsAssumption DEF Init, TypeOK, TxStates

LEMMA NextTypeOK ==
  ASSUME TypeOK, [Next]_vars
  PROVE  TypeOK'
<1> USE ConstantsAssumption
<1>x. /\ stateX \in [Tx -> TxStates]
      /\ rollbackCompleteX \in [Tx -> {"unset", "no", "yes"}]
      /\ lockX \in [Docs -> Tx \cup {None}]
      /\ \A t \in Tx : stateX[t] = "unborn" <=> state[t] = "unborn"
  BY ExpireKeepsType
<1>1. CASE Get
  BY <1>1, <1>x DEF Get, Expire, TypeOK
<1>2. ASSUME NEW t \in Tx, Lapse(t) PROVE TypeOK'
  BY <1>2 DEF Lapse, TypeOK
<1>3. ASSUME NEW t \in Tx, NEW d \in Docs, Begin(t, d) PROVE TypeOK'
  BY <1>3, <1>x DEF Begin, BeginIf, TypeOK, TxStates
<1>4. ASSUME NEW t \in Tx, RunCreate(t) PROVE TypeOK'
  <2>1. /\ ops' \in [Tx -> Seq(Operation)]
        /\ state' \in [Tx -> TxStates]
        /\ validations' \in [Tx -> Seq(Operation) \cup {None}]
        /\ \A u \in Tx : u # t => ops'[u] = ops[u] /\ state'[u] = stateX[u]
        /\ state'[t] = "active"
    BY <1>4, <1>x, ReserveKeepsType DEF RunCreate, Reserve, CanReserve, Open
  <2> QED  BY <1>4, <1>x, <2>1 DEF RunCreate, CanReserve, Open, TypeOK
<1>5. ASSUME NEW t \in Tx, RunAfterSnapshot(t) PROVE TypeOK'
  <2>1. reading' \in [Tx -> Nat] /\ \A u \in Tx : u # t => reading'[u] = reading[u]
    BY <1>5 DEF RunAfterSnapshot, TypeOK
  <2> QED  BY <1>5, <1>x, <2>1 DEF RunAfterSnapshot, Expire, TypeOK, MayCall
<1>6. ASSUME NEW t \in Tx, ReserveWithSnapshot(t) PROVE TypeOK'
  <2>1. /\ ops' \in [Tx -> Seq(Operation)]
        /\ state' \in [Tx -> TxStates]
        /\ validations' \in [Tx -> Seq(Operation) \cup {None}]
        /\ \A u \in Tx : u # t => ops'[u] = ops[u] /\ state'[u] = state[u]
        /\ state'[t] = "active" /\ state[t] # "unborn"
    <3>1. state \in [Tx -> TxStates] /\ Reserve(t, state) /\ state[t] \in Open
      BY <1>6 DEF ReserveWithSnapshot, ReserveAfterAwait, CanReserve, TypeOK
    <3> QED  BY <3>1, ReserveKeepsType DEF Open, Reserve
  <2>2. reading' \in [Tx -> Nat] /\ \A u \in Tx : u # t => reading'[u] = reading[u]
    BY <1>6 DEF ReserveWithSnapshot, ReserveAfterAwait, TypeOK
  <2> QED  BY <1>6, <2>1, <2>2 DEF ReserveWithSnapshot, ReserveAfterAwait, TypeOK
<1>7. ASSUME NEW t \in Tx, SnapshotRefused(t) PROVE TypeOK'
  BY <1>7 DEF SnapshotRefused, TypeOK
<1>8. ASSUME NEW t \in Tx, NEW i, SettleApplied(t, i) PROVE TypeOK'
  <2>1. /\ ops' \in [Tx -> Seq(Operation)] /\ \A u \in Tx : u # t => ops'[u] = ops[u]
        /\ state[t] # "unborn"
    BY <1>8, SetOpKeepsType, BlankHasNoOps DEF SettleApplied, OpStates, Compensations
  <2> QED  BY <1>8, <2>1 DEF SettleApplied, TypeOK
<1>9. ASSUME NEW t \in Tx, NEW i, NEW c \in {"not-needed", "restored"},
             SettleCancelled(t, i, c)
      PROVE  TypeOK'
  <2>1. /\ ops' \in [Tx -> Seq(Operation)] /\ \A u \in Tx : u # t => ops'[u] = ops[u]
        /\ state[t] # "unborn"
    BY <1>9, SetOpKeepsType, BlankHasNoOps DEF SettleCancelled, OpStates, Compensations
  <2> QED  BY <1>9, <2>1 DEF SettleCancelled, TypeOK
<1>10. ASSUME NEW t \in Tx, NEW i, SettleFailed(t, i) PROVE TypeOK'
  <2>1. /\ ops' \in [Tx -> Seq(Operation)] /\ \A u \in Tx : u # t => ops'[u] = ops[u]
        /\ state[t] # "unborn"
    BY <1>10, SetOpKeepsType, BlankHasNoOps DEF SettleFailed, OpStates, Compensations
  <2> QED  BY <1>10, <2>1 DEF SettleFailed, TypeOK, TxStates
<1>11. ASSUME NEW t \in Tx, Validate(t) PROVE TypeOK'
  BY <1>11, <1>x DEF Validate, ValidateRefusing, MayCall, TypeOK, TxStates
<1>12. ASSUME NEW t \in Tx, NEW passed \in BOOLEAN, GatesAnswered(t, passed) PROVE TypeOK'
  BY <1>12 DEF GatesAnswered, TypeOK, TxStates
<1>13. ASSUME NEW t \in Tx, Commit(t) PROVE TypeOK'
  BY <1>13, <1>x DEF Commit, CommitLeaving, MayCall, TypeOK, TxStates
<1>14. ASSUME NEW t \in Tx, RollbackNothing(t) PROVE TypeOK'
  BY <1>14, <1>x DEF RollbackNothing, MayCall, TypeOK, TxStates
<1>15. ASSUME NEW t \in Tx, NEW k \in Loops, Rollback(t, k) PROVE TypeOK'
  <2>1. [left |-> Unresolved(t), failed |-> FALSE] \in Rollbacks
    <3>1. ops[t] \in Seq(Operation)
      BY DEF TypeOK
    <3>2. DOMAIN ops[t] \subseteq Nat
      BY <3>1
    <3> QED  BY <3>2 DEF Unresolved, Rollbacks
  <2>2. loops' \in [Tx -> [Loops -> Rollbacks \cup {None}]]
    BY <1>15, <2>1 DEF Rollback, TypeOK
  <2>3. state[t] # "unborn" /\ \A u \in Tx : u # t => loops'[u] = loops[u]
    BY <1>15 DEF Rollback, MayCall, TypeOK
  <2> QED  BY <1>15, <1>x, <2>2, <2>3 DEF Rollback, TypeOK, TxStates
<1>16. ASSUME NEW t \in Tx, NEW k \in Loops, NEW restored \in BOOLEAN,
              RollbackOperation(t, k, restored)
       PROVE  TypeOK'
  <2>1. PICK i \in NewestOf(loops[t][k].left) :
          /\ IF restored THEN SetOp(t, i, "rolled-back", "restored")
                         ELSE SetOp(t, i, "failed", "failed")
          /\ loops' = [loops EXCEPT
                ![t][k] = [left |-> @.left \ {i}, failed |-> @.failed \/ ~ restored]]
    BY <1>16 DEF RollbackOperation
  <2>2. ops' \in [Tx -> Seq(Operation)] /\ \A u \in Tx : u # t => ops'[u] = ops[u]
    BY <2>1, SetOpKeepsType DEF OpStates, Compensations
  <2>3. loops[t][k] \in Rollbacks
    BY <1>16 DEF RollbackOperation, TypeOK
  <2>4. [left |-> loops[t][k].left \ {i}, failed |-> loops[t][k].failed \/ ~ restored] \in Rollbacks
    BY <2>3 DEF Rollbacks
  <2>5. loops' \in [Tx -> [Loops -> Rollbacks \cup {None}]]
    BY <2>1, <2>4 DEF TypeOK
  <2>6. state[t] # "unborn" /\ \A u \in Tx : u # t => loops'[u] = loops[u]
    BY <1>16, <2>1 DEF RollbackOperation, TypeOK
  <2> QED  BY <1>16, <2>2, <2>5, <2>6 DEF RollbackOperation, TypeOK
<1>17. ASSUME NEW t \in Tx, NEW k \in Loops, FinalizeRollback(t, k) PROVE TypeOK'
  <2>1. loops' \in [Tx -> [Loops -> Rollbacks \cup {None}]]
    BY <1>17 DEF FinalizeRollback, Finalize, TypeOK
  <2>2. state[t] # "unborn" /\ \A u \in Tx : u # t => loops'[u] = loops[u]
    BY <1>17 DEF FinalizeRollback, Finalize, TypeOK
  <2>3. /\ state' \in [Tx -> TxStates]
        /\ \A u \in Tx : u # t => state'[u] = state[u]
        /\ state'[t] # "unborn"
        /\ rollbackComplete' \in [Tx -> {"unset", "no", "yes"}]
        /\ lock' \in [Docs -> Tx \cup {None}]
    BY <1>17 DEF FinalizeRollback, Finalize, TypeOK, TxStates
  <2> QED  BY <1>17, <2>1, <2>2, <2>3 DEF FinalizeRollback, Finalize, TypeOK
<1>18. CASE UNCHANGED vars
  BY <1>18 DEF vars, TypeOK
<1> QED
  BY <1>1, <1>2, <1>3, <1>4, <1>5, <1>6, <1>7, <1>8, <1>9, <1>10, <1>11, <1>12,
     <1>13, <1>14, <1>15, <1>16, <1>17, <1>18 DEF Next, Call, Answer

\* Every reachable state is well typed, and a transaction has a document, a log
\* and calls only once it has begun.
THEOREM TypeCorrect == Spec => []TypeOK
<1>1. Init => TypeOK
  BY InitTypeOK
<1>2. TypeOK /\ [Next]_vars => TypeOK'
  BY NextTypeOK
<1> QED  BY <1>1, <1>2, PTL DEF Spec

-----------------------------------------------------------------------------
(***************************************************************************)
(* The log of a transaction that is worked on, approved or committed.      *)
(*                                                                         *)
(* ApprovedLogSettled is not inductive: a rollback still in progress could *)
(* restore an operation of an approved transaction, and validate() does    *)
(* not look for restored ones.  Neither can happen, because a transaction  *)
(* never returns from a rollback to being worked on.                       *)
(***************************************************************************)

Alive == {"active", "validating", "validated", "committed"}

LoopsOnlyAborted ==
  \A t \in Tx, k \in Loops :
    loops[t][k] # None => state[t] \in {"rolling-back", "rolled-back", "failed"}

AliveLogNeverRestored ==
  \A t \in Tx : state[t] \in Alive =>
    \A i \in DOMAIN ops[t] : ops[t][i].state # "rolled-back"

LogInv ==
  /\ LoopsOnlyAborted
  /\ AliveLogNeverRestored
  /\ ApprovedLogSettled
  /\ CommittedAsValidated

\* What an expiry can do to the state of a transaction.
LEMMA ExpiryEnds ==
  ASSUME TypeOK, NEW t \in Tx
  PROVE  \/ stateX[t] = state[t] /\ rollbackCompleteX[t] = rollbackComplete[t]
         \/ state[t] \in Open /\ stateX[t] = "expired"
         \/ state[t] \in Open /\ stateX[t] = "failed" /\ rollbackCompleteX[t] = "no"
  BY ExpireKeepsType DEF Stale

\* Each step of one operation, a Settle or a restore, leaves the state of the
\* other operations of the log alone.
LEMMA LogInvAfterSetOp ==
  ASSUME TypeOK, LogInv, NEW t \in Tx, NEW i, NEW s \in OpStates, NEW c \in Compensations,
         SetOp(t, i, s, c), validations' = validations,
         \A u \in Tx : u # t => state'[u] = state[u] /\ loops'[u] = loops[u],
         \A k \in Loops : loops'[t][k] # None => loops[t][k] # None,
         state'[t] \in {state[t], "failed"},
         state'[t] \in Alive => s # "rolled-back" /\ state[t] = "active"
  PROVE  LogInv'
<1>1. /\ \A u \in Tx : u # t => ops'[u] = ops[u]
      /\ DOMAIN ops'[t] = DOMAIN ops[t]
      /\ \A j \in DOMAIN ops[t] :
           ops'[t][j] = IF j = i THEN [state |-> s, compensation |-> c] ELSE ops[t][j]
  BY SetOpKeepsType
<1>2. LoopsOnlyAborted'
  BY DEF LogInv, LoopsOnlyAborted
<1>3. AliveLogNeverRestored'
  BY <1>1 DEF LogInv, AliveLogNeverRestored, Alive
<1>4. ApprovedLogSettled'
  BY <1>1 DEF LogInv, ApprovedLogSettled, Alive
<1>5. CommittedAsValidated'
  BY <1>1 DEF LogInv, CommittedAsValidated, Alive
<1> QED  BY <1>2, <1>3, <1>4, <1>5 DEF LogInv

\* The same for a step that adds an operation to a transaction worked on.
LEMMA LogInvAfterReserve ==
  ASSUME TypeOK, LogInv, NEW t \in Tx, loops' = loops,
         state[t] \in Open, state'[t] = "active",
         \A u \in Tx : u # t =>
            /\ ops'[u] = ops[u] /\ validations'[u] = validations[u]
            /\ \/ state'[u] = state[u]
               \/ state[u] \in Open /\ state'[u] \in {"failed", "expired"},
         \A j \in DOMAIN ops'[t] :
            ops'[t][j] = IF j \in DOMAIN ops[t] THEN ops[t][j] ELSE Reserved
  PROVE  LogInv'
<1>1. \A u \in Tx : u # t => ops'[u] = ops[u] /\ validations'[u] = validations[u]
  OBVIOUS
<1>2. state'[t] = "active"
  OBVIOUS
<1>3. LoopsOnlyAborted'
  BY <1>1, <1>2 DEF LogInv, LoopsOnlyAborted, Open
<1>4. AliveLogNeverRestored'
  BY <1>1, <1>2 DEF LogInv, AliveLogNeverRestored, Alive, Open, Reserved
<1>5. ApprovedLogSettled'
  BY <1>1, <1>2 DEF LogInv, ApprovedLogSettled
<1>6. CommittedAsValidated'
  BY <1>1, <1>2 DEF LogInv, CommittedAsValidated
<1> QED  BY <1>3, <1>4, <1>5, <1>6 DEF LogInv

\* And for a step that only changes states, as a call and its expiry do.
LEMMA LogInvAfterStates ==
  ASSUME TypeOK, LogInv, ops' = ops, validations' = validations, loops' = loops,
         \A u \in Tx : \/ state'[u] = state[u]
                       \/ state'[u] \in {"failed", "expired", "rolled-back"}
                          /\ (state'[u] = "expired" => state[u] \in Open)
                       \/ state[u] = "unborn" /\ state'[u] = "active"
                       \/ state[u] \in Open /\ state'[u] = "validating"
                          /\ ~ Has(ops[u], {"pending", "failed"})
                       \/ state[u] = "validated" /\ state'[u] = "committed"
  PROVE  LogInv'
<1>1. \A u \in Tx : \A i \in DOMAIN ops[u] : ops[u][i].state \in OpStates
  <2> TAKE u \in Tx
  <2> TAKE i \in DOMAIN ops[u]
  <2>1. ops[u] \in Seq(Operation)
    BY DEF TypeOK
  <2>2. ops[u][i] \in Operation
    BY <2>1, LenProperties, ElementOfSeq
  <2> QED  BY <2>2 DEF Operation
<1>2. LoopsOnlyAborted'
  BY DEF LogInv, LoopsOnlyAborted, TypeOK, Open
<1>3. AliveLogNeverRestored'
  BY BlankHasNoOps DEF LogInv, AliveLogNeverRestored, Alive, Open
<1>4. ApprovedLogSettled'
  BY <1>1 DEF LogInv, ApprovedLogSettled, AliveLogNeverRestored, Alive, Open, Has, OpStates
<1>5. CommittedAsValidated'
  BY DEF LogInv, CommittedAsValidated
<1> QED  BY <1>2, <1>3, <1>4, <1>5 DEF LogInv

LEMMA NextLogInv ==
  ASSUME TypeOK, LogInv, [Next]_vars
  PROVE  LogInv'
<1>x. \A u \in Tx : \/ stateX[u] = state[u]
                    \/ state[u] \in Open /\ stateX[u] \in {"failed", "expired"}
  BY ExpiryEnds
<1>y. stateX \in [Tx -> TxStates]
  BY ExpireKeepsType
<1>1. CASE Get
  BY <1>1, <1>x, LogInvAfterStates DEF Get, Expire
<1>2. ASSUME NEW t \in Tx, Lapse(t) PROVE LogInv'
  BY <1>2, LogInvAfterStates DEF Lapse
<1>3. ASSUME NEW t \in Tx, NEW d \in Docs, Begin(t, d) PROVE LogInv'
  <2>1. \A u \in Tx : state'[u] = IF u = t THEN "active" ELSE stateX[u]
    BY <1>3, <1>y DEF Begin, BeginIf
  <2> QED  BY <1>3, <1>x, <2>1, LogInvAfterStates DEF Begin, BeginIf
<1>4. ASSUME NEW t \in Tx, RunCreate(t) PROVE LogInv'
  <2>1. Reserve(t, stateX) /\ loops' = loops
    BY <1>4 DEF RunCreate
  <2>2. stateX[t] \in Open /\ stateX[t] = state[t]
    BY <1>4, <1>x DEF RunCreate, CanReserve, Open
  <2>3. /\ state'[t] = "active"
        /\ \A u \in Tx : u # t => /\ ops'[u] = ops[u] /\ state'[u] = stateX[u]
                                  /\ validations'[u] = validations[u]
        /\ \A j \in DOMAIN ops'[t] :
             ops'[t][j] = IF j \in DOMAIN ops[t] THEN ops[t][j] ELSE Reserved
    BY <1>y, <2>1, <2>2, ReserveKeepsType DEF Reserve, Open
  <2> QED  BY <1>x, <2>1, <2>2, <2>3, LogInvAfterReserve
<1>5. ASSUME NEW t \in Tx, RunAfterSnapshot(t) PROVE LogInv'
  BY <1>5, <1>x, LogInvAfterStates DEF RunAfterSnapshot, Expire
<1>6. ASSUME NEW t \in Tx, ReserveWithSnapshot(t) PROVE LogInv'
  <2>1. state \in [Tx -> TxStates]
    BY DEF TypeOK
  <2>2. Reserve(t, state) /\ loops' = loops /\ state[t] \in Open
    BY <1>6 DEF ReserveWithSnapshot, ReserveAfterAwait, CanReserve
  <2>3. /\ state'[t] = "active"
        /\ \A u \in Tx : u # t => /\ ops'[u] = ops[u] /\ state'[u] = state[u]
                                  /\ validations'[u] = validations[u]
        /\ \A j \in DOMAIN ops'[t] :
             ops'[t][j] = IF j \in DOMAIN ops[t] THEN ops[t][j] ELSE Reserved
    BY <2>1, <2>2, ReserveKeepsType DEF Reserve, Open
  <2> QED  BY <2>2, <2>3, LogInvAfterReserve
<1>7. ASSUME NEW t \in Tx, SnapshotRefused(t) PROVE LogInv'
  BY <1>7, LogInvAfterStates DEF SnapshotRefused
<1>a. ASSUME NEW t \in Tx, NEW i \in DOMAIN ops[t], ops[t][i].state = "pending",
             state[t] \in Alive
      PROVE  state[t] = "active"
  BY <1>a DEF LogInv, ApprovedLogSettled, Alive
<1>8. ASSUME NEW t \in Tx, NEW i, SettleApplied(t, i) PROVE LogInv'
  BY <1>8, <1>a, LogInvAfterSetOp DEF SettleApplied, OpStates, Compensations
<1>9. ASSUME NEW t \in Tx, NEW i, NEW c \in {"not-needed", "restored"},
             SettleCancelled(t, i, c)
      PROVE  LogInv'
  BY <1>9, <1>a, LogInvAfterSetOp DEF SettleCancelled, OpStates, Compensations
<1>10. ASSUME NEW t \in Tx, NEW i, SettleFailed(t, i) PROVE LogInv'
  <2>1. \A u \in Tx : state'[u] = IF u = t THEN "failed" ELSE state[u]
    BY <1>10 DEF SettleFailed, TypeOK
  <2> QED  BY <1>10, <2>1, LogInvAfterSetOp DEF SettleFailed, OpStates, Compensations, Alive
<1>11. ASSUME NEW t \in Tx, Validate(t) PROVE LogInv'
  <2>1. \A u \in Tx : state'[u] = IF u = t THEN "validating" ELSE stateX[u]
    BY <1>11, <1>y DEF Validate, ValidateRefusing
  <2> QED  BY <1>11, <1>x, <2>1, LogInvAfterStates DEF Validate, ValidateRefusing, Open
<1>12. ASSUME NEW t \in Tx, NEW passed \in BOOLEAN, GatesAnswered(t, passed) PROVE LogInv'
  <2>1. /\ \A u \in Tx : u # t => state'[u] = state[u] /\ validations'[u] = validations[u]
        /\ state[t] = "validating" /\ state'[t] \in {"validated", "active"}
        /\ validations'[t] = ops[t]
        /\ ops' = ops /\ loops' = loops
    BY <1>12 DEF GatesAnswered, TypeOK
  <2>2. LoopsOnlyAborted'
    BY <2>1 DEF LogInv, LoopsOnlyAborted
  <2>3. AliveLogNeverRestored'
    BY <2>1 DEF LogInv, AliveLogNeverRestored, Alive
  <2>4. ApprovedLogSettled'
    BY <2>1 DEF LogInv, ApprovedLogSettled
  <2>5. CommittedAsValidated'
    BY <2>1 DEF LogInv, CommittedAsValidated
  <2> QED  BY <2>2, <2>3, <2>4, <2>5 DEF LogInv
<1>13. ASSUME NEW t \in Tx, Commit(t) PROVE LogInv'
  <2>1. \A u \in Tx : state'[u] = IF u = t THEN "committed" ELSE stateX[u]
    BY <1>13, <1>y DEF Commit, CommitLeaving
  <2> QED  BY <1>13, <1>x, <2>1, LogInvAfterStates DEF Commit, CommitLeaving
<1>14. ASSUME NEW t \in Tx, RollbackNothing(t) PROVE LogInv'
  <2>1. \A u \in Tx : state'[u] = IF u = t THEN "rolled-back" ELSE stateX[u]
    BY <1>14, <1>y DEF RollbackNothing
  <2> QED  BY <1>14, <1>x, <2>1, LogInvAfterStates DEF RollbackNothing
<1>15. ASSUME NEW t \in Tx, NEW k \in Loops, Rollback(t, k) PROVE LogInv'
  <2>1. \A u \in Tx : state'[u] = IF u = t THEN "rolling-back" ELSE stateX[u]
    BY <1>15, <1>y DEF Rollback
  <2>2. ops' = ops /\ validations' = validations /\ \A u \in Tx : u # t => loops'[u] = loops[u]
    BY <1>15 DEF Rollback, TypeOK
  <2>3. LoopsOnlyAborted'
    BY <1>x, <2>1, <2>2 DEF LogInv, LoopsOnlyAborted, Open
  <2>4. AliveLogNeverRestored'
    BY <1>x, <2>1, <2>2 DEF LogInv, AliveLogNeverRestored, Alive
  <2>5. ApprovedLogSettled'
    BY <1>x, <2>1, <2>2 DEF LogInv, ApprovedLogSettled
  <2>6. CommittedAsValidated'
    BY <1>x, <2>1, <2>2 DEF LogInv, CommittedAsValidated
  <2> QED  BY <2>3, <2>4, <2>5, <2>6 DEF LogInv
<1>16. ASSUME NEW t \in Tx, NEW k \in Loops, NEW restored \in BOOLEAN,
              RollbackOperation(t, k, restored)
       PROVE  LogInv'
  <2>1. PICK i \in NewestOf(loops[t][k].left) :
          /\ IF restored THEN SetOp(t, i, "rolled-back", "restored")
                         ELSE SetOp(t, i, "failed", "failed")
          /\ loops' = [loops EXCEPT
                ![t][k] = [left |-> @.left \ {i}, failed |-> @.failed \/ ~ restored]]
    BY <1>16 DEF RollbackOperation
  <2>2. state[t] \notin Alive /\ state' = state /\ validations' = validations
    BY <1>16 DEF RollbackOperation, LogInv, LoopsOnlyAborted, Alive
  <2>3. /\ \A u \in Tx : u # t => loops'[u] = loops[u]
        /\ \A l \in Loops : loops'[t][l] # None => loops[t][l] # None
    BY <1>16, <2>1 DEF RollbackOperation, TypeOK
  <2> QED  BY <2>1, <2>2, <2>3, LogInvAfterSetOp DEF OpStates, Compensations
<1>17. ASSUME NEW t \in Tx, NEW k \in Loops, FinalizeRollback(t, k) PROVE LogInv'
  <2>1. /\ \A u \in Tx : u # t => state'[u] = state[u] /\ loops'[u] = loops[u]
        /\ state'[t] \in {"rolled-back", "failed"}
        /\ ops' = ops /\ validations' = validations
    BY <1>17 DEF FinalizeRollback, Finalize, TypeOK
  <2>2. LoopsOnlyAborted'
    BY <2>1 DEF LogInv, LoopsOnlyAborted
  <2>3. AliveLogNeverRestored'
    BY <2>1 DEF LogInv, AliveLogNeverRestored, Alive
  <2>4. ApprovedLogSettled'
    BY <2>1 DEF LogInv, ApprovedLogSettled
  <2>5. CommittedAsValidated'
    BY <2>1 DEF LogInv, CommittedAsValidated
  <2> QED  BY <2>2, <2>3, <2>4, <2>5 DEF LogInv
<1>18. CASE UNCHANGED vars
  BY <1>18, LogInvAfterStates DEF vars
<1> QED
  BY <1>1, <1>2, <1>3, <1>4, <1>5, <1>6, <1>7, <1>8, <1>9, <1>10, <1>11, <1>12,
     <1>13, <1>14, <1>15, <1>16, <1>17, <1>18 DEF Next, Call, Answer

LEMMA InitLogInv == ASSUME Init PROVE LogInv
  BY DEF Init, LogInv, LoopsOnlyAborted, AliveLogNeverRestored, ApprovedLogSettled,
         CommittedAsValidated, Alive

\* What validate() approved is what commit() commits, and nothing in it is in
\* flight, failed or undone: for every interleaving of any number of calls.
THEOREM ApprovedIsCommitted == Spec => [](ApprovedLogSettled /\ CommittedAsValidated)
<1>1. Init => TypeOK /\ LogInv
  BY InitTypeOK, InitLogInv
<1>2. TypeOK /\ LogInv /\ [Next]_vars => (TypeOK /\ LogInv)'
  BY NextTypeOK, NextLogInv
<1>3. TypeOK /\ LogInv => ApprovedLogSettled /\ CommittedAsValidated
  BY DEF LogInv
<1> QED  BY <1>1, <1>2, <1>3, PTL DEF Spec

\* The log that is committed is the one the gates were shown (manager.ts validate,
\* commit).
THEOREM CommitsWhatWasValidated == Spec => []CommittedAsValidated
BY ApprovedIsCommitted, PTL

-----------------------------------------------------------------------------
(***************************************************************************)
(* The lock table.                                                         *)
(***************************************************************************)

\* The table an expiry leaves names holders only: an open transaction loses its
\* entry exactly when it loses the lock.
LEMMA ExpiryKeepsHolders ==
  ASSUME TypeOK, LockEntryIsHolder
  PROVE  \A d \in Docs : lockX[d] # None =>
           /\ lockX[d] \in Tx
           /\ docOf[lockX[d]] = d
           /\ HoldsLock(stateX[lockX[d]], rollbackCompleteX[lockX[d]])
<1> TAKE d \in Docs
<1> HAVE lockX[d] # None
<1>1. CASE StaleOn(d) = {}
  <2>1. lockX[d] = lock[d]
    BY <1>1 DEF lockX
  <2>2. lock[d] \in Tx /\ docOf[lock[d]] = d /\ Holding(lock[d]) /\ ~ Stale(lock[d])
    BY <1>1, <2>1 DEF LockEntryIsHolder, TypeOK, StaleOn
  <2> QED  BY <2>1, <2>2, ExpireKeepsType DEF Holding
<1>2. CASE StaleOn(d) # {}
  <2>1. lockX[d] \in LastWithWrites(d)
    BY <1>2 DEF lockX
  <2>2. lockX[d] \in Tx /\ Stale(lockX[d]) /\ docOf[lockX[d]] = d /\ Unresolved(lockX[d]) # {}
    BY <2>1 DEF LastWithWrites, StaleOn
  <2>3. stateX[lockX[d]] = "failed" /\ rollbackCompleteX[lockX[d]] = "no"
    BY <2>2 DEF stateX, rollbackCompleteX
  <2> QED  BY <2>2, <2>3 DEF HoldsLock
<1> QED  BY <1>1, <1>2

LEMMA NextLockEntryIsHolder ==
  ASSUME TypeOK, LockEntryIsHolder, [Next]_vars
  PROVE  LockEntryIsHolder'
<1> DEFINE Names(l, s, r) ==
      \A d \in Docs : l[d] # None =>
        l[d] \in Tx /\ docOf[l[d]] = d /\ HoldsLock(s[l[d]], r[l[d]])
<1>x. Names(lockX, stateX, rollbackCompleteX)
  BY ExpiryKeepsHolders
<1>y. Names(lock, state, rollbackComplete)
  BY DEF LockEntryIsHolder, TypeOK, Holding
<1>t. TypeOK'
  BY NextTypeOK
<1>z. /\ stateX \in [Tx -> TxStates]
      /\ rollbackCompleteX \in [Tx -> {"unset", "no", "yes"}]
      /\ lockX \in [Docs -> Tx \cup {None}]
      /\ \A t \in Tx : stateX[t] = "unborn" <=> state[t] = "unborn"
  BY ExpireKeepsType
<1>1. CASE Get
  BY <1>1, <1>x DEF Get, Expire, LockEntryIsHolder, Holding
<1>2. ASSUME NEW t \in Tx, Lapse(t) PROVE LockEntryIsHolder'
  BY <1>2, <1>y DEF Lapse, LockEntryIsHolder, Holding
<1>3. ASSUME NEW t \in Tx, NEW d \in Docs, Begin(t, d) PROVE LockEntryIsHolder'
  <2>1. /\ state' = [stateX EXCEPT ![t] = "active"]
        /\ rollbackComplete' = rollbackCompleteX
        /\ docOf' = [docOf EXCEPT ![t] = d]
        /\ lock' = [lockX EXCEPT ![d] = t]
        /\ stateX[t] = "unborn"
    BY <1>3, <1>z DEF Begin, BeginIf
  <2>2. \A e \in Docs : lockX[e] # t
    BY <1>x, <2>1, ConstantsAssumption DEF HoldsLock
  <2>3. Holding(t)' /\ docOf'[t] = d
    BY <2>1, <1>z DEF Holding, HoldsLock, TypeOK
  <2>4. \A e \in Docs : lock'[e] = lockX[e] \/ (e = d /\ lock'[e] = t)
    BY <2>1, <1>z
  <2> QED  BY <1>x, <1>z, <2>1, <2>2, <2>3, <2>4 DEF LockEntryIsHolder, Holding, TypeOK
<1>4. ASSUME NEW t \in Tx, RunCreate(t) PROVE LockEntryIsHolder'
  <2>1. /\ state' = stateX
        /\ rollbackComplete' = rollbackCompleteX /\ lock' = lockX /\ docOf' = docOf
        \/ /\ stateX[t] \in Open /\ state' = [stateX EXCEPT ![t] = "active"]
           /\ rollbackComplete' = rollbackCompleteX /\ lock' = lockX /\ docOf' = docOf
    BY <1>4 DEF RunCreate, Reserve, CanReserve, Open
  <2> QED  BY <1>x, <1>z, <2>1 DEF LockEntryIsHolder, Holding, HoldsLock
<1>5. ASSUME NEW t \in Tx, RunAfterSnapshot(t) PROVE LockEntryIsHolder'
  BY <1>5, <1>x DEF RunAfterSnapshot, Expire, LockEntryIsHolder, Holding
<1>6. ASSUME NEW t \in Tx, ReserveWithSnapshot(t) PROVE LockEntryIsHolder'
  <2>1. /\ \A u \in Tx : state'[u] = IF u = t THEN "active" ELSE state[u]
        /\ rollbackComplete' = rollbackComplete /\ lock' = lock /\ docOf' = docOf
    BY <1>6 DEF ReserveWithSnapshot, ReserveAfterAwait, CanReserve, Open, Reserve, TypeOK
  <2> QED  BY <1>y, <2>1 DEF LockEntryIsHolder, Holding, HoldsLock
<1>7. ASSUME NEW t \in Tx, \/ SnapshotRefused(t)
                           \/ \E i : SettleApplied(t, i)
                           \/ \E i, c : SettleCancelled(t, i, c)
                           \/ \E k, restored : RollbackOperation(t, k, restored)
      PROVE  LockEntryIsHolder'
  <2>1. state' = state /\ rollbackComplete' = rollbackComplete /\ lock' = lock /\ docOf' = docOf
    BY <1>7 DEF SnapshotRefused, SettleApplied, SettleCancelled, RollbackOperation
  <2> QED  BY <2>1 DEF LockEntryIsHolder, Holding
<1>8. ASSUME NEW t \in Tx, NEW i, SettleFailed(t, i) PROVE LockEntryIsHolder'
  <2>1. /\ \A u \in Tx : state'[u] = IF u = t THEN "failed" ELSE state[u]
        /\ \A u \in Tx : rollbackComplete'[u] = IF u = t THEN "no" ELSE rollbackComplete[u]
        /\ \A d \in Docs : lock'[d] = IF d = docOf[t] THEN t ELSE lock[d]
        /\ docOf' = docOf
    BY <1>8 DEF SettleFailed, TypeOK
  <2> QED  BY <1>y, <2>1 DEF LockEntryIsHolder, Holding, HoldsLock
<1>9. ASSUME NEW t \in Tx, Validate(t) PROVE LockEntryIsHolder'
  <2>1. /\ \A u \in Tx : state'[u] = IF u = t THEN "validating" ELSE stateX[u]
        /\ rollbackComplete' = rollbackCompleteX /\ lock' = lockX /\ docOf' = docOf
    BY <1>9, <1>z DEF Validate, ValidateRefusing
  <2> QED  BY <1>x, <1>z, <2>1 DEF LockEntryIsHolder, Holding, HoldsLock
<1>10. ASSUME NEW t \in Tx, NEW passed, GatesAnswered(t, passed) PROVE LockEntryIsHolder'
  <2>1. /\ \A u \in Tx : u # t => state'[u] = state[u]
        /\ state'[t] \in {"validated", "active"}
        /\ rollbackComplete' = rollbackComplete /\ lock' = lock /\ docOf' = docOf
    BY <1>10 DEF GatesAnswered, TypeOK
  <2> QED  BY <1>y, <2>1 DEF LockEntryIsHolder, Holding, HoldsLock
<1>11. ASSUME NEW t \in Tx, Commit(t) \/ RollbackNothing(t) PROVE LockEntryIsHolder'
  <2>1. /\ \A u \in Tx : u # t => /\ state'[u] = stateX[u]
                                  /\ rollbackComplete'[u] = rollbackCompleteX[u]
        /\ \A d \in Docs : lock'[d] = IF d = docOf[t] THEN None ELSE lockX[d]
        /\ docOf' = docOf
    BY <1>11, <1>z DEF Commit, CommitLeaving, RollbackNothing
  <2> QED  BY <1>x, <1>z, <2>1 DEF LockEntryIsHolder, Holding
<1>12. ASSUME NEW t \in Tx, NEW k, Rollback(t, k) PROVE LockEntryIsHolder'
  <2>1. /\ \A u \in Tx : state'[u] = IF u = t THEN "rolling-back" ELSE stateX[u]
        /\ rollbackComplete' = rollbackCompleteX /\ lock' = lockX /\ docOf' = docOf
    BY <1>12, <1>z DEF Rollback
  <2> QED  BY <1>x, <1>z, <2>1 DEF LockEntryIsHolder, Holding, HoldsLock
<1>13. ASSUME NEW t \in Tx, NEW k, FinalizeRollback(t, k) PROVE LockEntryIsHolder'
  <2>1. /\ \A u \in Tx : u # t => /\ state'[u] = state[u]
                                  /\ rollbackComplete'[u] = rollbackComplete[u]
        /\ docOf' = docOf
        /\ \/ /\ state'[t] = "failed" /\ rollbackComplete'[t] = "no"
              /\ \A d \in Docs : lock'[d] = IF d = docOf[t] THEN t ELSE lock[d]
           \/ \A d \in Docs : lock'[d] = IF d = docOf[t] THEN None ELSE lock[d]
    BY <1>13 DEF FinalizeRollback, Finalize, TypeOK
  <2> QED  BY <1>y, <2>1 DEF LockEntryIsHolder, Holding, HoldsLock
<1>14. CASE UNCHANGED vars
  BY <1>14 DEF vars, LockEntryIsHolder, Holding
<1> QED
  BY <1>1, <1>2, <1>3, <1>4, <1>5, <1>6, <1>7, <1>8, <1>9, <1>10, <1>11, <1>12,
     <1>13, <1>14 DEF Next, Call, Answer

\* Every entry of the lock table names a transaction of that document that
\* still holds its lock, so begin() never finds a stale one.
THEOREM LockEntriesAreLive == Spec => []LockEntryIsHolder
<1>1. Init => TypeOK /\ LockEntryIsHolder
  BY InitTypeOK DEF Init, LockEntryIsHolder
<1>2. TypeOK /\ LockEntryIsHolder /\ [Next]_vars => (TypeOK /\ LockEntryIsHolder)'
  BY NextTypeOK, NextLockEntryIsHolder
<1> QED  BY <1>1, <1>2, PTL DEF Spec

-----------------------------------------------------------------------------
(***************************************************************************)
(* What an ended transaction can still do.                                 *)
(***************************************************************************)

LEMMA NextEndedStaysEnded ==
  ASSUME TypeOK, LogInv, [Next]_vars, NEW u \in Tx, state[u] \in Ended
  PROVE  /\ state'[u] \in Ended
         /\ state[u] = "committed" => state'[u] = "committed" /\ ops'[u] = ops[u]
         /\ state'[u] = "committed" => state[u] = "committed"
<1> USE DEF Ended
<1>x. stateX[u] = state[u] /\ stateX \in [Tx -> TxStates] /\ state[u] \notin Open
  BY ExpireKeepsType DEF Stale, Open
<1>y. state[u] = "committed" => \A i \in DOMAIN ops[u] : ops[u][i].state # "pending"
  BY DEF LogInv, ApprovedLogSettled
<1>1. CASE Get
  BY <1>1, <1>x DEF Get, Expire
<1>2. ASSUME NEW t \in Tx, Lapse(t) \/ SnapshotRefused(t)
      PROVE  state' = state /\ ops' = ops
  BY <1>2 DEF Lapse, SnapshotRefused
<1>3. ASSUME NEW t \in Tx, \/ \E d \in Docs : Begin(t, d)
                           \/ Validate(t) \/ Commit(t) \/ RunAfterSnapshot(t)
      PROVE  state'[u] = state[u] /\ ops' = ops
  BY <1>3, <1>x DEF Begin, BeginIf, Validate, ValidateRefusing, Commit,
     CommitLeaving, RunAfterSnapshot, Expire, Open
<1>4. ASSUME NEW t \in Tx, RunCreate(t) \/ ReserveWithSnapshot(t)
      PROVE  state'[u] = state[u] /\ ops'[u] = ops[u]
  BY <1>4, <1>x DEF RunCreate, ReserveWithSnapshot, ReserveAfterAwait, CanReserve,
     Reserve, Open, TypeOK
<1>5. ASSUME NEW t \in Tx, NEW i, \/ SettleApplied(t, i)
                                  \/ \E c : SettleCancelled(t, i, c)
      PROVE  state'[u] = state[u] /\ (state[u] = "committed" => ops'[u] = ops[u])
  BY <1>5, <1>y DEF SettleApplied, SettleCancelled, SetOp, TypeOK
<1>6. ASSUME NEW t \in Tx, NEW i, SettleFailed(t, i)
      PROVE  \/ state'[u] = state[u] /\ ops'[u] = ops[u]
             \/ state[u] # "committed" /\ state'[u] = "failed"
  BY <1>6, <1>y DEF SettleFailed, SetOp, TypeOK
<1>7. ASSUME NEW t \in Tx, NEW passed, GatesAnswered(t, passed)
      PROVE  state'[u] = state[u] /\ ops' = ops
  BY <1>7 DEF GatesAnswered
<1>8. ASSUME NEW t \in Tx, RollbackNothing(t) \/ \E k \in Loops : Rollback(t, k)
      PROVE  \/ state'[u] = state[u] /\ ops' = ops
             \/ state[u] # "committed" /\ state'[u] \in {"rolled-back", "rolling-back"}
  BY <1>8, <1>x DEF RollbackNothing, Rollback, Undoable
<1>9. ASSUME NEW t \in Tx, NEW k \in Loops, NEW restored \in BOOLEAN,
             RollbackOperation(t, k, restored)
      PROVE  state' = state /\ (state[u] = "committed" => ops'[u] = ops[u])
  <2>1. state' = state /\ state[t] # "committed"
    BY <1>9 DEF RollbackOperation, LogInv, LoopsOnlyAborted
  <2>2. u # t => ops'[u] = ops[u]
    BY <1>9 DEF RollbackOperation, SetOp, TypeOK
  <2> QED  BY <2>1, <2>2
<1>10. ASSUME NEW t \in Tx, NEW k \in Loops, FinalizeRollback(t, k)
       PROVE  \/ state'[u] = state[u] /\ ops' = ops
              \/ state[u] # "committed" /\ state'[u] \in {"rolled-back", "failed"}
  BY <1>10 DEF FinalizeRollback, Finalize, LogInv, LoopsOnlyAborted
<1>11. CASE UNCHANGED vars
  BY <1>11 DEF vars
<1> QED
  BY <1>x, <1>1, <1>2, <1>3, <1>4, <1>5, <1>6, <1>7, <1>8, <1>9, <1>10, <1>11
     DEF Next, Call, Answer

\* EndedStaysEnded for every number of transactions and of calls in flight:
\* no late answer and no overlapping call revives a transaction that failed,
\* expired or was rolled back, or touches one that was committed.
THEOREM EndedIsFinal == Spec => EndedStaysEnded
<1>1. Init => TypeOK /\ LogInv
  BY InitTypeOK, InitLogInv
<1>2. TypeOK /\ LogInv /\ [Next]_vars => (TypeOK /\ LogInv)'
  BY NextTypeOK, NextLogInv
<1>3. TypeOK /\ LogInv /\ [Next]_vars =>
        [\A t \in Tx : state[t] \in Ended =>
           /\ state'[t] \in Ended
           /\ state[t] = "committed" => state'[t] = "committed" /\ ops'[t] = ops[t]
           /\ state'[t] = "committed" => state[t] = "committed"]_vars
  BY NextEndedStaysEnded
<1> QED  BY <1>1, <1>2, <1>3, PTL DEF Spec, EndedStaysEnded

-----------------------------------------------------------------------------
(***************************************************************************)
(* A rollback that completes leaves nothing.                               *)
(*                                                                         *)
(* RolledBackIsClean has to be strengthened by what a rollback knows while *)
(* it runs: nothing is in flight beside it, and whatever is not undone is  *)
(* either still on its list or has been recorded as a failure.             *)
(***************************************************************************)

RollbackAccounts(t, k) ==
  /\ state[t] = "rolling-back"
  /\ \A l \in Loops : l # k => loops[t][l] = None
  /\ \A i \in DOMAIN ops[t] :
       /\ ops[t][i].state # "pending"
       /\ ops[t][i].state \in {"applied", "failed"} =>
            i \in loops[t][k].left \/ loops[t][k].failed # FALSE

Clean(t) == ~ Has(ops[t], {"pending", "applied", "failed"})

SerialRollback(t) ==
  /\ \A k \in Loops : loops[t][k] # None => RollbackAccounts(t, k)
  /\ state[t] = "rolled-back" => Clean(t)
  /\ \A i \in DOMAIN ops[t] :
       ops[t][i].state = "failed" => ops[t][i].compensation = "failed"

RollbackInv == \A t \in Tx \ Overlapping : SerialRollback(t)

\* A step that leaves the log and the rollbacks of a transaction alone.
LEMMA SerialRollbackFrame ==
  ASSUME NEW u \in Tx, SerialRollback(u), ops'[u] = ops[u], loops'[u] = loops[u],
         \/ state'[u] = state[u]
         \/ state[u] # "rolling-back" /\ (state'[u] = "rolled-back" => Clean(u))
  PROVE  SerialRollback(u)'
BY DEF SerialRollback, RollbackAccounts, Clean, Has

\* What a client that awaits its calls knows when it makes one.
LEMMA IdleHasNoRollback ==
  ASSUME NEW u \in Tx \ Overlapping, MayCall(u)
  PROVE  /\ \A k \in Loops : loops[u][k] = None
         /\ \A i \in DOMAIN ops[u] : ops[u][i].state # "pending"
BY DEF MayCall, Idle, Has

LEMMA NextRollbackInv ==
  ASSUME TypeOK, LogInv, RollbackInv, [Next]_vars
  PROVE  RollbackInv'
<1> SUFFICES ASSUME NEW u \in Tx \ Overlapping PROVE SerialRollback(u)'
  BY DEF RollbackInv
<1>s. SerialRollback(u)
  BY DEF RollbackInv
<1>t. /\ \A i \in DOMAIN ops[u] : ops[u][i].state \in OpStates
      /\ state[u] = "unborn" => ops[u] = << >> /\ \A k \in Loops : loops[u][k] = None
  <2>1. ops[u] \in Seq(Operation)
    BY DEF TypeOK
  <2>2. \A i \in DOMAIN ops[u] : ops[u][i] \in Operation
    BY <2>1, LenProperties, ElementOfSeq
  <2> QED  BY <2>2 DEF Operation, TypeOK
<1>x. /\ \/ stateX[u] = state[u]
         \/ state[u] \in Open /\ stateX[u] \in {"failed", "expired"}
      /\ stateX \in [Tx -> TxStates]
  BY ExpireKeepsType DEF Stale
<1>1. CASE Get
  BY <1>1, <1>s, <1>x, SerialRollbackFrame DEF Get, Expire, Open
<1>2. ASSUME NEW t \in Tx, Lapse(t) \/ SnapshotRefused(t) PROVE SerialRollback(u)'
  BY <1>2, <1>s, SerialRollbackFrame DEF Lapse, SnapshotRefused
<1>3. ASSUME NEW t \in Tx, NEW d \in Docs, Begin(t, d) PROVE SerialRollback(u)'
  <2>1. ops' = ops /\ loops' = loops /\ state'[u] = IF u = t THEN "active" ELSE stateX[u]
    BY <1>3, <1>x DEF Begin, BeginIf
  <2>2. u = t => state[u] = "unborn"
    BY <1>3 DEF Begin, BeginIf
  <2> QED  BY <2>1, <2>2, <1>s, <1>x, SerialRollbackFrame DEF Open
<1>4. ASSUME NEW t \in Tx, RunAfterSnapshot(t) \/ Validate(t) \/ Commit(t)
      PROVE  SerialRollback(u)'
  <2>1. /\ ops' = ops /\ loops' = loops
        /\ \/ state'[u] = stateX[u]
           \/ stateX[u] \in Open /\ state'[u] \in {"validating", "committed"}
    BY <1>4, <1>x DEF RunAfterSnapshot, Expire, Validate, ValidateRefusing, Commit,
       CommitLeaving, Open
  <2> QED  BY <2>1, <1>s, <1>x, SerialRollbackFrame DEF Open
<1>5. ASSUME NEW t \in Tx, NEW passed, GatesAnswered(t, passed) PROVE SerialRollback(u)'
  BY <1>5, <1>s, SerialRollbackFrame DEF GatesAnswered, TypeOK
<1>6. ASSUME NEW t \in Tx, NEW s \in [Tx -> TxStates], Reserve(t, s), loops' = loops,
             s[t] \in Open, s[u] = stateX[u] \/ s[u] = state[u]
      PROVE  SerialRollback(u)'
  <2>1. CASE u # t
    <3>1. ops'[u] = ops[u] /\ state'[u] = s[u]
      BY <1>6, <2>1, ReserveKeepsType
    <3> QED  BY <3>1, <1>6, <1>s, <1>x, SerialRollbackFrame DEF Open
  <2>2. CASE u = t
    <3>1. /\ state[u] \in Open /\ state'[u] = "active"
          /\ \A j \in DOMAIN ops'[u] :
               ops'[u][j] = IF j \in DOMAIN ops[u] THEN ops[u][j] ELSE Reserved
      BY <1>6, <1>x, <2>2, ReserveKeepsType DEF Reserve, Open
    <3>2. \A k \in Loops : loops'[u][k] = None
      BY <3>1, <1>6, <1>s DEF SerialRollback, RollbackAccounts, Open
    <3>3. \A j \in DOMAIN ops'[u] :
            ops'[u][j].state = "failed" => ops'[u][j].compensation = "failed"
      BY <3>1, <1>s DEF SerialRollback, Reserved
    <3> QED  BY <3>1, <3>2, <3>3 DEF SerialRollback
  <2> QED  BY <2>1, <2>2
<1>7. ASSUME NEW t \in Tx, RunCreate(t) PROVE SerialRollback(u)'
  <2>1. Reserve(t, stateX) /\ loops' = loops /\ stateX[t] \in Open
    BY <1>7 DEF RunCreate, CanReserve
  <2> QED  BY <2>1, <1>6, <1>x
<1>8. ASSUME NEW t \in Tx, ReserveWithSnapshot(t) PROVE SerialRollback(u)'
  <2>1. Reserve(t, state) /\ loops' = loops /\ state[t] \in Open /\ state \in [Tx -> TxStates]
    BY <1>8 DEF ReserveWithSnapshot, ReserveAfterAwait, CanReserve, TypeOK
  <2> QED  BY <2>1, <1>6
<1>9. ASSUME NEW t \in Tx, NEW i \in DOMAIN ops[t], NEW s \in OpStates, NEW c \in Compensations,
             ops[t][i].state = "pending", SetOp(t, i, s, c), loops' = loops,
             s = "failed" => c = "failed",
             state'[u] = state[u] \/ (u = t /\ state'[u] = "failed")
      PROVE  SerialRollback(u)'
  <2>1. CASE u # t
    BY <1>9, <2>1, <1>s, SetOpKeepsType, SerialRollbackFrame
  <2>2. CASE u = t
    <3>1. state[u] # "rolled-back" /\ \A k \in Loops : loops[u][k] = None
      BY <1>9, <2>2, <1>s DEF SerialRollback, RollbackAccounts, Clean, Has
    <3>2. /\ DOMAIN ops'[t] = DOMAIN ops[t]
          /\ \A j \in DOMAIN ops[t] :
               ops'[t][j] = IF j = i THEN [state |-> s, compensation |-> c] ELSE ops[t][j]
      <4> DEFINE op == [state |-> s, compensation |-> c]
      <4> HIDE DEF op
      <4>1. ops'[t] = [ops[t] EXCEPT ![i] = op]
        BY <1>9 DEF SetOp, TypeOK, op
      <4> QED  BY <4>1 DEF op
    <3> QED  BY <3>1, <3>2, <1>9, <2>2, <1>s DEF SerialRollback
  <2> QED  BY <2>1, <2>2
<1>10. ASSUME NEW t \in Tx, NEW i, \/ SettleApplied(t, i)
                                   \/ \E c \in {"not-needed", "restored"} : SettleCancelled(t, i, c)
                                   \/ SettleFailed(t, i)
       PROVE  SerialRollback(u)'
  <2>1. CASE SettleApplied(t, i)
    <3>1. /\ i \in DOMAIN ops[t] /\ ops[t][i].state = "pending"
          /\ SetOp(t, i, "applied", "unset")
          /\ loops' = loops /\ state'[u] = state[u]
      BY <2>1 DEF SettleApplied
    <3>2. "applied" \in OpStates /\ "unset" \in Compensations
      BY DEF OpStates, Compensations
    <3> QED  BY <3>1, <3>2, <1>9
  <2>2. ASSUME NEW c \in {"not-needed", "restored"}, SettleCancelled(t, i, c)
        PROVE  SerialRollback(u)'
    <3>1. /\ i \in DOMAIN ops[t] /\ ops[t][i].state = "pending"
          /\ SetOp(t, i, "cancelled", c)
          /\ loops' = loops /\ state'[u] = state[u]
      BY <2>2 DEF SettleCancelled
    <3>2. "cancelled" \in OpStates /\ c \in Compensations
      BY DEF OpStates, Compensations
    <3> QED  BY <3>1, <3>2, <1>9
  <2>3. CASE SettleFailed(t, i)
    <3>1. state'[u] = state[u] \/ (u = t /\ state'[u] = "failed")
      BY <2>3 DEF SettleFailed, TypeOK
    <3>2. /\ i \in DOMAIN ops[t] /\ ops[t][i].state = "pending"
          /\ SetOp(t, i, "failed", "failed") /\ loops' = loops
      BY <2>3 DEF SettleFailed
    <3>3. "failed" \in OpStates /\ "failed" \in Compensations
      BY DEF OpStates, Compensations
    <3> QED  BY <3>1, <3>2, <3>3, <1>9
  <2> QED  BY <1>10, <2>1, <2>2, <2>3
<1>11. ASSUME NEW t \in Tx, RollbackNothing(t) PROVE SerialRollback(u)'
  <2>1. ops' = ops /\ loops' = loops
        /\ state'[u] = IF u = t THEN "rolled-back" ELSE stateX[u]
    BY <1>11, <1>x DEF RollbackNothing
  <2>2. u = t => Clean(u) /\ \A k \in Loops : loops[u][k] = None
    BY <1>11, <1>s, IdleHasNoRollback
       DEF RollbackNothing, Clean, Has, Unresolved, IsUnresolved, SerialRollback
  <2> QED  BY <2>1, <2>2, <1>s, <1>x DEF SerialRollback, RollbackAccounts, Open, Clean, Has
<1>12. ASSUME NEW t \in Tx, NEW k \in Loops, Rollback(t, k) PROVE SerialRollback(u)'
  <2>1. /\ ops' = ops
        /\ state'[u] = IF u = t THEN "rolling-back" ELSE stateX[u]
        /\ u # t => loops'[u] = loops[u]
    BY <1>12, <1>x DEF Rollback, TypeOK
  <2>2. CASE u = t
    <3>1. /\ \A l \in Loops : l # k => loops'[u][l] = None
          /\ loops'[u][k] = [left |-> Unresolved(u), failed |-> FALSE]
          /\ \A i \in DOMAIN ops[u] : ops[u][i].state # "pending"
      BY <1>12, <2>2, IdleHasNoRollback DEF Rollback, TypeOK
    <3>2. \A i \in DOMAIN ops[u] :
            ops[u][i].state \in {"applied", "failed"} => i \in Unresolved(u)
      BY <1>s DEF SerialRollback, Unresolved, IsUnresolved
    <3>3. \A l \in Loops : loops'[u][l] # None => RollbackAccounts(u, l)'
      <4> SUFFICES ASSUME NEW l \in Loops, loops'[u][l] # None PROVE RollbackAccounts(u, l)'
        OBVIOUS
      <4>1. l = k /\ loops'[u][l].left = Unresolved(u)
        BY <3>1
      <4>2. \A i \in DOMAIN ops'[u] :
              /\ ops'[u][i].state # "pending"
              /\ ops'[u][i].state \in {"applied", "failed"} => i \in loops'[u][l].left
        BY <4>1, <3>1, <3>2, <2>1
      <4> QED  BY <4>1, <4>2, <3>1, <2>1, <2>2 DEF RollbackAccounts
    <3> QED  BY <3>3, <2>1, <2>2, <1>s DEF SerialRollback
  <2> QED  BY <2>1, <2>2, <1>s, <1>x, SerialRollbackFrame DEF Open
<1>13. ASSUME NEW t \in Tx, NEW k \in Loops, NEW restored \in BOOLEAN,
              RollbackOperation(t, k, restored)
       PROVE  SerialRollback(u)'
  <2>1. PICK i \in NewestOf(loops[t][k].left) :
          /\ IF restored THEN SetOp(t, i, "rolled-back", "restored")
                         ELSE SetOp(t, i, "failed", "failed")
          /\ loops' = [loops EXCEPT
                ![t][k] = [left |-> @.left \ {i}, failed |-> @.failed \/ ~ restored]]
    BY <1>13 DEF RollbackOperation
  <2>2. state' = state /\ loops[t][k] # None
    BY <1>13 DEF RollbackOperation
  <2>3. CASE u # t
    <3>1. ops'[u] = ops[u] /\ loops'[u] = loops[u]
      BY <2>1, <2>3, SetOpKeepsType DEF TypeOK, OpStates, Compensations
    <3> QED  BY <3>1, <2>2, <1>s, SerialRollbackFrame
  <2>4. CASE u = t
    <3>1. RollbackAccounts(u, k)
      BY <2>2, <2>4, <1>s DEF SerialRollback
    <3>2. /\ DOMAIN ops'[u] = DOMAIN ops[u]
          /\ \A j \in DOMAIN ops[u] :
               ops'[u][j] = IF j # i THEN ops[u][j]
                            ELSE IF restored THEN [state |-> "rolled-back", compensation |-> "restored"]
                                             ELSE [state |-> "failed", compensation |-> "failed"]
      BY <2>1, <2>4, SetOpKeepsType DEF OpStates, Compensations
    <3>3. /\ \A l \in Loops : l # k => loops'[u][l] = None
          /\ loops'[u][k] = [left |-> loops[u][k].left \ {i},
                             failed |-> loops[u][k].failed \/ ~ restored]
      BY <2>1, <2>4, <3>1 DEF RollbackAccounts, TypeOK
    <3>4. loops[u][k].failed \in BOOLEAN
      BY <2>2, <2>4 DEF TypeOK, Rollbacks
    <3>5. /\ loops'[u][k].left = loops[u][k].left \ {i}
          /\ restored => loops'[u][k].failed = loops[u][k].failed
          /\ ~ restored => loops'[u][k].failed = TRUE
      <4> DEFINE f == loops[u][k].failed \/ ~ restored
      <4>1. (restored => f = loops[u][k].failed) /\ (~ restored => f = TRUE)
        BY <3>4
      <4>2. loops'[u][k] = [left |-> loops[u][k].left \ {i}, failed |-> f]
        BY <3>3
      <4> HIDE DEF f
      <4> QED  BY <4>1, <4>2
    <3>6. \A j \in DOMAIN ops'[u] :
            /\ ops'[u][j].state # "pending"
            /\ ops'[u][j].state = "failed" => ops'[u][j].compensation = "failed"
            /\ ops'[u][j].state \in {"applied", "failed"} =>
                 j \in loops'[u][k].left \/ loops'[u][k].failed # FALSE
      <4> TAKE j \in DOMAIN ops'[u]
      <4>1. CASE j = i /\ restored
        <5>1. ops'[u][j] = [state |-> "rolled-back", compensation |-> "restored"]
          BY <4>1, <3>2
        <5> QED  BY <5>1
      <4>2. CASE j = i /\ ~ restored
        <5>1. ops'[u][j] = [state |-> "failed", compensation |-> "failed"]
          BY <4>2, <3>2
        <5>2. loops'[u][k].failed # FALSE
          BY <4>2, <3>5
        <5>3. ops'[u][j].state = "failed" /\ ops'[u][j].compensation = "failed"
          BY <5>1
        <5> QED  BY <5>2, <5>3
      <4>3. CASE j # i
        <5>1. j \in DOMAIN ops[u] /\ ops'[u][j] = ops[u][j]
          BY <4>3, <3>2
        <5>2. loops[u][k].failed # FALSE => loops'[u][k].failed # FALSE
          BY <3>4, <3>5
        <5> QED  BY <5>1, <5>2, <4>3, <3>1, <3>5, <1>s DEF RollbackAccounts, SerialRollback
      <4> QED  BY <4>1, <4>2, <4>3
    <3>7. \A l \in Loops : loops'[u][l] # None => RollbackAccounts(u, l)'
      BY <3>1, <3>3, <3>6, <2>2 DEF RollbackAccounts
    <3> QED  BY <3>1, <3>6, <3>7, <2>2 DEF SerialRollback, RollbackAccounts
  <2> QED  BY <2>3, <2>4
<1>14. ASSUME NEW t \in Tx, NEW k \in Loops, FinalizeRollback(t, k) PROVE SerialRollback(u)'
  <2>1. CASE u # t
    <3>1. ops'[u] = ops[u] /\ loops'[u] = loops[u] /\ state'[u] = state[u]
      BY <1>14, <2>1 DEF FinalizeRollback, Finalize, TypeOK
    <3> QED  BY <3>1, <1>s, SerialRollbackFrame
  <2>2. CASE u = t
    <3>1. RollbackAccounts(u, k) /\ loops[u][k].left = {}
      BY <1>14, <2>2, <1>s DEF FinalizeRollback, Finalize, SerialRollback
    <3>2. /\ ops' = ops
          /\ \A l \in Loops : loops'[u][l] = None
          /\ state'[u] = IF loops[u][k].failed = FALSE THEN "rolled-back" ELSE "failed"
      BY <1>14, <2>2, <3>1 DEF FinalizeRollback, Finalize, Complete, RollbackAccounts, TypeOK
    <3>3. loops[u][k].failed = FALSE => Clean(u)
      BY <3>1 DEF RollbackAccounts, Clean, Has
    <3> QED  BY <3>2, <3>3, <1>s DEF SerialRollback, Clean, Has
  <2> QED  BY <2>1, <2>2
<1>15. CASE UNCHANGED vars
  BY <1>15, <1>s, SerialRollbackFrame DEF vars
<1> QED
  BY <1>1, <1>2, <1>3, <1>4, <1>5, <1>7, <1>8, <1>10, <1>11, <1>12, <1>13, <1>14,
     <1>15 DEF Next, Call, Answer

\* RolledBackIsClean for every number of operations: when rollback() reports
\* "rolled-back" to a client that awaits its calls, every operation of the log
\* was undone or never took effect, however often the rollback was retried.
THEOREM RollbackLeavesNothing == Spec => []RolledBackIsClean
<1>1. Init => TypeOK /\ LogInv /\ RollbackInv
  BY InitTypeOK, InitLogInv DEF Init, RollbackInv, SerialRollback
<1>2. TypeOK /\ LogInv /\ RollbackInv /\ [Next]_vars => (TypeOK /\ LogInv /\ RollbackInv)'
  BY NextTypeOK, NextLogInv, NextRollbackInv
<1>3. RollbackInv => RolledBackIsClean
  BY DEF RollbackInv, SerialRollback, Clean, RolledBackIsClean
<1> QED  BY <1>1, <1>2, <1>3, PTL DEF Spec

-----------------------------------------------------------------------------
(***************************************************************************)
(* The transaction manager implements DocumentLock for clients that await  *)
(* each of their calls and finish in time, for every number of documents,  *)
(* transactions and operations.                                            *)
(*                                                                         *)
(* That the table names holders only (LockEntryIsHolder) is half of the    *)
(* refinement.  The other half, that every holder is in the table, holds   *)
(* for such clients only: a write that fails late fails the transaction it *)
(* belongs to and takes the lock for it, which is harmless as long as that *)
(* transaction holds it anyway.  So the invariant says what of a           *)
(* transaction may be in flight, and in which states (Awaits).             *)
(***************************************************************************)

Prompt == Overlapping = {} /\ Lapsing = {}

Pending(t) == {i \in DOMAIN ops[t] : ops[t][i].state = "pending"}

Awaits(t) ==
  /\ state[t] # "expired"
  /\ state[t] = "failed" => rollbackComplete[t] = "no"
  /\ reading[t] > 0 => state[t] \in Open /\ reading[t] = 1 /\ Pending(t) = {}
  /\ \A i \in Pending(t) : state[t] \in Open /\ Pending(t) = {i}

HolderIsLocked == \A t \in Tx : Holding(t) => lock[docOf[t]] = t

PromptInv ==
  /\ TypeOK /\ LogInv /\ RollbackInv /\ LockEntryIsHolder
  /\ due = {} /\ \A t \in Tx : Awaits(t)
  /\ HolderIsLocked

-----------------------------------------------------------------------------
(***************************************************************************)
(* What is in flight.                                                      *)
(***************************************************************************)

\* Where no clock lapses, calls find everything as they left it.
LEMMA NothingExpires ==
  ASSUME TypeOK, due = {}
  PROVE  stateX = state /\ rollbackCompleteX = rollbackComplete /\ lockX = lock
<1>1. \A t \in Tx : ~ Stale(t)
  BY DEF Stale
<1>2. stateX = state
  BY <1>1 DEF stateX, TypeOK
<1>3. rollbackCompleteX = rollbackComplete
  BY <1>1 DEF rollbackCompleteX, TypeOK
<1>4. lockX = lock
  BY <1>1 DEF lockX, StaleOn, TypeOK
<1> QED BY <1>2, <1>3, <1>4

\* What a client that awaits its calls knows when it makes one.
LEMMA CallsAlone ==
  ASSUME Overlapping = {}, NEW t \in Tx, MayCall(t)
  PROVE  reading[t] = 0 /\ Pending(t) = {} /\ state[t] # "validating"
         /\ \A k \in Loops : loops[t][k] = None
BY DEF MayCall, Idle, Has, Pending

\* While a rollback is in progress, nothing else is.
LEMMA RollsBackAlone ==
  ASSUME Overlapping = {}, RollbackInv, NEW t \in Tx, NEW k \in Loops, loops[t][k] # None
  PROVE  state[t] = "rolling-back" /\ Pending(t) = {}
BY DEF RollbackInv, SerialRollback, RollbackAccounts, Pending

LEMMA AwaitsFrame ==
  ASSUME NEW u \in Tx, Awaits(u), state'[u] = state[u],
         rollbackComplete'[u] = rollbackComplete[u], reading'[u] = reading[u],
         ops'[u] = ops[u]
  PROVE  Awaits(u)'
BY DEF Awaits, Pending

\* A step after which nothing of the transaction is in flight.
LEMMA AwaitsNothing ==
  ASSUME NEW u \in Tx, reading'[u] = 0, Pending(u)' = {}, state'[u] # "expired",
         state'[u] = "failed" => rollbackComplete'[u] = "no"
  PROVE  Awaits(u)'
BY DEF Awaits

\* Settling or restoring an operation takes nothing but it out of the pending ones.
LEMMA SetOpSettles ==
  ASSUME TypeOK, NEW t \in Tx, NEW i, NEW s \in OpStates, s # "pending",
         NEW c \in Compensations, SetOp(t, i, s, c)
  PROVE  Pending(t)' \subseteq Pending(t) \ {i}
<1> DEFINE op == [state |-> s, compensation |-> c]
<1>0. op.state # "pending"
  OBVIOUS
<1> HIDE DEF op
<1>1. ops'[t] = [ops[t] EXCEPT ![i] = op]
  BY DEF SetOp, TypeOK, op
<1> QED BY <1>0, <1>1 DEF Pending

\* A write that is settled leaves nothing in flight.
LEMMA SettleEnds ==
  ASSUME TypeOK, NEW t \in Tx, Awaits(t), NEW i \in Pending(t), Pending(t)' \subseteq Pending(t) \ {i}
  PROVE  Pending(t)' = {} /\ reading[t] = 0
BY DEF Awaits, TypeOK

LEMMA ReserveAwaits ==
  ASSUME TypeOK, NEW t \in Tx, Awaits(t), Pending(t) = {}, state[t] \in Open,
         Reserve(t, state), reading'[t] = 0
  PROVE  Awaits(t)'
<1>1. state \in [Tx -> TxStates]
  BY DEF TypeOK
<1>2. /\ ops'[t] = Append(ops[t], Reserved) /\ ops[t] \in Seq(Operation)
      /\ DOMAIN ops[t] \subseteq DOMAIN ops'[t]
      /\ \A j \in DOMAIN ops'[t] :
           ops'[t][j] = IF j \in DOMAIN ops[t] THEN ops[t][j] ELSE Reserved
  BY <1>1, ReserveKeepsType DEF TypeOK
<1>3. DOMAIN ops'[t] = DOMAIN ops[t] \cup {Len(ops[t]) + 1}
  BY <1>2
<1>4. Pending(t)' \subseteq {Len(ops[t]) + 1}
  BY <1>2, <1>3 DEF Pending
<1>5. state'[t] = "active"
  BY <1>1 DEF Reserve, Open
<1> QED BY <1>4, <1>5 DEF Awaits, Open

-----------------------------------------------------------------------------
LEMMA NextAwaits ==
  ASSUME Prompt, PromptInv, Next
  PROVE  due' = {} /\ \A u \in Tx : Awaits(u)'
<1> USE DEF Prompt, PromptInv
<1>x. stateX = state /\ rollbackCompleteX = rollbackComplete /\ lockX = lock
  BY NothingExpires
<1>t. \A t \in Tx : reading[t] \in Nat
  BY DEF TypeOK
<1>1. CASE Get
  BY <1>1, <1>x, AwaitsFrame DEF Get, Expire
<1>2. ~ \E t \in Tx : Lapse(t)
  BY DEF Lapse, Prompt
<1>3. ASSUME NEW t \in Tx, Call(t) \/ Answer(t) PROVE due' = {}
  BY <1>3 DEF Call, Begin, BeginIf, RunCreate, RunAfterSnapshot, Validate, ValidateRefusing,
     Commit, CommitLeaving, RollbackNothing, Rollback, Answer, ReserveWithSnapshot,
     ReserveAfterAwait, SnapshotRefused, SettleApplied, SettleCancelled, SettleFailed,
     GatesAnswered, RollbackOperation, FinalizeRollback, Finalize
<1>4. ASSUME NEW t \in Tx, Call(t) \/ Answer(t), NEW u \in Tx \ {t} PROVE Awaits(u)'
  <2>1. state'[u] = state[u] /\ rollbackComplete'[u] = rollbackComplete[u]
        /\ reading'[u] = reading[u] /\ ops'[u] = ops[u]
    BY <1>4, <1>x DEF TypeOK, Call, Begin, BeginIf, RunCreate, RunAfterSnapshot, Validate,
       ValidateRefusing, Commit, CommitLeaving, RollbackNothing, Rollback, Answer,
       ReserveWithSnapshot, ReserveAfterAwait, SnapshotRefused, SettleApplied, SettleCancelled,
       SettleFailed, GatesAnswered, RollbackOperation, FinalizeRollback, Finalize, Reserve,
       SetOp, Expire
  <2> QED BY <2>1, AwaitsFrame
<1>5. ASSUME NEW t \in Tx, NEW d \in Docs, Begin(t, d) PROVE Awaits(t)'
  <2>1. reading'[t] = 0 /\ ops'[t] = << >> /\ state'[t] = "active"
    BY <1>5, <1>x DEF Begin, BeginIf, TypeOK
  <2> QED BY <2>1, AwaitsNothing DEF Pending
<1>6. ASSUME NEW t \in Tx, RunCreate(t) PROVE Awaits(t)'
  BY <1>6, <1>x, CallsAlone, ReserveAwaits DEF RunCreate, CanReserve
<1>7. ASSUME NEW t \in Tx, RunAfterSnapshot(t) PROVE Awaits(t)'
  <2>1. reading[t] = 0 /\ Pending(t) = {}
    BY <1>7, CallsAlone DEF RunAfterSnapshot
  <2>2. state[t] \in Open /\ state'[t] = state[t] /\ reading'[t] = 1 /\ ops'[t] = ops[t]
        /\ rollbackComplete'[t] = rollbackComplete[t]
    BY <1>7, <1>x, <2>1 DEF RunAfterSnapshot, Expire, TypeOK
  <2> QED BY <2>1, <2>2 DEF Awaits, Pending
<1>8. ASSUME NEW t \in Tx, Validate(t) \/ Commit(t) \/ RollbackNothing(t)
                           \/ \E k \in Loops : Rollback(t, k)
      PROVE  Awaits(t)'
  <2>1. reading[t] = 0 /\ Pending(t) = {}
    BY <1>8, CallsAlone DEF Validate, ValidateRefusing, Commit, CommitLeaving, RollbackNothing,
       Rollback
  <2>2. ops' = ops /\ reading' = reading
        /\ state'[t] \in {"validating", "committed", "rolled-back", "rolling-back"}
    BY <1>8, <1>x DEF Validate, ValidateRefusing, Commit, CommitLeaving, RollbackNothing,
       Rollback, TypeOK
  <2> QED BY <2>1, <2>2, AwaitsNothing DEF Pending
<1>9. ASSUME NEW t \in Tx, ReserveWithSnapshot(t) PROVE Awaits(t)'
  <2>1. reading[t] = 1 /\ Pending(t) = {} /\ reading'[t] = 0
    BY <1>9, <1>t DEF ReserveWithSnapshot, ReserveAfterAwait, Awaits, TypeOK
  <2>2. state[t] \in Open /\ Reserve(t, state)
    BY <1>9 DEF ReserveWithSnapshot, ReserveAfterAwait, CanReserve
  <2> QED BY <2>1, <2>2, ReserveAwaits
<1>10. ASSUME NEW t \in Tx, SnapshotRefused(t) PROVE Awaits(t)'
  <2>1. reading[t] = 1 /\ Pending(t) = {} /\ reading'[t] = 0
    BY <1>10, <1>t DEF SnapshotRefused, Awaits, TypeOK
  <2>2. ops' = ops /\ state' = state /\ rollbackComplete' = rollbackComplete
    BY <1>10 DEF SnapshotRefused
  <2> QED BY <2>1, <2>2 DEF Awaits, Pending
<1>11. ASSUME NEW t \in Tx, NEW i,
              \/ SettleApplied(t, i) \/ SettleFailed(t, i)
              \/ \E c \in {"not-needed", "restored"} : SettleCancelled(t, i, c)
       PROVE  Awaits(t)'
  <2>1. i \in Pending(t)
    BY <1>11 DEF SettleApplied, SettleFailed, SettleCancelled, Pending
  <2>2. Pending(t)' \subseteq Pending(t) \ {i}
    <3>1. CASE SettleApplied(t, i)
      BY <3>1, SetOpSettles DEF SettleApplied, OpStates, Compensations
    <3>2. CASE SettleFailed(t, i)
      BY <3>2, SetOpSettles DEF SettleFailed, OpStates, Compensations
    <3>3. ASSUME NEW c \in {"not-needed", "restored"}, SettleCancelled(t, i, c)
          PROVE  Pending(t)' \subseteq Pending(t) \ {i}
      BY <3>3, SetOpSettles DEF SettleCancelled, OpStates, Compensations
    <3> QED BY <1>11, <3>1, <3>2, <3>3
  <2>3. Pending(t)' = {} /\ reading[t] = 0
    BY <2>1, <2>2, SettleEnds
  <2>4. /\ reading' = reading
        /\ \/ state'[t] = state[t] /\ rollbackComplete'[t] = rollbackComplete[t]
           \/ state'[t] = "failed" /\ rollbackComplete'[t] = "no"
    BY <1>11 DEF SettleApplied, SettleFailed, SettleCancelled, TypeOK
  <2> QED BY <2>3, <2>4, AwaitsNothing DEF Awaits
<1>12. ASSUME NEW t \in Tx, NEW passed \in BOOLEAN, GatesAnswered(t, passed) PROVE Awaits(t)'
  <2>1. reading[t] = 0 /\ Pending(t) = {}
    BY <1>12, <1>t DEF GatesAnswered, Awaits, Open
  <2>2. ops' = ops /\ reading' = reading /\ state'[t] \in {"validated", "active"}
    BY <1>12 DEF GatesAnswered, TypeOK
  <2> QED BY <2>1, <2>2, AwaitsNothing DEF Pending
<1>13. ASSUME NEW t \in Tx, NEW k \in Loops, NEW restored \in BOOLEAN,
              RollbackOperation(t, k, restored)
       PROVE  Awaits(t)'
  <2>1. state[t] = "rolling-back" /\ Pending(t) = {}
    BY <1>13, RollsBackAlone DEF RollbackOperation
  <2>2. PICK i : IF restored THEN SetOp(t, i, "rolled-back", "restored")
                             ELSE SetOp(t, i, "failed", "failed")
    BY <1>13 DEF RollbackOperation
  <2>3. Pending(t)' \subseteq Pending(t) \ {i}
    <3>1. CASE restored
      BY <2>2, <3>1, SetOpSettles DEF OpStates, Compensations
    <3>2. CASE ~ restored
      BY <2>2, <3>2, SetOpSettles DEF OpStates, Compensations
    <3> QED BY <3>1, <3>2
  <2>4. Pending(t)' = {} /\ reading[t] = 0
    BY <2>1, <2>3, <1>t DEF Pending, Awaits, Open
  <2>5. state' = state /\ reading' = reading
    BY <1>13 DEF RollbackOperation
  <2> QED BY <2>1, <2>4, <2>5, AwaitsNothing
<1>14. ASSUME NEW t \in Tx, NEW k \in Loops, FinalizeRollback(t, k) PROVE Awaits(t)'
  <2>1. state[t] = "rolling-back" /\ Pending(t) = {}
    BY <1>14, RollsBackAlone DEF FinalizeRollback, Finalize
  <2>2. reading[t] = 0
    BY <2>1, <1>t DEF Awaits, Open
  <2>3. /\ ops' = ops /\ reading' = reading
        /\ \/ state'[t] = "rolled-back"
           \/ state'[t] = "failed" /\ rollbackComplete'[t] = "no"
    BY <1>14 DEF FinalizeRollback, Finalize, TypeOK
  <2> QED BY <2>1, <2>2, <2>3, AwaitsNothing DEF Pending
<1>15. ASSUME NEW t \in Tx, Call(t) \/ Answer(t) PROVE Awaits(t)'
  BY <1>15, <1>5, <1>6, <1>7, <1>8, <1>9, <1>10, <1>11, <1>12, <1>13, <1>14
     DEF Call, Answer
<1> QED
  <2>1. CASE Get
    BY <1>1, <2>1 DEF Get
  <2>2. ASSUME NEW t \in Tx, Call(t) \/ Answer(t) PROVE due' = {} /\ \A u \in Tx : Awaits(u)'
    <3>1. due' = {}
      BY <1>3, <2>2
    <3>2. ASSUME NEW u \in Tx PROVE Awaits(u)'
      BY <1>4, <1>15, <2>2
    <3> QED BY <3>1, <3>2
  <2> QED BY <1>2, <2>1, <2>2 DEF Next

-----------------------------------------------------------------------------
(***************************************************************************)
(* What a step does to the locks: nothing, or what DocumentLock allows.    *)
(***************************************************************************)

Keeps ==
  /\ lock' = lock
  /\ \A t \in Tx : /\ state[t] # "unborn" => docOf'[t] = docOf[t]
                   /\ state'[t] = "unborn" <=> state[t] = "unborn"
                   /\ Holding(t)' <=> Holding(t)

Takes(t, d) ==
  /\ state[t] = "unborn" /\ lock[d] = None /\ lock' = [lock EXCEPT ![d] = t]
  /\ state'[t] = "active" /\ docOf'[t] = d
  /\ \A u \in Tx \ {t} : /\ docOf'[u] = docOf[u] /\ state'[u] = state[u]
                         /\ rollbackComplete'[u] = rollbackComplete[u]

Gives(t) ==
  /\ Holding(t) /\ lock[docOf[t]] = t /\ lock' = [lock EXCEPT ![docOf[t]] = None]
  /\ state'[t] # "unborn" /\ ~ Holding(t)' /\ docOf' = docOf
  /\ \A u \in Tx \ {t} : /\ state'[u] = state[u]
                         /\ rollbackComplete'[u] = rollbackComplete[u]

LEMMA NextLocks ==
  ASSUME Prompt, PromptInv, Next
  PROVE  Keeps \/ \E t \in Tx : Gives(t) \/ \E d \in Docs : Takes(t, d)
<1> USE DEF Prompt, PromptInv
<1>x. stateX = state /\ rollbackCompleteX = rollbackComplete /\ lockX = lock
  BY NothingExpires
<1>1. CASE Get
  BY <1>1, <1>x DEF Get, Expire, Keeps, Holding
<1>2. ~ \E t \in Tx : Lapse(t)
  BY DEF Lapse, Prompt
<1>3. ASSUME NEW t \in Tx, NEW d \in Docs, Begin(t, d) PROVE Takes(t, d)
  <2>1. lock[d] = None
    BY <1>3, <1>x DEF Begin, BeginIf, IsFree, LockEntryIsHolder, Holding
  <2> QED BY <1>3, <1>x, <2>1 DEF Begin, BeginIf, Takes, TypeOK
<1>4. ASSUME NEW t \in Tx, state[t] \in Open, Reserve(t, state), docOf' = docOf,
             rollbackComplete' = rollbackComplete, lock' = lock
      PROVE  Keeps
  <2>1. /\ \A u \in Tx : state'[u] = state[u] \/ (u = t /\ state'[u] = "active")
        /\ state[t] \in {"active", "validated"}
    BY <1>4 DEF Reserve, Open, TypeOK
  <2> QED BY <1>4, <2>1 DEF Keeps, Holding, HoldsLock
<1>5. ASSUME NEW t \in Tx, RunCreate(t) \/ ReserveWithSnapshot(t) PROVE Keeps
  BY <1>4, <1>5, <1>x DEF RunCreate, ReserveWithSnapshot, ReserveAfterAwait, CanReserve
<1>6. ASSUME NEW t \in Tx,
             \/ RunAfterSnapshot(t) \/ SnapshotRefused(t) \/ \E i : SettleApplied(t, i)
             \/ \E i, c : SettleCancelled(t, i, c) \/ \E k, r : RollbackOperation(t, k, r)
      PROVE  Keeps
  <2>1. state' = state /\ rollbackComplete' = rollbackComplete /\ lock' = lock /\ docOf' = docOf
    BY <1>6, <1>x DEF RunAfterSnapshot, Expire, SnapshotRefused, SettleApplied, SettleCancelled,
       RollbackOperation
  <2> QED BY <2>1 DEF Keeps, Holding
<1>7. ASSUME NEW t \in Tx, Validate(t) \/ \E passed : GatesAnswered(t, passed) PROVE Keeps
  <2>1. /\ \A u \in Tx : u # t => state'[u] = state[u]
        /\ {state[t], state'[t]} \subseteq {"active", "validating", "validated"}
        /\ rollbackComplete' = rollbackComplete /\ lock' = lock /\ docOf' = docOf
    BY <1>7, <1>x DEF Validate, ValidateRefusing, GatesAnswered, Open, TypeOK
  <2> QED BY <2>1 DEF Keeps, Holding, HoldsLock
<1>8. ASSUME NEW t \in Tx, NEW k, Rollback(t, k) PROVE Keeps
  <2>1. /\ \A u \in Tx : state'[u] = IF u = t THEN "rolling-back" ELSE state[u]
        /\ state[t] \in {"active", "validated", "failed"}
        /\ state[t] = "failed" => rollbackComplete[t] = "no"
        /\ rollbackComplete' = rollbackComplete /\ lock' = lock /\ docOf' = docOf
    BY <1>8, <1>x DEF Rollback, Undoable, Awaits, TypeOK
  <2> QED BY <2>1 DEF Keeps, Holding, HoldsLock
<1>9. ASSUME NEW t \in Tx, NEW i, SettleFailed(t, i) PROVE Keeps
  <2>1. state[t] \in Open
    BY <1>9 DEF SettleFailed, Pending, Awaits
  <2>2. Holding(t) /\ lock[docOf[t]] = t
    BY <2>1 DEF Holding, HoldsLock, Open, HolderIsLocked
  <2>3. /\ \A u \in Tx : state'[u] = IF u = t THEN "failed" ELSE state[u]
        /\ \A u \in Tx : rollbackComplete'[u] = IF u = t THEN "no" ELSE rollbackComplete[u]
        /\ lock' = lock /\ docOf' = docOf
    BY <1>9, <2>2 DEF SettleFailed, TypeOK
  <2> QED BY <2>1, <2>2, <2>3 DEF Keeps, Holding, HoldsLock, Open
<1>10. ASSUME NEW t \in Tx, Commit(t) \/ RollbackNothing(t) PROVE Gives(t)
  <2>1. Holding(t) /\ lock[docOf[t]] = t
    <3>1. /\ state[t] \in {"active", "validated", "failed"}
          /\ state[t] = "failed" => rollbackComplete[t] = "no"
      BY <1>10, <1>x DEF Commit, CommitLeaving, RollbackNothing, Undoable, Awaits
    <3> QED BY <3>1 DEF Holding, HoldsLock, HolderIsLocked
  <2>2. /\ \A u \in Tx \ {t} : /\ state'[u] = state[u]
                                /\ rollbackComplete'[u] = rollbackComplete[u]
        /\ state'[t] \in {"committed", "rolled-back"}
        /\ lock' = [lock EXCEPT ![docOf[t]] = None] /\ docOf' = docOf
    BY <1>10, <1>x DEF Commit, CommitLeaving, RollbackNothing, TypeOK
  <2> QED BY <2>1, <2>2 DEF Gives, Holding, HoldsLock
<1>11. ASSUME NEW t \in Tx, NEW k \in Loops, FinalizeRollback(t, k) PROVE Keeps \/ Gives(t)
  <2>1. state[t] = "rolling-back"
    BY <1>11, RollsBackAlone DEF FinalizeRollback, Finalize
  <2>2. Holding(t) /\ lock[docOf[t]] = t
    BY <2>1 DEF Holding, HoldsLock, HolderIsLocked
  <2>3. /\ \A u \in Tx \ {t} : /\ state'[u] = state[u]
                                /\ rollbackComplete'[u] = rollbackComplete[u]
        /\ docOf' = docOf
    BY <1>11 DEF FinalizeRollback, Finalize, TypeOK
  <2>4. CASE Complete(t, k)
    <3>1. state'[t] = "rolled-back" /\ lock' = [lock EXCEPT ![docOf[t]] = None]
      BY <1>11, <2>4 DEF FinalizeRollback, Finalize, TypeOK
    <3> QED BY <2>2, <2>3, <3>1 DEF Gives, Holding, HoldsLock
  <2>5. CASE ~ Complete(t, k)
    <3>1. state'[t] = "failed" /\ rollbackComplete'[t] = "no" /\ lock' = lock
      BY <1>11, <2>2, <2>5 DEF FinalizeRollback, Finalize, TypeOK
    <3> QED BY <2>1, <2>2, <2>3, <3>1 DEF Keeps, Holding, HoldsLock
  <2> QED BY <2>4, <2>5
<1> QED
  BY <1>1, <1>2, <1>3, <1>5, <1>6, <1>7, <1>8, <1>9, <1>10, <1>11 DEF Next, Call, Answer

LEMMA NextPromptInv == ASSUME Prompt, PromptInv, [Next]_vars PROVE PromptInv'
<1>0. (TypeOK /\ LogInv /\ RollbackInv /\ LockEntryIsHolder)'
  BY NextTypeOK, NextLogInv, NextRollbackInv, NextLockEntryIsHolder DEF PromptInv
<1>1. CASE UNCHANGED vars
  <2>1. due' = {} /\ HolderIsLocked'
    BY <1>1 DEF vars, PromptInv, HolderIsLocked, Holding
  <2>2. \A u \in Tx : Awaits(u)'
    BY <1>1, AwaitsFrame DEF vars, PromptInv
  <2> QED BY <1>0, <2>1, <2>2 DEF PromptInv
<1>2. CASE Next
  <2>1. due' = {} /\ \A u \in Tx : Awaits(u)'
    BY <1>2, NextAwaits
  <2>2. TypeOK /\ HolderIsLocked
    BY DEF PromptInv
  <2>3. CASE Keeps
    BY <1>0, <2>1, <2>2, <2>3 DEF Keeps, PromptInv, HolderIsLocked, Holding, HoldsLock
  <2>4. ASSUME NEW t \in Tx, Gives(t) PROVE HolderIsLocked'
    <3> SUFFICES ASSUME NEW u \in Tx, Holding(u)' PROVE lock'[docOf'[u]] = u
      BY DEF HolderIsLocked
    <3>1. u # t /\ Holding(u) /\ docOf'[u] = docOf[u]
      BY <2>4 DEF Gives, Holding
    <3>2. lock[docOf[u]] = u /\ docOf[u] # docOf[t]
      BY <2>2, <2>4, <3>1 DEF Gives, HolderIsLocked
    <3>3. docOf[u] \in Docs
      BY <2>2, <3>1 DEF TypeOK, Holding, HoldsLock
    <3> QED BY <2>2, <2>4, <3>1, <3>2, <3>3 DEF Gives, TypeOK
  <2>5. ASSUME NEW t \in Tx, NEW d \in Docs, Takes(t, d) PROVE HolderIsLocked'
    <3> SUFFICES ASSUME NEW u \in Tx, Holding(u)' PROVE lock'[docOf'[u]] = u
      BY DEF HolderIsLocked
    <3>1. CASE u = t
      BY <2>2, <2>5, <3>1 DEF Takes, TypeOK
    <3>2. CASE u # t
      <4>1. Holding(u) /\ docOf'[u] = docOf[u]
        BY <2>5, <3>2 DEF Takes, Holding
      <4>2. lock[docOf[u]] = u /\ docOf[u] # d
        BY <2>2, <2>5, <4>1, ConstantsAssumption DEF Takes, HolderIsLocked
      <4>3. docOf[u] \in Docs
        BY <2>2, <4>1 DEF TypeOK, Holding, HoldsLock
      <4> QED BY <2>2, <2>5, <4>1, <4>2, <4>3 DEF Takes, TypeOK
    <3> QED BY <3>1, <3>2
  <2> QED BY <1>0, <1>2, <2>1, <2>3, <2>4, <2>5, NextLocks DEF PromptInv
<1> QED BY <1>1, <1>2

LEMMA InitPromptInv == ASSUME Init PROVE PromptInv
<1>1. TypeOK /\ LogInv
  BY InitTypeOK, InitLogInv
<1>2. RollbackInv /\ LockEntryIsHolder
  BY DEF Init, RollbackInv, SerialRollback, LockEntryIsHolder
<1>3. due = {} /\ \A t \in Tx : state[t] = "unborn" /\ reading[t] = 0 /\ ops[t] = << >>
  BY DEF Init
<1>4. (\A t \in Tx : Awaits(t)) /\ HolderIsLocked
  BY <1>3 DEF Awaits, Pending, HolderIsLocked, Holding, HoldsLock
<1> QED BY <1>1, <1>2, <1>3, <1>4 DEF PromptInv

LEMMA SpecPromptInv == ASSUME Prompt PROVE Spec => []PromptInv
<1>1. Init => PromptInv
  BY InitPromptInv
<1>2. PromptInv /\ [Next]_vars => PromptInv'
  BY NextPromptInv
<1> QED BY <1>1, <1>2, PTL DEF Spec

-----------------------------------------------------------------------------
(***************************************************************************)
(* Where clocks lapse.                                                     *)
(*                                                                         *)
(* A time to live that runs out is harmless by itself: the expiry takes    *)
(* the lock from a transaction with nothing to undo, and leaves it to one  *)
(* that has.  It is what comes to a transaction after it has expired that  *)
(* harms, since its document may have gone to another: a write that fails  *)
(* late makes it "failed" (manager.ts:654) and takes the lock, and a       *)
(* rollback of it ends by taking the entry out of the table.  So every     *)
(* holder is in the table as long as no transaction leaves "expired".      *)
(***************************************************************************)

ExpiredIsFinal == \A t \in Tx : state[t] = "expired" => state'[t] = "expired"

\* A failed transaction demands a rollback, and writes are in flight only in
\* transactions that are open or were until they failed or expired.
Unsettled(t) ==
  /\ state[t] = "failed" => rollbackComplete[t] = "no"
  /\ Pending(t) # {} => state[t] \in Open \cup {"failed", "expired"}

LapseInv ==
  /\ TypeOK /\ LogInv /\ RollbackInv /\ LockEntryIsHolder
  /\ \A t \in Tx : Unsettled(t)
  /\ HolderIsLocked

\* Whoever still holds its document after an expiry held it before, and is in the
\* table that the expiry leaves.
LEMMA ExpiryHolds ==
  ASSUME LapseInv, NEW u \in Tx, HoldsLock(stateX[u], rollbackCompleteX[u])
  PROVE  Holding(u) /\ docOf[u] \in Docs /\ lockX[docOf[u]] = u
<1>1. \A v \in Tx : Holding(v) => docOf[v] \in Docs /\ lock[docOf[v]] = v
  BY DEF LapseInv, TypeOK, HolderIsLocked, Holding, HoldsLock
<1>2. \A v \in Tx : Stale(v) => Holding(v)
  BY DEF Stale, Open, Holding, HoldsLock
<1>3. Holding(u)
  BY <1>2, ExpireKeepsType DEF stateX, rollbackCompleteX, Holding
<1>4. StaleOn(docOf[u]) \subseteq {u}
  BY <1>1, <1>2, <1>3 DEF StaleOn
<1>5. CASE Stale(u)
  <2>1. Unresolved(u) # {}
    BY <1>5 DEF stateX, rollbackCompleteX, HoldsLock
  <2>2. StaleOn(docOf[u]) = {u} /\ u <= u
    BY <1>4, <1>5 DEF StaleOn, Tx
  <2>3. LastWithWrites(docOf[u]) = {u}
    BY <2>1, <2>2 DEF LastWithWrites
  <2> QED BY <1>1, <1>3, <2>2, <2>3 DEF lockX
<1>6. CASE ~ Stale(u)
  <2>1. StaleOn(docOf[u]) = {}
    BY <1>4, <1>6 DEF StaleOn
  <2> QED BY <1>1, <1>3, <2>1 DEF lockX
<1> QED BY <1>5, <1>6

\* A call, or a stretch after an await, that leaves the table alone adds no holder;
\* one that writes an entry writes that of a holder, for as long as it holds.
LEMMA CallKeepsHolders ==
  ASSUME LapseInv, NEW t \in Tx, docOf' = docOf,
         \A u \in Tx : Holding(u)' => HoldsLock(stateX[u], rollbackCompleteX[u]) \/ u = t,
         \/ lock' = lockX /\ (Holding(t)' => HoldsLock(stateX[t], rollbackCompleteX[t]))
         \/ Holding(t) /\ lock' = [lockX EXCEPT ![docOf[t]] = IF Holding(t)' THEN t ELSE None]
  PROVE  HolderIsLocked'
<1> SUFFICES ASSUME NEW u \in Tx, Holding(u)' PROVE lock'[docOf[u]] = u
  BY DEF HolderIsLocked
<1>t. lockX \in [Docs -> Tx \cup {None}]
  BY ExpireKeepsType DEF LapseInv
<1>1. CASE lock' = lockX /\ (Holding(t)' => HoldsLock(stateX[t], rollbackCompleteX[t]))
  BY <1>1, ExpiryHolds
<1>2. CASE Holding(t) /\ lock' = [lockX EXCEPT ![docOf[t]] = IF Holding(t)' THEN t ELSE None]
  <2>1. docOf[t] \in Docs /\ lock[docOf[t]] = t
    BY <1>2 DEF LapseInv, TypeOK, HolderIsLocked, Holding, HoldsLock
  <2>2. CASE u = t
    BY <1>t, <1>2, <2>1, <2>2
  <2>3. CASE u # t
    <3>1. Holding(u) /\ docOf[u] \in Docs /\ lockX[docOf[u]] = u
      BY <2>3, ExpiryHolds
    <3>2. docOf[u] # docOf[t]
      BY <2>1, <2>3, <3>1 DEF LapseInv, HolderIsLocked
    <3> QED BY <1>t, <1>2, <3>1, <3>2
  <2> QED BY <2>2, <2>3
<1> QED BY <1>1, <1>2

LEMMA AnswerKeepsHolders ==
  ASSUME LapseInv, NEW t \in Tx, docOf' = docOf,
         \A u \in Tx : Holding(u)' => Holding(u),
         \/ lock' = lock
         \/ Holding(t) /\ lock' = [lock EXCEPT ![docOf[t]] = IF Holding(t)' THEN t ELSE None]
  PROVE  HolderIsLocked'
<1> SUFFICES ASSUME NEW u \in Tx, Holding(u)' PROVE lock'[docOf[u]] = u
  BY DEF HolderIsLocked
<1>1. /\ lock \in [Docs -> Tx \cup {None}]
      /\ \A v \in Tx : Holding(v) => docOf[v] \in Docs /\ lock[docOf[v]] = v
  BY DEF LapseInv, TypeOK, HolderIsLocked, Holding, HoldsLock
<1>2. CASE lock' = lock
  BY <1>1, <1>2
<1>3. CASE Holding(t) /\ lock' = [lock EXCEPT ![docOf[t]] = IF Holding(t)' THEN t ELSE None]
  <2>1. CASE u = t
    BY <1>1, <1>3, <2>1
  <2>2. CASE u # t
    BY <1>1, <1>3, <2>2
  <2> QED BY <2>1, <2>2
<1> QED BY <1>2, <1>3

LEMMA NextUnsettled ==
  ASSUME Overlapping = {}, LapseInv, Next
  PROVE  \A u \in Tx : Unsettled(u)'
<1> USE DEF LapseInv
<1> SUFFICES ASSUME NEW u \in Tx PROVE Unsettled(u)'
  OBVIOUS
<1>x. /\ \A t \in Tx : \/ stateX[t] = state[t] /\ rollbackCompleteX[t] = rollbackComplete[t]
                       \/ state[t] \in Open /\ stateX[t] = "expired"
                       \/ state[t] \in Open /\ stateX[t] = "failed" /\ rollbackCompleteX[t] = "no"
      /\ stateX \in [Tx -> TxStates]
      /\ rollbackCompleteX \in [Tx -> {"unset", "no", "yes"}]
  BY ExpiryEnds, ExpireKeepsType
<1>t. state \in [Tx -> TxStates] /\ rollbackComplete \in [Tx -> {"unset", "no", "yes"}]
      /\ Unsettled(u)
  BY DEF TypeOK
\* the transaction is left as it is, or expires
<1>1. ASSUME ops'[u] = ops[u],
             \/ state'[u] = state[u] /\ rollbackComplete'[u] = rollbackComplete[u]
             \/ state'[u] = stateX[u] /\ rollbackComplete'[u] = rollbackCompleteX[u]
      PROVE  Unsettled(u)'
  BY <1>1, <1>x, <1>t DEF Unsettled, Pending
\* it becomes open, or nothing of it is in flight
<1>2. ASSUME state'[u] \in Open \/ (Pending(u)' = {} /\ state'[u] # "failed")
      PROVE  Unsettled(u)'
  BY <1>2 DEF Unsettled, Open
<1>3. CASE Get
  BY <1>1, <1>3 DEF Get, Expire
<1>4. ASSUME NEW t \in Tx, Lapse(t) PROVE Unsettled(u)'
  BY <1>1, <1>4 DEF Lapse
<1>5. ASSUME NEW t \in Tx, Call(t), u # t PROVE Unsettled(u)'
  <2>1. ops'[u] = ops[u] /\ state'[u] = stateX[u] /\ rollbackComplete'[u] = rollbackCompleteX[u]
    BY <1>5, <1>x DEF TypeOK, Call, Begin, BeginIf, RunCreate, RunAfterSnapshot, Validate,
       ValidateRefusing, Commit, CommitLeaving, RollbackNothing, Rollback, Reserve, Expire
  <2> QED BY <1>1, <2>1
<1>6. ASSUME NEW t \in Tx, Answer(t), u # t PROVE Unsettled(u)'
  <2>1. ops'[u] = ops[u] /\ state'[u] = state[u] /\ rollbackComplete'[u] = rollbackComplete[u]
    BY <1>6 DEF TypeOK, Answer, ReserveWithSnapshot, ReserveAfterAwait, SnapshotRefused,
       SettleApplied, SettleCancelled, SettleFailed, GatesAnswered, RollbackOperation,
       FinalizeRollback, Finalize, Reserve, SetOp
  <2> QED BY <1>1, <2>1
<1>7. ASSUME Call(u) PROVE Unsettled(u)'
  <2>1. CASE \E d \in Docs : Begin(u, d)
    BY <1>2, <1>x, <2>1 DEF Begin, BeginIf, Open
  <2>2. CASE RunCreate(u)
    BY <1>2, <1>x, <2>2 DEF RunCreate, CanReserve, Reserve, Open
  <2>3. CASE RunAfterSnapshot(u)
    BY <1>1, <2>3 DEF RunAfterSnapshot, Expire
  <2>4. CASE Validate(u) \/ Commit(u) \/ RollbackNothing(u) \/ \E k \in Loops : Rollback(u, k)
    <3>1. Pending(u) = {} /\ ops' = ops
      BY <2>4, CallsAlone DEF Validate, ValidateRefusing, Commit, CommitLeaving,
         RollbackNothing, Rollback
    <3>2. state'[u] \in {"validating", "committed", "rolled-back", "rolling-back"}
      BY <2>4, <1>x DEF Validate, ValidateRefusing, Commit, CommitLeaving, RollbackNothing,
         Rollback
    <3> QED BY <1>2, <3>1, <3>2 DEF Pending
  <2> QED BY <1>7, <2>1, <2>2, <2>3, <2>4 DEF Call
\* settling or restoring an operation
<1>8. ASSUME NEW i, NEW s \in OpStates, s # "pending", NEW c \in Compensations, SetOp(u, i, s, c),
             \/ state'[u] = state[u] /\ rollbackComplete'[u] = rollbackComplete[u]
             \/ state'[u] = "failed" /\ rollbackComplete'[u] = "no"
      PROVE  Unsettled(u)'
  <2>1. Pending(u)' \subseteq Pending(u)
    BY <1>8, SetOpSettles
  <2> QED BY <1>8, <1>t, <2>1 DEF Unsettled
<1>9. ASSUME Answer(u) PROVE Unsettled(u)'
  <2>1. CASE ReserveWithSnapshot(u)
    BY <1>2, <1>t, <2>1 DEF ReserveWithSnapshot, ReserveAfterAwait, CanReserve, Reserve, Open
  <2>2. CASE SnapshotRefused(u)
    BY <1>1, <2>2 DEF SnapshotRefused
  <2>3. ASSUME NEW i, SettleApplied(u, i) PROVE Unsettled(u)'
    BY <1>8, <2>3 DEF SettleApplied, OpStates, Compensations
  <2>4. ASSUME NEW i, NEW c \in {"not-needed", "restored"}, SettleCancelled(u, i, c)
        PROVE  Unsettled(u)'
    BY <1>8, <2>4 DEF SettleCancelled, OpStates, Compensations
  <2>5. ASSUME NEW i, SettleFailed(u, i) PROVE Unsettled(u)'
    BY <1>8, <1>t, <2>5 DEF SettleFailed, OpStates, Compensations
  <2>6. ASSUME NEW passed \in BOOLEAN, GatesAnswered(u, passed) PROVE Unsettled(u)'
    BY <1>2, <1>t, <2>6 DEF GatesAnswered, Open
  <2>7. ASSUME NEW k \in Loops, NEW restored \in BOOLEAN, RollbackOperation(u, k, restored)
        PROVE  Unsettled(u)'
    <3>1. PICK i : IF restored THEN SetOp(u, i, "rolled-back", "restored")
                               ELSE SetOp(u, i, "failed", "failed")
      BY <2>7 DEF RollbackOperation
    <3>2. state' = state /\ rollbackComplete' = rollbackComplete
      BY <2>7 DEF RollbackOperation
    <3>3. CASE restored
      BY <1>8, <3>1, <3>2, <3>3 DEF OpStates, Compensations
    <3>4. CASE ~ restored
      BY <1>8, <3>1, <3>2, <3>4 DEF OpStates, Compensations
    <3> QED BY <3>3, <3>4
  <2>8. ASSUME NEW k \in Loops, FinalizeRollback(u, k) PROVE Unsettled(u)'
    <3>1. Pending(u)' = {}
      BY <2>8, RollsBackAlone DEF FinalizeRollback, Finalize, Pending
    <3>2. state'[u] = "rolled-back" \/ (state'[u] = "failed" /\ rollbackComplete'[u] = "no")
      BY <1>t, <2>8 DEF FinalizeRollback, Finalize
    <3> QED BY <3>1, <3>2 DEF Unsettled
  <2> QED BY <1>9, <2>1, <2>2, <2>3, <2>4, <2>5, <2>6, <2>7, <2>8 DEF Answer
<1> QED BY <1>3, <1>4, <1>5, <1>6, <1>7, <1>9 DEF Next

LEMMA NextHolderIsLocked ==
  ASSUME Overlapping = {}, LapseInv, ExpiredIsFinal, Next
  PROVE  HolderIsLocked'
<1>x. /\ stateX \in [Tx -> TxStates]
      /\ rollbackCompleteX \in [Tx -> {"unset", "no", "yes"}]
      /\ lockX \in [Docs -> Tx \cup {None}]
      /\ \A t \in Tx : \/ stateX[t] = state[t] /\ rollbackCompleteX[t] = rollbackComplete[t]
                       \/ state[t] \in Open /\ Stale(t)
  BY ExpireKeepsType DEF LapseInv, Stale
<1>t. /\ state \in [Tx -> TxStates]
      /\ rollbackComplete \in [Tx -> {"unset", "no", "yes"}]
      /\ \A t \in Tx : state[t] = "failed" => rollbackComplete[t] = "no"
  BY DEF LapseInv, TypeOK, Unsettled
<1>1. CASE Get
  <2> SUFFICES ASSUME NEW u \in Tx, Holding(u)' PROVE lock'[docOf'[u]] = u
    BY DEF HolderIsLocked
  <2> QED BY <1>1, ExpiryHolds DEF Get, Expire, Holding
<1>2. ASSUME NEW t \in Tx, Lapse(t) PROVE HolderIsLocked'
  BY <1>2, AnswerKeepsHolders DEF Lapse, Holding
<1>3. ASSUME NEW t \in Tx, NEW d \in Docs, Begin(t, d) PROVE HolderIsLocked'
  <2> SUFFICES ASSUME NEW u \in Tx, Holding(u)' PROVE lock'[docOf'[u]] = u
    BY DEF HolderIsLocked
  <2>1. lockX[d] = None
    BY <1>3, ExpiryKeepsHolders DEF Begin, BeginIf, IsFree, LapseInv
  <2>2. CASE u = t
    BY <1>3, <1>x, <2>2 DEF Begin, BeginIf, LapseInv, TypeOK
  <2>3. CASE u # t
    <3>1. HoldsLock(stateX[u], rollbackCompleteX[u]) /\ docOf'[u] = docOf[u]
      BY <1>3, <1>x, <2>3 DEF Begin, BeginIf, Holding, LapseInv, TypeOK
    <3>2. docOf[u] \in Docs /\ lockX[docOf[u]] = u
      BY <3>1, ExpiryHolds
    <3>3. docOf[u] # d
      BY <2>1, <3>2, ConstantsAssumption
    <3> QED BY <1>3, <1>x, <3>1, <3>2, <3>3 DEF Begin, BeginIf
  <2> QED BY <2>2, <2>3
\* a call that finds the transaction open, and leaves it holding its document
<1>4. ASSUME NEW t \in Tx, \/ RunCreate(t) \/ RunAfterSnapshot(t) \/ Validate(t)
                           \/ \E k \in Loops : Rollback(t, k)
      PROVE  HolderIsLocked'
  <2>1. /\ lock' = lockX /\ rollbackComplete' = rollbackCompleteX /\ docOf' = docOf
        /\ \A u \in Tx : u # t => state'[u] = stateX[u]
    BY <1>4, <1>x DEF RunCreate, CanReserve, Reserve, RunAfterSnapshot, Expire, Validate,
       ValidateRefusing, Rollback
  <2>2. HoldsLock(stateX[t], rollbackCompleteX[t])
    <3>1. CASE RunCreate(t) \/ RunAfterSnapshot(t) \/ Validate(t)
      BY <3>1 DEF RunCreate, CanReserve, RunAfterSnapshot, Validate, ValidateRefusing, Open,
         HoldsLock
    <3>2. ASSUME NEW k \in Loops, Rollback(t, k)
          PROVE  HoldsLock(stateX[t], rollbackCompleteX[t])
      <4>1. stateX[t] \in Undoable /\ Unresolved(t) # {} /\ state'[t] = "rolling-back"
        BY <1>x, <3>2 DEF Rollback
      <4>2. state[t] # "expired"
        BY <4>1 DEF ExpiredIsFinal
      <4>3. CASE Stale(t)
        BY <4>1, <4>3 DEF stateX, rollbackCompleteX, HoldsLock
      <4>4. CASE ~ Stale(t)
        BY <1>x, <1>t, <4>1, <4>2, <4>4 DEF Undoable, HoldsLock
      <4> QED BY <4>3, <4>4
    <3> QED BY <1>4, <3>1, <3>2
  <2>3. \A u \in Tx : Holding(u)' => HoldsLock(stateX[u], rollbackCompleteX[u]) \/ u = t
    BY <2>1 DEF Holding
  <2> QED BY <2>1, <2>2, <2>3, CallKeepsHolders
\* a call that ends the transaction
<1>5. ASSUME NEW t \in Tx, Commit(t) \/ RollbackNothing(t) PROVE HolderIsLocked'
  <2>1. /\ lock' = [lockX EXCEPT ![docOf[t]] = None] /\ docOf' = docOf
        /\ \A u \in Tx : u # t => /\ state'[u] = stateX[u]
                                  /\ rollbackComplete'[u] = rollbackCompleteX[u]
        /\ state'[t] \in {"committed", "rolled-back"} /\ stateX[t] \in Undoable
    BY <1>5, <1>x DEF Commit, CommitLeaving, RollbackNothing, Undoable
  <2>2. state[t] # "expired"
    BY <2>1 DEF ExpiredIsFinal
  <2>3. Holding(t) /\ ~ Holding(t)'
    BY <1>x, <1>t, <2>1, <2>2 DEF Undoable, Open, Holding, HoldsLock
  <2>4. \A u \in Tx : Holding(u)' => HoldsLock(stateX[u], rollbackCompleteX[u]) \/ u = t
    BY <2>1 DEF Holding
  <2> QED BY <2>1, <2>3, <2>4, CallKeepsHolders
<1>6. ASSUME NEW t \in Tx,
             \/ SnapshotRefused(t) \/ \E i : SettleApplied(t, i)
             \/ \E i, c : SettleCancelled(t, i, c) \/ \E k, q : RollbackOperation(t, k, q)
             \/ ReserveWithSnapshot(t) \/ \E passed : GatesAnswered(t, passed)
      PROVE  HolderIsLocked'
  <2>1. /\ lock' = lock /\ docOf' = docOf /\ rollbackComplete' = rollbackComplete
        /\ \A u \in Tx : \/ state'[u] = state[u]
                         \/ state[u] \in Open \cup {"validating"}
    BY <1>6, <1>t DEF SnapshotRefused, SettleApplied, SettleCancelled, RollbackOperation,
       ReserveWithSnapshot, ReserveAfterAwait, CanReserve, Reserve, GatesAnswered
  <2>2. \A u \in Tx : Holding(u)' => Holding(u)
    BY <2>1 DEF Open, Holding, HoldsLock
  <2> QED BY <2>1, <2>2, AnswerKeepsHolders
\* a write that fails late, and a rollback that ends
<1>7. ASSUME NEW t \in Tx, (\E i : SettleFailed(t, i)) \/ \E k \in Loops : FinalizeRollback(t, k)
      PROVE  HolderIsLocked'
  <2>1. /\ docOf' = docOf
        /\ \A u \in Tx : u # t => /\ state'[u] = state[u]
                                  /\ rollbackComplete'[u] = rollbackComplete[u]
        /\ \/ lock' = [lock EXCEPT ![docOf[t]] = t]
              /\ state'[t] = "failed" /\ rollbackComplete'[t] = "no"
           \/ lock' = [lock EXCEPT ![docOf[t]] = None] /\ state'[t] = "rolled-back"
    BY <1>7, <1>t DEF SettleFailed, FinalizeRollback, Finalize, LapseInv, TypeOK
  <2>2. Holding(t)
    <3>1. ASSUME NEW i, SettleFailed(t, i) PROVE Holding(t)
      <4>1. i \in Pending(t) /\ state[t] # "expired"
        BY <3>1, <1>t DEF SettleFailed, Pending, ExpiredIsFinal
      <4>2. state[t] \in Open \cup {"failed"}
        BY <4>1 DEF LapseInv, Unsettled
      <4> QED BY <1>t, <4>2 DEF Holding, HoldsLock, Open
    <3>2. ASSUME NEW k \in Loops, FinalizeRollback(t, k) PROVE Holding(t)
      BY <3>2, RollsBackAlone DEF FinalizeRollback, Finalize, LapseInv, Holding, HoldsLock
    <3> QED BY <1>7, <3>1, <3>2
  <2>3. lock' = [lock EXCEPT ![docOf[t]] = IF Holding(t)' THEN t ELSE None]
    BY <2>1 DEF Holding, HoldsLock
  <2>4. \A u \in Tx : Holding(u)' => Holding(u)
    BY <2>1, <2>2 DEF Holding
  <2> QED BY <2>1, <2>2, <2>3, <2>4, AnswerKeepsHolders
<1> QED
  BY <1>1, <1>2, <1>3, <1>4, <1>5, <1>6, <1>7 DEF Next, Call, Answer

LEMMA NextLapseInv ==
  ASSUME Overlapping = {}, LapseInv, [Next /\ ExpiredIsFinal]_vars PROVE LapseInv'
<1>1. (TypeOK /\ LogInv /\ RollbackInv /\ LockEntryIsHolder)'
  BY NextTypeOK, NextLogInv, NextRollbackInv, NextLockEntryIsHolder DEF LapseInv
<1>2. CASE UNCHANGED vars
  BY <1>1, <1>2 DEF vars, LapseInv, Unsettled, Pending, HolderIsLocked, Holding
<1>3. CASE Next /\ ExpiredIsFinal
  BY <1>1, <1>3, NextUnsettled, NextHolderIsLocked DEF LapseInv
<1> QED BY <1>2, <1>3

LEMMA SpecLapseInv ==
  ASSUME Overlapping = {} PROVE Spec /\ [][ExpiredIsFinal]_vars => []LapseInv
<1>1. Init => LapseInv
  <2> SUFFICES ASSUME Init PROVE LapseInv
    OBVIOUS
  <2>1. TypeOK /\ LogInv /\ RollbackInv /\ LockEntryIsHolder
    BY InitPromptInv DEF PromptInv
  <2>2. \A t \in Tx : Unsettled(t) /\ ~ Holding(t)
    BY DEF Init, Unsettled, Pending, Holding, HoldsLock
  <2> QED BY <2>1, <2>2 DEF LapseInv, HolderIsLocked
<1>2. LapseInv /\ [Next]_vars /\ [ExpiredIsFinal]_vars => LapseInv'
  BY NextLapseInv
<1> QED BY <1>1, <1>2, PTL DEF Spec

-----------------------------------------------------------------------------
(***************************************************************************)
(* The theorems.                                                           *)
(***************************************************************************)

\* Only one unresolved transaction holds a document
\* (docs/architecture/production-schematic-engine.md:62), for clients that await each
\* call, wherever clocks lapse, as long as no transaction leaves "expired": neither a
\* write that fails late nor a rollback may come to one that has expired.  The code
\* excludes neither.
THEOREM HoldersAreSingle ==
  ASSUME Overlapping = {} PROVE Spec /\ [][ExpiredIsFinal]_vars => []SingleHolder
<1>1. LapseInv => SingleHolder
  BY DEF LapseInv, HolderIsLocked, SingleHolder
<1> QED BY <1>1, SpecLapseInv, PTL

\* For the same clients and under the same condition, a failed transaction keeps its
\* document locked until a rollback succeeds (production-schematic-engine.md:74).
THEOREM FailedStaysLocked ==
  ASSUME Overlapping = {} PROVE Spec /\ [][ExpiredIsFinal]_vars => []FailedKeepsLock
<1>1. LapseInv => FailedKeepsLock
  BY DEF LapseInv, HolderIsLocked, FailedKeepsLock, Unsettled, Holding, HoldsLock
<1> QED BY <1>1, SpecLapseInv, PTL

\* begin(), commit(), rollback() and the failures between them implement a lock
\* per document: a transaction takes its document's lock once, when it begins, and
\* gives it up once, when it ends.
THEOREM ManagerImplementsDocumentLock == ASSUME Prompt PROVE Spec => ImplementsDocumentLock
<1> DEFINE phase == [t \in Tx |-> IF state[t] = "unborn" THEN "unborn"
                                 ELSE IF Holding(t) THEN "open" ELSE "ended"]
<1>1. Init => Promise!Init
  <2> SUFFICES ASSUME Init PROVE Promise!Init
    OBVIOUS
  <2>1. \A t \in Tx : state[t] = "unborn"
    BY DEF Init
  <2>2. phase = [t \in Tx |-> "unborn"]
    BY <2>1
  <2> QED BY <2>2 DEF Init, Promise!Init
<1>2. PromptInv /\ [Next]_vars => [Promise!Next]_<<phase, lock>>
  <2> SUFFICES ASSUME PromptInv, [Next]_vars
               PROVE  Promise!Next \/ (phase' = phase /\ lock' = lock)
    OBVIOUS
  <2>1. CASE UNCHANGED vars
    BY <2>1 DEF vars, Holding
  <2>2. CASE Keeps
    <3>1. phase' = phase
      BY <2>2 DEF Keeps
    <3> QED BY <2>2, <3>1 DEF Keeps
  <2>3. ASSUME NEW t \in Tx, Gives(t) PROVE Promise!Next
    <3>1. docOf[t] \in Docs /\ state[t] # "unborn"
      BY <2>3 DEF Gives, PromptInv, TypeOK, Holding, HoldsLock
    <3>2. \A u \in Tx \ {t} : Holding(u)' <=> Holding(u)
      BY <2>3 DEF Gives, Holding
    <3>3. phase[t] = "open" /\ phase' = [phase EXCEPT ![t] = "ended"]
      BY <2>3, <3>1, <3>2 DEF Gives
    <3>4. lock[docOf[t]] = t /\ lock' = [lock EXCEPT ![docOf[t]] = None]
      BY <2>3 DEF Gives
    <3> QED BY <3>1, <3>3, <3>4 DEF Promise!Next, Promise!Release
  <2>4. ASSUME NEW t \in Tx, NEW d \in Docs, Takes(t, d) PROVE Promise!Next
    <3>1. Holding(t)' /\ \A u \in Tx \ {t} : Holding(u)' <=> Holding(u)
      BY <2>4 DEF Takes, Holding, HoldsLock
    <3>2. phase[t] = "unborn" /\ phase' = [phase EXCEPT ![t] = "open"]
      BY <2>4, <3>1 DEF Takes
    <3>3. lock[d] = None /\ lock' = [lock EXCEPT ![d] = t]
      BY <2>4 DEF Takes
    <3> QED BY <3>2, <3>3 DEF Promise!Next, Promise!Acquire
  <2> QED BY <2>1, <2>2, <2>3, <2>4, NextLocks DEF Keeps
<1> QED BY <1>1, <1>2, SpecPromptInv, PTL DEF Spec, ImplementsDocumentLock, Promise!Spec

=============================================================================
