-------------------------- MODULE TransactionManager --------------------------
(***************************************************************************)
(* The transaction manager of src/src/transactions/manager.ts: document-   *)
(* scoped transactions over an EasyEDA project, each a log of operations   *)
(* that is validated and committed, or rolled back.                        *)
(*                                                                         *)
(* Node runs the manager on one thread, so a stretch of code between two   *)
(* awaits is one action.  The hooks the manager awaits (snapshots, writes, *)
(* validation gates) are bridge calls: they may take any time and fail in  *)
(* any way, so an operation stays "pending" until one of the Settle        *)
(* actions and a rollback proceeds one operation at a time, with every     *)
(* other call free to run in between.                                      *)
(*                                                                         *)
(* What the writes do to the document is the subject of BatchWrite.tla;    *)
(* here an operation is only its state and how its compensation ended.     *)
(*                                                                         *)
(* A definition named Action_Slip is the action with a plausible slip in   *)
(* it: the runs show that the properties would notice.                     *)
(***************************************************************************)
EXTENDS Integers, Sequences

CONSTANTS
  Docs,      \* the documents (EasyEDA projects) clients work on
  MaxTx,     \* bound: how many transactions are ever begun
  MaxOps,    \* maxOperations of each transaction
  MaxReads,  \* bound: calls of one transaction that await their first snapshot
  Loops,     \* bound: rollback calls of one transaction that overlap
  Lapsing,   \* the transactions whose time to live may run out
  Overlapping, \* those whose clients do not await one call before the next
  None       \* no document, no transaction, no rollback

Tx == 1..MaxTx   \* in the order of creation, the order of the Map they live in

ASSUME ConstantsAssumption ==
  /\ MaxTx \in Nat /\ MaxOps \in [Tx -> Nat] /\ MaxReads \in Nat
  /\ Lapsing \subseteq Tx /\ Overlapping \subseteq Tx
  /\ None \notin Docs /\ None \notin Tx

VARIABLES
  docOf,             \* documentId of each transaction, None before begin
  state,             \* state of each transaction, "unborn" before begin
  rollbackComplete,  \* its rollbackComplete flag: "unset", "no" or "yes"
  ops,               \* its operations, in order of sequence number
  validations,       \* the log the recorded gate results speak of, None if []
  lock,              \* activeByDocument: the entry of each document
  reading,           \* calls that await a snapshot before they reserve
  loops,             \* per rollback call in progress: what it still has to do
  due                \* the transactions whose expiresAt has passed

vars == <<docOf, state, rollbackComplete, ops, validations, lock, reading,
          loops, due>>

TxStates == {"unborn", "active", "validating", "validated", "committed",
             "rolling-back", "rolled-back", "failed", "expired"}
OpStates == {"pending", "applied", "rolled-back", "cancelled", "failed"}
Compensations == {"unset", "not-needed", "restored", "failed"}
Operation == [state : OpStates, compensation : Compensations]
Rollbacks == [left : SUBSET Nat, failed : BOOLEAN]

TypeOK ==
  /\ docOf \in [Tx -> Docs \cup {None}]
  /\ state \in [Tx -> TxStates]
  /\ rollbackComplete \in [Tx -> {"unset", "no", "yes"}]
  /\ ops \in [Tx -> Seq(Operation)]
  /\ validations \in [Tx -> Seq(Operation) \cup {None}]
  /\ lock \in [Docs -> Tx \cup {None}]
  /\ reading \in [Tx -> Nat]
  /\ loops \in [Tx -> [Loops -> Rollbacks \cup {None}]]
  /\ due \subseteq Tx
  /\ \A t \in Tx : docOf[t] = None <=> state[t] = "unborn"
  /\ \A t \in Tx : state[t] = "unborn" =>
       ops[t] = << >> /\ reading[t] = 0 /\ \A k \in Loops : loops[t][k] = None

Init ==
  /\ docOf = [t \in Tx |-> None]
  /\ state = [t \in Tx |-> "unborn"]
  /\ rollbackComplete = [t \in Tx |-> "unset"]
  /\ ops = [t \in Tx |-> << >>]
  /\ validations = [t \in Tx |-> None]
  /\ lock = [d \in Docs |-> None]
  /\ reading = [t \in Tx |-> 0]
  /\ loops = [t \in Tx |-> [k \in Loops |-> None]]
  /\ due = {}

-----------------------------------------------------------------------------
(***************************************************************************)
(* Helpers.                                                                *)
(***************************************************************************)

Open == {"active", "validated"}   \* the states assertActive accepts

\* holdsDocumentLock, of a transaction in state s whose flag is r
HoldsLock(s, r) ==
  \/ s \in {"active", "validating", "validated", "rolling-back"}
  \/ s = "failed" /\ r = "no"

Holding(t) == HoldsLock(state[t], rollbackComplete[t])

Has(log, opStates) == \E i \in DOMAIN log : log[i].state \in opStates

\* an operation a rollback (or an expiry) has to undo
IsUnresolved(op) ==
  op.state = "applied" \/ (op.state = "failed" /\ op.compensation = "failed")

Unresolved(t) == {i \in DOMAIN ops[t] : IsUnresolved(ops[t][i])}

Idle(t) ==
  /\ reading[t] = 0
  /\ ~ Has(ops[t], {"pending"})
  /\ state[t] # "validating"
  /\ \A k \in Loops : loops[t][k] = None

\* Tools call the manager on behalf of their client: L1_schematic_batch awaits
\* each call before the next, but nothing stops two tools from overlapping.
MayCall(t) == state[t] # "unborn" /\ (t \in Overlapping \/ Idle(t))

(***************************************************************************)
(* expireStaleTransactions, which every call runs first: the state, the    *)
(* flags and the lock table as it leaves them.  It visits transactions in  *)
(* order of creation, so that of several on one document the last decides. *)
(***************************************************************************)
Stale(t) == t \in due /\ state[t] \in Open

StaleOn(d) == {t \in Tx : Stale(t) /\ docOf[t] = d}

LastWithWrites(d) ==
  {t \in StaleOn(d) : Unresolved(t) # {} /\ \A u \in StaleOn(d) : u <= t}

stateX ==
  [t \in Tx |-> IF ~ Stale(t) THEN state[t]
                ELSE IF Unresolved(t) # {} THEN "failed" ELSE "expired"]

rollbackCompleteX ==
  [t \in Tx |-> IF Stale(t) /\ Unresolved(t) # {} THEN "no"
                ELSE rollbackComplete[t]]

lockX ==
  [d \in Docs |-> IF StaleOn(d) = {} THEN lock[d]
                  ELSE IF LastWithWrites(d) = {} THEN None
                  ELSE CHOOSE t \in LastWithWrites(d) : TRUE]

Expire ==
  /\ state' = stateX
  /\ rollbackComplete' = rollbackCompleteX
  /\ lock' = lockX

\* The clock passes expiresAt; nothing notices until the next call.
Lapse(t) ==
  /\ t \in Lapsing \ due
  /\ state[t] # "unborn"
  /\ due' = due \cup {t}
  /\ UNCHANGED <<docOf, state, rollbackComplete, ops, validations, lock,
                 reading, loops>>

\* get, and every call that is refused: only the expiry takes effect.
Get ==
  /\ Expire
  /\ UNCHANGED <<docOf, ops, validations, reading, loops, due>>

-----------------------------------------------------------------------------
(***************************************************************************)
(* begin and the operations.                                               *)
(***************************************************************************)

BeginIf(t, d, docs, free) ==
  /\ state[t] = "unborn"
  /\ \A u \in Tx : u < t => state[u] # "unborn"
  /\ free
  /\ docOf' = docs
  /\ state' = [stateX EXCEPT ![t] = "active"]
  /\ rollbackComplete' = rollbackCompleteX
  /\ lock' = [lockX EXCEPT ![d] = t]
  /\ UNCHANGED <<ops, validations, reading, loops, due>>

IsFree(d) ==
  lockX[d] # None => ~ HoldsLock(stateX[lockX[d]], rollbackCompleteX[lockX[d]])

\* slip: the document is not stored
Begin_NoDocument(t, d) == BeginIf(t, d, docOf, IsFree(d))

Begin(t, d) == BeginIf(t, d, [docOf EXCEPT ![t] = d], IsFree(d))

Reserved == [state |-> "pending", compensation |-> "unset"]

CanReserve(t, s) == s \in Open /\ Len(ops[t]) < MaxOps[t]

\* what reserveOperation does to the transaction, in state s on entry
Reserve(t, s) ==
  /\ ops' = [ops EXCEPT ![t] = Append(@, Reserved)]
  /\ validations' = [validations EXCEPT ![t] = None]
  /\ state' = [s EXCEPT ![t] = IF @ = "validated" THEN "active" ELSE @]

\* runCreate reserves at once
RunCreate(t) ==
  /\ MayCall(t)
  /\ CanReserve(t, stateX[t])
  /\ Reserve(t, stateX)
  /\ rollbackComplete' = rollbackCompleteX
  /\ lock' = lockX
  /\ UNCHANGED <<docOf, reading, loops, due>>

\* runModify and runDelete await the before-snapshot first ...
RunAfterSnapshot(t) ==
  /\ MayCall(t)
  /\ stateX[t] \in Open
  /\ reading[t] < MaxReads
  /\ reading' = [reading EXCEPT ![t] = @ + 1]
  /\ Expire
  /\ UNCHANGED <<docOf, ops, validations, loops, due>>

\* ... and reserve when it arrives, checking the transaction again
ReserveAfterAwait(t, check) ==
  /\ reading[t] > 0
  /\ check
  /\ Reserve(t, state)
  /\ reading' = [reading EXCEPT ![t] = @ - 1]
  /\ UNCHANGED <<docOf, rollbackComplete, lock, loops, due>>

\* slip: the state is not checked again after the await
ReserveWithSnapshot_Unchecked(t) == ReserveAfterAwait(t, Len(ops[t]) < MaxOps[t])

ReserveWithSnapshot(t) == ReserveAfterAwait(t, CanReserve(t, state[t]))

\* the snapshot cannot be read, is too large, or comes too late to reserve
SnapshotRefused(t) ==
  /\ reading[t] > 0
  /\ reading' = [reading EXCEPT ![t] = @ - 1]
  /\ UNCHANGED <<docOf, state, rollbackComplete, ops, validations, lock,
                 loops, due>>

SetOp(t, i, s, c) ==
  ops' = [ops EXCEPT ![t][i] = [state |-> s, compensation |-> c]]

\* the write and its verification succeeded
SettleApplied(t, i) ==
  /\ i \in DOMAIN ops[t] /\ ops[t][i].state = "pending"
  /\ SetOp(t, i, "applied", "unset")
  /\ UNCHANGED <<docOf, state, rollbackComplete, validations, lock, reading,
                 loops, due>>

\* the write failed, and left nothing or was undone
SettleCancelled(t, i, compensation) ==
  /\ i \in DOMAIN ops[t] /\ ops[t][i].state = "pending"
  /\ SetOp(t, i, "cancelled", compensation)
  /\ UNCHANGED <<docOf, state, rollbackComplete, validations, lock, reading,
                 loops, due>>

\* the write failed and could not be undone: failTransaction
SettleFailed(t, i) ==
  /\ i \in DOMAIN ops[t] /\ ops[t][i].state = "pending"
  /\ SetOp(t, i, "failed", "failed")
  /\ state' = [state EXCEPT ![t] = "failed"]
  /\ rollbackComplete' = [rollbackComplete EXCEPT ![t] = "no"]
  /\ lock' = [lock EXCEPT ![docOf[t]] = t]
  /\ UNCHANGED <<docOf, validations, reading, loops, due>>

-----------------------------------------------------------------------------
(***************************************************************************)
(* validate and commit.                                                    *)
(***************************************************************************)

ValidateRefusing(t, opStates) ==
  /\ MayCall(t)
  /\ stateX[t] \in Open
  /\ ~ Has(ops[t], opStates)
  /\ state' = [stateX EXCEPT ![t] = "validating"]
  /\ rollbackComplete' = rollbackCompleteX
  /\ lock' = lockX
  /\ UNCHANGED <<docOf, ops, validations, reading, loops, due>>

\* slip: operations in flight are overlooked
Validate_IgnoresPending(t) == ValidateRefusing(t, {"failed"})

Validate(t) == ValidateRefusing(t, {"pending", "failed"})

\* The last gate has answered; the results speak of the log it was shown.
GatesAnswered(t, passed) ==
  /\ state[t] = "validating"
  /\ validations' = [validations EXCEPT ![t] = ops[t]]
  /\ state' = [state EXCEPT ![t] = IF passed THEN "validated" ELSE "active"]
  /\ UNCHANGED <<docOf, rollbackComplete, ops, lock, reading, loops, due>>

CommitLeaving(t, locks) ==
  /\ MayCall(t)
  /\ stateX[t] = "validated"
  /\ ~ Has(ops[t], {"pending", "failed"})
  /\ state' = [stateX EXCEPT ![t] = "committed"]
  /\ rollbackComplete' = [rollbackCompleteX EXCEPT ![t] = "unset"]
  /\ lock' = locks
  /\ UNCHANGED <<docOf, ops, validations, reading, loops, due>>

\* slip: the lock entry is left for begin to clear
Commit_KeepsEntry(t) == CommitLeaving(t, lockX)

Commit(t) == CommitLeaving(t, [lockX EXCEPT ![docOf[t]] = None])

-----------------------------------------------------------------------------
(***************************************************************************)
(* rollback: the candidates are chosen once, and undone newest first.      *)
(***************************************************************************)

\* slips: a commit can be undone; a failed rollback cannot be tried again
Undoable_WithCommitted == {"active", "validated", "failed", "expired", "committed"}
Undoable_WithoutFailed == {"active", "validated", "expired"}

Undoable == {"active", "validated", "failed", "expired"}

\* with nothing to undo the call finishes without an await
RollbackNothing(t) ==
  /\ MayCall(t)
  /\ stateX[t] \in Undoable
  /\ Unresolved(t) = {}
  /\ state' = [stateX EXCEPT ![t] = "rolled-back"]
  /\ rollbackComplete' = [rollbackCompleteX EXCEPT ![t] = "yes"]
  /\ lock' = [lockX EXCEPT ![docOf[t]] = None]
  /\ UNCHANGED <<docOf, ops, validations, reading, loops, due>>

Rollback(t, k) ==
  /\ MayCall(t)
  /\ stateX[t] \in Undoable
  /\ Unresolved(t) # {}
  /\ loops[t][k] = None
  /\ state' = [stateX EXCEPT ![t] = "rolling-back"]
  /\ loops' = [loops EXCEPT ![t][k] = [left |-> Unresolved(t), failed |-> FALSE]]
  /\ rollbackComplete' = rollbackCompleteX
  /\ lock' = lockX
  /\ UNCHANGED <<docOf, ops, validations, reading, due>>

NewestOf(S) == {i \in S : \A j \in S : j <= i}

\* rollbackOperation: restore the newest operation left, and verify it
RollbackOperation(t, k, restored) ==
  /\ loops[t][k] # None
  /\ \E i \in NewestOf(loops[t][k].left) :
       /\ IF restored THEN SetOp(t, i, "rolled-back", "restored")
                      ELSE SetOp(t, i, "failed", "failed")
       /\ loops' = [loops EXCEPT
             ![t][k] = [left |-> @.left \ {i}, failed |-> @.failed \/ ~ restored]]
  /\ UNCHANGED <<docOf, state, rollbackComplete, validations, lock, reading, due>>

\* finalizeRollback, given the verdict and the lock table it leaves
Finalize(t, k, complete, locks) ==
  /\ loops[t][k] # None
  /\ loops[t][k].left = {}
  /\ state' = [state EXCEPT ![t] = IF complete THEN "rolled-back" ELSE "failed"]
  /\ rollbackComplete' = [rollbackComplete EXCEPT ![t] = IF complete THEN "yes" ELSE "no"]
  /\ lock' = locks
  /\ loops' = [loops EXCEPT ![t][k] = None]
  /\ UNCHANGED <<docOf, ops, validations, reading, due>>

Complete(t, k) == loops[t][k].failed = FALSE

\* slip: failed restores are not counted
FinalizeRollback_IgnoresFailures(t, k) ==
  Finalize(t, k, TRUE, [lock EXCEPT ![docOf[t]] = None])

FinalizeRollback(t, k) ==
  Finalize(t, k, Complete(t, k),
           [lock EXCEPT ![docOf[t]] = IF Complete(t, k) THEN None ELSE t])

-----------------------------------------------------------------------------
Call(t) ==
  \/ \E d \in Docs : Begin(t, d)
  \/ RunCreate(t)
  \/ RunAfterSnapshot(t)
  \/ Validate(t)
  \/ Commit(t)
  \/ RollbackNothing(t)
  \/ \E k \in Loops : Rollback(t, k)

Answer(t) ==
  \/ ReserveWithSnapshot(t)
  \/ SnapshotRefused(t)
  \/ \E i \in 1..MaxOps[t] :
       \/ SettleApplied(t, i)
       \/ \E c \in {"not-needed", "restored"} : SettleCancelled(t, i, c)
       \/ SettleFailed(t, i)
  \/ \E passed \in BOOLEAN : GatesAnswered(t, passed)
  \/ \E k \in Loops :
       \/ \E restored \in BOOLEAN : RollbackOperation(t, k, restored)
       \/ FinalizeRollback(t, k)

Next == Get \/ \E t \in Tx : Lapse(t) \/ Call(t) \/ Answer(t)

Spec == Init /\ [][Next]_vars

-----------------------------------------------------------------------------
(***************************************************************************)
(* Properties that hold however calls overlap and whenever clocks lapse.   *)
(***************************************************************************)

\* An entry of the lock table always names a transaction of that document that
\* still holds its lock: every path that ends a transaction (commit, expiry,
\* rollback) clears the entry in the same step, so begin() never meets the
\* stale entry it is written to clear.
LockEntryIsHolder ==
  \A d \in Docs : lock[d] # None => docOf[lock[d]] = d /\ Holding(lock[d])

\* What validate() approved is what commit() commits: from the moment the gates
\* answer, no operation joins the log, settles or is undone, although callers
\* of runModify and runDelete may be waiting with a snapshot in hand.
CommittedAsValidated ==
  \A t \in Tx : state[t] \in {"validated", "committed"} => validations[t] = ops[t]

\* While the gates run, and from then until the transaction ends, no operation
\* is in flight or failed; one that was rolled back is never approved.
ApprovedLogSettled ==
  \A t \in Tx : state[t] \in {"validating", "validated", "committed"} =>
    \A i \in DOMAIN ops[t] : ops[t][i].state \in {"applied", "cancelled"}

\* A failed transaction always demands a rollback: "failed" and its flag move
\* together through failTransaction, expiry and finalizeRollback.
FailedDemandsRollback ==
  \A t \in Tx :
    /\ state[t] = "failed" => rollbackComplete[t] = "no"
    /\ state[t] = "rolled-back" => rollbackComplete[t] = "yes"

\* Once a transaction has failed, expired or begun to roll back it is never
\* worked on, approved or committed again, whichever of its calls are still
\* awaiting an answer; and a committed one never changes at all.
Ended == {"committed", "rolling-back", "rolled-back", "failed", "expired"}

EndedStaysEnded ==
  [][\A t \in Tx : state[t] \in Ended =>
       /\ state'[t] \in Ended
       /\ state[t] = "committed" => state'[t] = "committed" /\ ops'[t] = ops[t]
       /\ state'[t] = "committed" => state[t] = "committed"]_vars

(***************************************************************************)
(* A property of the transactions whose clients await each call.           *)
(***************************************************************************)

\* rollback() reports "rolled-back" only when nothing of the transaction is
\* left: no operation is applied, failed or still to land.
RolledBackIsClean ==
  \A t \in Tx \ Overlapping : state[t] = "rolled-back" =>
    ~ Has(ops[t], {"pending", "applied", "failed"})

(***************************************************************************)
(* Properties that need every client to await each call (Overlapping = {}) *)
(* and to finish before its time to live runs out (Lapsing = {}), or at    *)
(* least that nothing comes to a transaction after it has expired.         *)
(***************************************************************************)

\* Only one unresolved transaction holds a document
\* (docs/architecture/production-schematic-engine.md:62).
SingleHolder ==
  \A t, u \in Tx : Holding(t) /\ Holding(u) /\ docOf[t] = docOf[u] => t = u

\* A failed transaction keeps its document locked until a rollback succeeds
\* (production-schematic-engine.md:74), whatever happens to older transactions.
FailedKeepsLock ==
  \A t \in Tx : state[t] = "failed" => lock[docOf[t]] = t

\* The manager implements DocumentLock: a transaction is open exactly as long
\* as it holds its lock, and the table is the owner function.
Promise == INSTANCE DocumentLock WITH
  phase <- [t \in Tx |-> IF state[t] = "unborn" THEN "unborn"
                         ELSE IF Holding(t) THEN "open" ELSE "ended"],
  owner <- lock

ImplementsDocumentLock == Promise!Spec

(***************************************************************************)
(* Liveness.  Every hook answers, in one way or another, since each bridge *)
(* call has a time-out: the await in progress ends.  Nothing is assumed of *)
(* the clients, nor that a restore ever succeeds.                          *)
(***************************************************************************)
HooksAnswer(t) ==
  /\ WF_vars(SnapshotRefused(t))
  /\ \A i \in 1..MaxOps[t] :
       WF_vars(SettleApplied(t, i) \/ SettleCancelled(t, i, "restored") \/ SettleFailed(t, i))
  /\ WF_vars(\E passed \in BOOLEAN : GatesAnswered(t, passed))
  /\ \A k \in Loops :
       /\ WF_vars(\E restored \in BOOLEAN : RollbackOperation(t, k, restored))
       /\ WF_vars(FinalizeRollback(t, k))

FairSpec == Spec /\ \A t \in Tx : HooksAnswer(t)

RollbackCall(t) == RollbackNothing(t) \/ \E k \in Loops : Rollback(t, k)

RestoreFails(t) == \E k \in Loops : RollbackOperation(t, k, FALSE)

\* A transaction that holds its document for ever has a client that stops asking
\* for a rollback which the manager would begin, or restores that fail again and
\* again, as that of a create without an id does (easyeda.ts:70).  No order of late
\* answers, lapses and other calls does it alone: whatever has failed, the pending
\* answers lead to a state in which rollback() is accepted, and a rollback whose
\* restores all succeed ends the transaction.
LocksAreReleased ==
  \A t \in Tx : <>[]Holding(t) =>
    \/ []<>(ENABLED <<RollbackCall(t)>>_vars) /\ <>[][~RollbackCall(t)]_vars
    \/ []<><<RestoreFails(t)>>_vars

=============================================================================
