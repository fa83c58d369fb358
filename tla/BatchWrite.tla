------------------------------ MODULE BatchWrite ------------------------------
(***************************************************************************)
(* easyeda_schematic_batch_write over one schematic: the tool of           *)
(* src/src/tools/L1_schematic_batch.ts, the hooks that it and              *)
(* src/src/transactions/easyeda.ts give the transaction manager, and what  *)
(* both do to the drawing through the bridge.                              *)
(*                                                                         *)
(* TransactionManager.tla has the manager's calls overlap and abstracts    *)
(* the drawing away.  Here one client awaits every call, the drawing is    *)
(* explicit, and the question is whether it is what the manager believes:  *)
(* every write may be refused, or land although its answer is lost, and    *)
(* every read that verifies a write may fail.                              *)
(*                                                                         *)
(* A bridge call and the reads that follow it are one step: nothing else   *)
(* writes to the drawing, and the clock is checked between the steps.      *)
(***************************************************************************)
EXTENDS Integers, Sequences, FiniteSets

CONSTANTS
  Values,      \* what a primitive can look like
  Absent,      \* a primitive that is not in the drawing
  Drawing,     \* the drawing at the start: Drawing[id] for id in 1..Len(Drawing)
  MaxId,       \* bound: primitive ids EasyEDA ever hands out
  Batches,     \* the operation lists clients send
  MaxBatches,  \* bound: batches sent
  CallerOwned, \* BOOLEAN: a client may open the transaction itself
  FaultyRuns,  \* the kinds of operation whose bridge calls may fail ...
  FaultyUndos, \* ... and those whose compensation or restore may
  MaxFaults,   \* bound: bridge calls that fail
  Lapses       \* BOOLEAN: the time to live of the transaction may run out

Ids == 1..MaxId
Unknown == 0   \* the target of a create whose id is not known
Kinds == {"create", "modify", "delete"}

\* an operation of a batch, as the input schema admits it
Requests ==
  [kind : {"create"}, target : {Unknown}, value : Values] \cup
  [kind : {"modify"}, target : Ids, value : Values] \cup
  [kind : {"delete"}, target : Ids, value : {Absent}]

\* the schema's guard: one modification or deletion per primitive and batch
OneWritePerTarget(batch) ==
  \A i, j \in DOMAIN batch :
    batch[i].target = batch[j].target /\ batch[i].kind # "create" => i = j

ASSUME BatchAssumption ==
  /\ Absent \notin Values
  /\ MaxId \in Nat /\ MaxBatches \in Nat /\ MaxFaults \in Nat
  /\ Drawing \in Seq(Values) /\ Len(Drawing) <= MaxId
  /\ \A b \in Batches : b \in Seq(Requests) /\ OneWritePerTarget(b) /\ b # << >>
  /\ FaultyRuns \subseteq Kinds /\ FaultyUndos \subseteq Kinds
  /\ CallerOwned \in BOOLEAN /\ Lapses \in BOOLEAN

VARIABLES
  doc,       \* the drawing: what each primitive id looks like, or Absent
  original,  \* the drawing when the transaction began
  fresh,     \* the next id EasyEDA hands out
  tx,        \* state of the transaction, "none" before the first
  owned,     \* the transaction was begun by the client, not by a batch
  log,       \* its operations
  batch,     \* the operations of the batch in progress still to be run
  step,      \* what the batch tool, or the rollback tool, is doing
  born,      \* what the failing create really created, Unknown if nothing
  todo,      \* the operations the rollback in progress still has to restore
  missed,    \* it has failed to restore one
  reply,     \* the last answer to the client
  sent,      \* batches sent
  faults,    \* bridge calls that failed
  due        \* expiresAt has passed

vars == <<doc, original, fresh, tx, owned, log, batch, step, born, todo, missed,
          reply, sent, faults, due>>

drawing == <<doc, fresh, born, faults>>
rollingBack == <<todo, missed>>

Entry == [kind : Kinds, target : Ids \cup {Unknown}, value : Values \cup {Absent},
          before : Values \cup {Absent},
          state : {"pending", "applied", "cancelled", "failed", "rolled-back"}]

TypeOK ==
  /\ doc \in [Ids -> Values \cup {Absent}] /\ original \in [Ids -> Values \cup {Absent}]
  /\ fresh \in 1..(MaxId + 1)
  /\ tx \in {"none", "active", "committed", "rolling-back", "rolled-back", "failed", "expired"}
  /\ log \in Seq(Entry) /\ batch \in Seq(Requests)
  /\ step \in {"idle", "run", "compensate", "fail", "restore"}
  /\ born \in Ids \cup {Unknown} /\ todo \subseteq DOMAIN log
  /\ reply \in {"none", "success", "refused", "error", "rolled-back", "not-rolled-back"}
  /\ owned \in BOOLEAN /\ missed \in BOOLEAN /\ due \in BOOLEAN
  /\ sent \in 0..MaxBatches /\ faults \in 0..MaxFaults

Init ==
  /\ doc = [id \in Ids |-> IF id \in DOMAIN Drawing THEN Drawing[id] ELSE Absent]
  /\ original = doc
  /\ fresh = Len(Drawing) + 1
  /\ tx = "none" /\ owned = FALSE /\ log = << >>
  /\ batch = << >> /\ step = "idle" /\ born = Unknown
  /\ todo = {} /\ missed = FALSE
  /\ reply = "none" /\ sent = 0 /\ faults = 0 /\ due = FALSE

-----------------------------------------------------------------------------
(***************************************************************************)
(* The transaction, as every call of the manager finds it.                 *)
(***************************************************************************)

IsUnresolved(e) == e.state \in {"applied", "failed"}

\* slip: operations are numbered from 0, as their sequence field is
Unresolved_FromZero == {i - 1 : i \in {j \in DOMAIN log : IsUnresolved(log[j])}}

Unresolved == {i \in DOMAIN log : IsUnresolved(log[i])}

\* expireStaleTransactions
txX == IF ~ (due /\ tx = "active") THEN tx
       ELSE IF Unresolved # {} THEN "failed" ELSE "expired"

Lapse ==
  /\ Lapses /\ ~ due /\ tx # "none"
  /\ due' = TRUE
  /\ UNCHANGED <<drawing, original, tx, owned, log, batch, step, rollingBack, reply, sent>>

\* a status call on this or on another transaction
Status ==
  /\ tx' = txX
  /\ UNCHANGED <<drawing, original, owned, log, batch, step, rollingBack, reply, sent, due>>

Locking == {"active", "failed", "rolling-back"}   \* holdsDocumentLock

\* begin, when the document is free
BeginTx(byClient) ==
  /\ txX \notin Locking
  /\ tx' = "active" /\ due' = FALSE /\ owned' = byClient
  /\ log' = << >> /\ original' = doc

\* easyeda_project_begin_transaction
BeginOwned ==
  /\ CallerOwned /\ step = "idle"
  /\ BeginTx(TRUE)
  /\ reply' = "none"
  /\ UNCHANGED <<drawing, batch, step, rollingBack, sent>>

\* easyeda_project_validate_transaction and easyeda_project_commit_transaction
CommitOwned ==
  /\ owned /\ step = "idle" /\ txX = "active"
  /\ \A i \in DOMAIN log : log[i].state \notin {"pending", "failed"}
  /\ tx' = "committed" /\ reply' = "none"
  /\ UNCHANGED <<drawing, original, owned, log, batch, step, rollingBack, sent, due>>

-----------------------------------------------------------------------------
(***************************************************************************)
(* A batch: preflight, session, then its operations in order.              *)
(***************************************************************************)

\* preflightDeleteOperations: the snapshot of a primitive to delete is missing
Preflight(b) == \A i \in DOMAIN b : b[i].kind = "delete" => doc[b[i].target] # Absent

MaySend(b) == step = "idle" /\ sent < MaxBatches /\ sent' = sent + 1 /\ b \in Batches

\* the error comes before the session is engaged: nothing is rolled back
BatchRefused(b) ==
  /\ MaySend(b)
  /\ \/ ~ Preflight(b) /\ tx' = tx
     \/ Preflight(b) /\ txX \in Locking /\ tx' = txX   \* begin finds the document locked
  /\ reply' = "refused"
  /\ UNCHANGED <<drawing, original, owned, log, batch, step, rollingBack, due>>

OpenBatch(b) ==
  /\ MaySend(b) /\ Preflight(b)
  /\ batch' = b /\ step' = "run" /\ reply' = "none"
  /\ \/ /\ owned
        /\ tx' = txX
        /\ UNCHANGED <<original, owned, log, due>>
     \/ BeginTx(FALSE)
  /\ UNCHANGED <<drawing, rollingBack>>

Request == Head(batch)
Running(kind) == step = "run" /\ batch # << >> /\ Request.kind = kind
MayFail(kind) == kind \in FaultyRuns /\ faults < MaxFaults
UndoMayFail(kind) == kind \in FaultyUndos /\ faults < MaxFaults

NewEntry(target, before, state) ==
  [kind |-> Request.kind, target |-> target, value |-> Request.value,
   before |-> before, state |-> state]

Record(entry) ==
  /\ log' = Append(log, entry)
  /\ batch' = Tail(batch)
  /\ step' = IF entry.state = "applied" THEN "run" ELSE "compensate"

\* An operation that fails before it is reserved: its listing or snapshot
\* cannot be read, or the transaction is no longer active.
OperationRefused ==
  /\ step = "run" /\ batch # << >>
  /\ \/ txX # "active" /\ faults' = faults
     \/ Request.kind # "create" /\ doc[Request.target] = Absent /\ faults' = faults
     \/ MayFail(Request.kind) /\ faults' = faults + 1
  /\ tx' = txX /\ step' = "fail"
  /\ UNCHANGED <<doc, fresh, born, original, owned, log, batch, rollingBack, reply, sent, due>>

\* The write is answered and verified; or a call fails: then the write landed
\* or not, and the manager knows the id of what it created or not.
RunCreateIf(reserved) ==
  /\ Running("create") /\ reserved /\ fresh \in Ids
  /\ \/ /\ doc' = [doc EXCEPT ![fresh] = Request.value] /\ fresh' = fresh + 1
        /\ Record(NewEntry(fresh, Absent, "applied"))
        /\ UNCHANGED <<born, faults>>
     \/ /\ MayFail("create") /\ faults' = faults + 1
        /\ \/ /\ doc' = [doc EXCEPT ![fresh] = Request.value] /\ fresh' = fresh + 1
              /\ born' = fresh
              /\ \E known \in {fresh, Unknown} : Record(NewEntry(known, Absent, "pending"))
           \/ /\ UNCHANGED <<doc, fresh>>
              /\ born' = Unknown
              /\ Record(NewEntry(Unknown, Absent, "pending"))
  /\ tx' = txX
  /\ UNCHANGED <<original, owned, rollingBack, reply, sent, due>>

\* slip: the operation is not reserved before it is written
RunCreate_Unreserved == RunCreateIf(TRUE)

RunCreate == RunCreateIf(txX = "active")

RunWrite(kind) ==
  /\ Running(kind) /\ txX = "active" /\ doc[Request.target] # Absent
  /\ LET write == [doc EXCEPT ![Request.target] = Request.value]
         entry(s) == NewEntry(Request.target, doc[Request.target], s)
     IN \/ doc' = write /\ Record(entry("applied")) /\ faults' = faults
        \/ /\ MayFail(kind) /\ faults' = faults + 1
           /\ doc' \in {doc, write}
           /\ Record(entry("pending"))
  /\ tx' = txX
  /\ UNCHANGED <<original, fresh, born, owned, rollingBack, reply, sent, due>>

RunModify == RunWrite("modify")
RunDelete == RunWrite("delete")

-----------------------------------------------------------------------------
(***************************************************************************)
(* The compensation of an operation that failed after it was reserved.     *)
(***************************************************************************)

Now == Len(log)
Failing(kind) == step = "compensate" /\ log[Now].kind = kind

\* recordFailedOperation
Settle(target, compensated) ==
  /\ log' = [log EXCEPT ![Now].target = target,
                        ![Now].state = IF compensated THEN "cancelled" ELSE "failed"]
  /\ tx' = IF compensated THEN tx ELSE "failed"
  /\ step' = "fail"
  /\ UNCHANGED <<original, owned, batch, rollingBack, reply, sent, due>>

\* reconcile the inventory unless the id is known, then remove what was created
CompensateCreate ==
  /\ Failing("create")
  /\ LET removed == IF born = Unknown THEN doc ELSE [doc EXCEPT ![born] = Absent]
     IN \/ doc' = removed /\ Settle(born, TRUE) /\ faults' = faults
        \/ /\ UndoMayFail("create") /\ faults' = faults + 1
           /\ \/ log[Now].target = Unknown /\ doc' = doc /\ Settle(Unknown, FALSE)
              \/ born # Unknown /\ doc' \in {doc, removed} /\ Settle(born, FALSE)
  /\ UNCHANGED <<fresh, born>>

\* restore the snapshot unless a read shows that nothing changed
CompensateModify ==
  /\ Failing("modify")
  /\ LET e == log[Now]
         restored == [doc EXCEPT ![e.target] = e.before]
     IN \/ doc' = restored /\ Settle(e.target, TRUE) /\ faults' = faults
        \/ /\ UndoMayFail("modify") /\ faults' = faults + 1
           /\ \/ doc' = restored /\ Settle(e.target, TRUE)    \* the first read failed
              \/ doc' \in {doc, restored} /\ Settle(e.target, FALSE)
  /\ UNCHANGED <<fresh, born>>

\* recreate the primitive if it is gone
CompensateDelete ==
  /\ Failing("delete")
  /\ LET e == log[Now]
         gone == doc[e.target] = Absent
         recreated == [doc EXCEPT ![fresh] = e.before]
     IN \/ ~ gone /\ Settle(e.target, TRUE) /\ UNCHANGED <<doc, fresh, faults>>
        \/ /\ gone /\ fresh \in Ids
           /\ doc' = recreated /\ fresh' = fresh + 1 /\ faults' = faults
           /\ Settle(e.target, TRUE)
        \/ /\ UndoMayFail("delete") /\ faults' = faults + 1
           /\ \/ UNCHANGED <<doc, fresh>>
              \/ gone /\ fresh \in Ids /\ doc' = recreated /\ fresh' = fresh + 1
           /\ Settle(e.target, FALSE)
  /\ UNCHANGED born

-----------------------------------------------------------------------------
(***************************************************************************)
(* The end of a batch, and the rollback.                                   *)
(***************************************************************************)

\* successfulBatchResponse: an internal transaction is validated and committed.
\* Its promise is returned, not awaited: when validate() or commit() refuses,
\* the catch that would roll back does not see it.
FinishBatch ==
  /\ step = "run" /\ batch = << >>
  /\ step' = "idle"
  /\ IF owned THEN tx' = txX /\ reply' = "success"
     ELSE IF txX = "active" THEN tx' = "committed" /\ reply' = "success"
     ELSE tx' = txX /\ reply' = "error"
  /\ UNCHANGED <<drawing, original, owned, log, batch, rollingBack, sent, due>>

CanRollback == txX \in {"active", "failed", "expired"}

StartRollback ==
  /\ tx' = "rolling-back" /\ step' = "restore"
  /\ todo' = Unresolved /\ missed' = FALSE /\ reply' = "none" /\ batch' = << >>
  /\ UNCHANGED <<drawing, original, owned, log, sent, due>>

\* slip: a caller-owned transaction is left to its caller
FailBatch_LeavesOwned ==
  /\ step = "fail"
  /\ \/ ~ owned /\ CanRollback /\ StartRollback
     \/ /\ owned \/ ~ CanRollback
        /\ tx' = txX /\ step' = "idle" /\ batch' = << >> /\ reply' = "not-rolled-back"
        /\ UNCHANGED <<drawing, original, owned, log, rollingBack, sent, due>>

\* rollbackBatchSession, from the catch of the batch handler
FailBatch ==
  /\ step = "fail"
  /\ \/ CanRollback /\ StartRollback
     \/ /\ ~ CanRollback
        /\ tx' = txX /\ step' = "idle" /\ batch' = << >> /\ reply' = "not-rolled-back"
        /\ UNCHANGED <<drawing, original, owned, log, rollingBack, sent, due>>

\* easyeda_project_rollback_transaction, which may be tried again and again
RollbackTool == step = "idle" /\ CanRollback /\ StartRollback

\* slip: restore in the order of execution
NextToRestore_Oldest == {i \in todo : \A j \in todo : i <= j}

NextToRestore == {i \in todo : \A j \in todo : j <= i}

Restored(i) ==
  /\ log' = [log EXCEPT ![i].state = "rolled-back"]
  /\ missed' = missed

NotRestored(i) ==
  /\ log' = [log EXCEPT ![i].state = "failed"]
  /\ missed' = TRUE

\* remove the created primitive; one that is not found is an error
RestoreCreate(i) ==
  LET known == log[i].target # Unknown /\ doc[log[i].target] # Absent
      removed == [doc EXCEPT ![log[i].target] = Absent]
  IN /\ \/ known /\ doc' = removed /\ Restored(i) /\ faults' = faults
        \/ ~ known /\ NotRestored(i) /\ UNCHANGED <<doc, faults>>
        \/ /\ UndoMayFail("create") /\ faults' = faults + 1
           /\ doc' \in (IF known THEN {doc, removed} ELSE {doc})
           /\ NotRestored(i)
     /\ UNCHANGED fresh

\* write the snapshot back and compare; a primitive that is gone is an error
RestoreModify(i) ==
  LET there == doc[log[i].target] # Absent
      restored == [doc EXCEPT ![log[i].target] = log[i].before]
  IN /\ \/ there /\ doc' = restored /\ Restored(i) /\ faults' = faults
        \/ ~ there /\ NotRestored(i) /\ UNCHANGED <<doc, faults>>
        \/ /\ UndoMayFail("modify") /\ faults' = faults + 1
           /\ doc' \in (IF there THEN {doc, restored} ELSE {doc})
           /\ NotRestored(i)
     /\ UNCHANGED fresh

\* recreate the primitive, under a new id, and compare
RestoreDelete(i) ==
  /\ fresh \in Ids
  /\ LET recreated == [doc EXCEPT ![fresh] = log[i].before]
     IN \/ doc' = recreated /\ fresh' = fresh + 1 /\ Restored(i) /\ faults' = faults
        \/ /\ UndoMayFail("delete") /\ faults' = faults + 1
           /\ \/ UNCHANGED <<doc, fresh>>
              \/ doc' = recreated /\ fresh' = fresh + 1
           /\ NotRestored(i)

RollbackOperation ==
  /\ step = "restore"
  /\ \E i \in NextToRestore :
       /\ \/ log[i].kind = "create" /\ RestoreCreate(i)
          \/ log[i].kind = "modify" /\ RestoreModify(i)
          \/ log[i].kind = "delete" /\ RestoreDelete(i)
       /\ todo' = todo \ {i}
  /\ UNCHANGED <<original, born, tx, owned, batch, step, reply, sent, due>>

FinalizeRollback ==
  /\ step = "restore" /\ todo = {}
  /\ tx' = IF missed THEN "failed" ELSE "rolled-back"
  /\ reply' = IF missed THEN "not-rolled-back" ELSE "rolled-back"
  /\ step' = "idle"
  /\ UNCHANGED <<drawing, original, owned, log, batch, rollingBack, sent, due>>

Next ==
  \/ Lapse \/ Status \/ BeginOwned \/ CommitOwned
  \/ \E b \in Batches : BatchRefused(b) \/ OpenBatch(b)
  \/ OperationRefused \/ RunCreate \/ RunModify \/ RunDelete
  \/ CompensateCreate \/ CompensateModify \/ CompensateDelete
  \/ FinishBatch \/ FailBatch
  \/ RollbackTool \/ RollbackOperation \/ FinalizeRollback

Spec == Init /\ [][Next]_vars

-----------------------------------------------------------------------------
(***************************************************************************)
(* Properties.                                                             *)
(***************************************************************************)

SamePrimitives ==
  \A v \in Values :
    Cardinality({id \in Ids : doc[id] = v}) = Cardinality({id \in Ids : original[id] = v})

Deleted == {log[i].target : i \in {j \in DOMAIN log : log[j].kind = "delete"}}

\* the drawing is the original one, but for the ids of recreated primitives
DrawingRestored ==
  /\ SamePrimitives
  /\ \A id \in Ids \ Deleted : original[id] # Absent => doc[id] = original[id]

\* A transaction that is reported rolled back has left nothing in the drawing,
\* taken nothing from it and changed nothing, however often the rollback was
\* tried: always when no bridge call failed; and when some did, if it wrote to
\* no primitive twice, as no batch of its own does.
WrittenOnce ==
  \A i, j \in DOMAIN log : log[i].target = log[j].target /\ i # j => log[i].target = Unknown

RolledBackRestores ==
  tx = "rolled-back" /\ (faults = 0 \/ WrittenOnce) => DrawingRestored

\* The same, whatever the transaction wrote and whatever failed: "Delete rollback
\* recreates the primitive", "Modify rollback restores the exact pre-write
\* snapshot" (docs/architecture/production-schematic-engine.md:90).
RollbackIsExact == tx = "rolled-back" => DrawingRestored

LastWrite(i) == \A j \in DOMAIN log : log[j].target = log[i].target => j <= i

\* the drawing is the original one with the operations of the log applied in order:
\* the last on a primitive says what it looks like
DrawingFollowsLog ==
  \A id \in Ids :
    /\ (\A i \in DOMAIN log : log[i].target # id) => doc[id] = original[id]
    /\ \A i \in DOMAIN log : log[i].target = id /\ LastWrite(i) => doc[id] = log[i].value

\* A batch is all or nothing: what is committed is the whole of every batch
\* that joined the transaction, and the drawing is the original one with
\* exactly those operations applied to it.
CommittedIsWhole ==
  tx = "committed" =>
    /\ \A i \in DOMAIN log : log[i].state = "applied"
    /\ DrawingFollowsLog

\* Nothing touches the drawing on behalf of a transaction that has ended: a
\* batch sent to it fails before its first write, and so does its rollback.
EndedIsUntouched ==
  [][(tx \in {"committed", "rolled-back"}) => doc' = doc]_vars

\* "Any failure rolls the whole transaction back" (the tool's description):
\* when a batch is answered with an error, its writes are gone.
FailureRollsBack == reply = "error" => DrawingRestored

=============================================================================
