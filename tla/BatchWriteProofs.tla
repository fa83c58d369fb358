--------------------------- MODULE BatchWriteProofs ---------------------------
(***************************************************************************)
(* Proofs about BatchWrite, for every drawing, batch, number of primitives *)
(* and of failing bridge calls.                                            *)
(*                                                                         *)
(* EndedIsUntouched needs to know in which states of its transaction the   *)
(* tool may still be at work on the drawing (Working).  CommittedIsWhole   *)
(* needs that a batch in which an operation failed goes on to roll back    *)
(* (AppliedSoFar), and that until then the drawing is what the log says    *)
(* (WholeSoFar).  RolledBackRestores needs DrawInv: what each operation    *)
(* has left on its primitive, and how many of the primitives that came     *)
(* back under a new id stand for deleted ones.                             *)
(***************************************************************************)
EXTENDS BatchWrite, SequenceTheorems, FiniteSetTheorems, TLAPS

Working ==
  /\ step = "compensate" => tx \in {"active", "failed", "expired"} /\ log # << >>
  /\ step = "restore" <=> tx = "rolling-back"
  /\ step # "restore" => todo = {}

AppliedSoFar ==
  /\ tx = "active" /\ step \notin {"compensate", "fail"} =>
       \A i \in DOMAIN log : log[i].state = "applied"
  /\ tx = "committed" => \A i \in DOMAIN log : log[i].state = "applied"

-----------------------------------------------------------------------------
(***************************************************************************)
(* The log and the batch.                                                  *)
(***************************************************************************)

EntryStates == {"pending", "applied", "cancelled", "failed", "rolled-back"}

LEMMA EntryFields ==
  ASSUME TypeOK, NEW i \in DOMAIN log
  PROVE  /\ log[i] \in Entry /\ log[i].target \in Ids \cup {Unknown}
         /\ log[i].before \in Values \cup {Absent} /\ log[i].state \in EntryStates
<1>1. log[i] \in Entry
  BY ElementOfSeq DEF TypeOK
<1> QED BY <1>1 DEF Entry, EntryStates

\* The request at the head of the batch.
LEMMA HeadOfBatch ==
  ASSUME TypeOK, batch # << >>
  PROVE  /\ Request \in Requests /\ Tail(batch) \in Seq(Requests)
         /\ Request.kind \in Kinds /\ Request.value \in Values \cup {Absent}
         /\ Request.kind = "create" => Request.value \in Values
         /\ Request.kind # "create" => Request.target \in Ids
<1>1. Request \in Requests /\ Tail(batch) \in Seq(Requests)
  BY HeadTailProperties DEF TypeOK, Request
<1>2. CASE Request \in [kind : {"create"}, target : {Unknown}, value : Values]
  BY <1>1, <1>2 DEF Kinds
<1>3. CASE Request \in [kind : {"modify"}, target : Ids, value : Values]
  BY <1>1, <1>3 DEF Kinds
<1>4. CASE Request \in [kind : {"delete"}, target : Ids, value : {Absent}]
  BY <1>1, <1>4 DEF Kinds
<1> QED BY <1>1, <1>2, <1>3, <1>4 DEF Requests

\* What Record does to the log and to the batch.
LEMMA RecordKeepsType ==
  ASSUME TypeOK, batch # << >>, NEW target \in Ids \cup {Unknown},
         NEW before \in Values \cup {Absent}, NEW s \in EntryStates,
         Record(NewEntry(target, before, s))
  PROVE  /\ log' \in Seq(Entry) /\ batch' \in Seq(Requests)
         /\ DOMAIN log \subseteq DOMAIN log' /\ log' # << >>
         /\ \A i \in DOMAIN log' : (i \in DOMAIN log /\ log'[i] = log[i]) \/ log'[i].state = s
         /\ step' = IF s = "applied" THEN "run" ELSE "compensate"
<1> DEFINE e == NewEntry(target, before, s)
<1>1. e \in Entry /\ e.state = s
  BY HeadOfBatch DEF NewEntry, Entry, EntryStates
<1>2. log' = Append(log, e) /\ batch' = Tail(batch)
      /\ step' = IF s = "applied" THEN "run" ELSE "compensate"
  BY <1>1 DEF Record
<1> HIDE DEF e
<1>3. log \in Seq(Entry)
  BY DEF TypeOK
<1>4. /\ log' \in Seq(Entry) /\ log' # << >> /\ DOMAIN log \subseteq DOMAIN log'
      /\ \A i \in DOMAIN log' : (i \in DOMAIN log /\ log'[i] = log[i]) \/ log'[i] = e
  BY <1>1, <1>2, <1>3
<1> QED BY <1>1, <1>2, <1>4, HeadOfBatch

\* An entry that is settled or restored.
LEMMA UpdateKeepsType ==
  ASSUME TypeOK, NEW i \in DOMAIN log, NEW target \in Ids \cup {Unknown}, NEW s \in EntryStates,
         log' = [log EXCEPT ![i] = [[log[i] EXCEPT !.target = target] EXCEPT !.state = s]]
  PROVE  log' \in Seq(Entry) /\ DOMAIN log' = DOMAIN log
<1> DEFINE e == [[log[i] EXCEPT !.target = target] EXCEPT !.state = s]
<1>1. e \in Entry
  BY EntryFields DEF Entry, EntryStates
<1> HIDE DEF e
<1>2. log' = [log EXCEPT ![i] = e]
  BY DEF e
<1>3. log \in Seq(Entry)
  BY DEF TypeOK
<1>4. Len(log) \in Nat /\ DOMAIN log = 1..Len(log) /\ log \in [1..Len(log) -> Entry]
  BY <1>3, LenProperties
<1>5. log' \in [1..Len(log) -> Entry]
  BY <1>1, <1>2, <1>4
<1> QED BY <1>4, <1>5, SeqDef

\* The last entry is the one that failed.
LEMMA SettleKeepsType ==
  ASSUME TypeOK, log # << >>, NEW target \in Ids \cup {Unknown}, NEW compensated \in BOOLEAN,
         Settle(target, compensated)
  PROVE  /\ log' \in Seq(Entry) /\ DOMAIN log' = DOMAIN log
         /\ tx' \in {tx, "failed"} /\ step' = "fail"
<1>1. Now \in DOMAIN log
  BY DEF Now, TypeOK
<1>2. PICK s \in EntryStates :
        log' = [log EXCEPT ![Now].target = target, ![Now].state = s]
  BY DEF Settle, EntryStates
<1>3. log' = [log EXCEPT ![Now] = [[log[Now] EXCEPT !.target = target] EXCEPT !.state = s]]
  BY <1>1, <1>2
<1>4. log' \in Seq(Entry) /\ DOMAIN log' = DOMAIN log
  BY <1>1, <1>3, UpdateKeepsType
<1>5. tx' \in {tx, "failed"} /\ step' = "fail"
  BY DEF Settle
<1> QED BY <1>4, <1>5

LEMMA RestoreKeepsType ==
  ASSUME TypeOK, NEW i \in DOMAIN log, Restored(i) \/ NotRestored(i)
  PROVE  log' \in Seq(Entry) /\ DOMAIN log' = DOMAIN log /\ missed' \in BOOLEAN
<1>1. PICK s \in EntryStates : log' = [log EXCEPT ![i].state = s]
  BY DEF Restored, NotRestored, EntryStates
<1>2. log[i].target \in Ids \cup {Unknown} /\ log[i] \in Entry
  BY EntryFields
<1>3. [log[i] EXCEPT !.state = s] = [[log[i] EXCEPT !.target = log[i].target] EXCEPT !.state = s]
  BY <1>2 DEF Entry
<1>4. log' = [log EXCEPT ![i] = [[log[i] EXCEPT !.target = log[i].target] EXCEPT !.state = s]]
  BY <1>1, <1>3
<1> QED BY <1>2, <1>4, UpdateKeepsType DEF Restored, NotRestored, TypeOK

-----------------------------------------------------------------------------
(***************************************************************************)
(* Type correctness.                                                       *)
(***************************************************************************)

LEMMA InitTypeOK == ASSUME Init PROVE TypeOK /\ Working
<1>1. doc \in [Ids -> Values \cup {Absent}]
  BY BatchAssumption, ElementOfSeq DEF Init
<1>2. fresh \in 1..(MaxId + 1)
  BY BatchAssumption DEF Init
<1>3. log \in Seq(Entry) /\ batch \in Seq(Requests)
  BY DEF Init
<1>4. /\ original = doc /\ tx = "none" /\ owned = FALSE /\ log = << >> /\ step = "idle"
      /\ born = Unknown /\ todo = {} /\ missed = FALSE /\ reply = "none" /\ sent = 0
      /\ faults = 0 /\ due = FALSE
  BY DEF Init
<1>5. sent \in 0..MaxBatches /\ faults \in 0..MaxFaults
  BY <1>4, BatchAssumption
<1> QED BY <1>1, <1>2, <1>3, <1>4, <1>5 DEF TypeOK, Working

\* What a call of the manager finds.
LEMMA ExpiryKeepsType ==
  ASSUME TypeOK
  PROVE  /\ txX \in {tx, "failed", "expired"}
         /\ txX # tx => tx = "active"
BY DEF txX, TypeOK

LEMMA NextTypeOK ==
  ASSUME TypeOK, Working, [Next]_vars
  PROVE  TypeOK' /\ Working'
<1> USE BatchAssumption
<1>x. txX \in {tx, "failed", "expired"} /\ (txX # tx => tx = "active")
  BY ExpiryKeepsType
<1>a. CASE Lapse
  BY <1>a DEF Lapse, TypeOK, Working, drawing, rollingBack
<1>b. CASE Status
  BY <1>b, <1>x DEF Status, TypeOK, Working, drawing, rollingBack
<1>c. CASE CommitOwned
  <2>1. /\ step = "idle" /\ tx' = "committed" /\ reply' = "none" /\ tx # "rolling-back"
        /\ UNCHANGED <<drawing, original, owned, log, batch, step, rollingBack, sent, due>>
    BY <1>c DEF CommitOwned, Working
  <2> QED BY <2>1 DEF TypeOK, Working, drawing, rollingBack
<1>2. ASSUME NEW c, BeginTx(c), step = "idle"
      PROVE  /\ tx' = "active" /\ due' = FALSE /\ owned' = c /\ log' = << >>
             /\ log' \in Seq(Entry) /\ original' = doc /\ todo = {} /\ tx # "rolling-back"
  BY <1>2 DEF BeginTx, Working
<1>3. CASE BeginOwned
  <2>1. /\ step = "idle" /\ BeginTx(TRUE) /\ reply' = "none"
        /\ UNCHANGED <<drawing, batch, step, rollingBack, sent>>
    BY <1>3 DEF BeginOwned
  <2>2. /\ tx' = "active" /\ due' = FALSE /\ owned' = TRUE /\ log' = << >>
        /\ log' \in Seq(Entry) /\ original' = doc /\ todo = {} /\ tx # "rolling-back"
    BY <1>2, <2>1
  <2> QED BY <2>1, <2>2 DEF TypeOK, Working, drawing, rollingBack
<1>4. ASSUME NEW b \in Batches, BatchRefused(b) PROVE TypeOK' /\ Working'
  BY <1>4, <1>x DEF BatchRefused, MaySend, TypeOK, Working, drawing, rollingBack
<1>5. ASSUME NEW b \in Batches, OpenBatch(b) PROVE TypeOK' /\ Working'
  <2>1. /\ b \in Seq(Requests) /\ batch' = b /\ step = "idle" /\ step' = "run"
        /\ reply' = "none" /\ sent' = sent + 1 /\ sent < MaxBatches
        /\ UNCHANGED <<drawing, rollingBack>>
    BY <1>5 DEF OpenBatch, MaySend
  <2>2. CASE owned /\ tx' = txX /\ UNCHANGED <<original, owned, log, due>>
    BY <1>x, <2>1, <2>2 DEF TypeOK, Working, drawing, rollingBack
  <2>3. CASE BeginTx(FALSE)
    <3>1. /\ tx' = "active" /\ due' = FALSE /\ owned' = FALSE /\ log' = << >>
          /\ log' \in Seq(Entry) /\ original' = doc /\ todo = {} /\ tx # "rolling-back"
      BY <1>2, <2>1, <2>3
    <3>a. sent' \in 0..MaxBatches
      BY <2>1 DEF TypeOK
    <3>b. original' \in [Ids -> Values \cup {Absent}]
      BY <3>1 DEF TypeOK
    <3>c. todo' = {} /\ owned' \in BOOLEAN
      BY <2>1, <3>1 DEF rollingBack
    <3>2. original' \in [Ids -> Values \cup {Absent}] /\ sent' \in 0..MaxBatches
          /\ todo' \subseteq DOMAIN log' /\ todo' = {} /\ owned' \in BOOLEAN
      BY <3>a, <3>b, <3>c
    <3>3. tx' = "active" /\ due' \in BOOLEAN /\ step' = "run" /\ reply' = "none"
          /\ batch' \in Seq(Requests) /\ log' \in Seq(Entry)
          /\ UNCHANGED <<doc, fresh, born, faults, missed>>
      BY <2>1, <3>1 DEF drawing, rollingBack
    <3>4. Working'
      BY <3>2, <3>3 DEF Working
    <3> QED BY <3>2, <3>3, <3>4 DEF TypeOK
  <2> QED BY <1>5, <2>2, <2>3 DEF OpenBatch
<1>6. CASE OperationRefused
  BY <1>6, <1>x DEF OperationRefused, MayFail, TypeOK, Working, rollingBack
<1>7. CASE RunCreate
  <2>1. /\ batch # << >> /\ Request.kind = "create" /\ step = "run" /\ fresh \in Ids
        /\ txX = "active" /\ tx' = txX
        /\ UNCHANGED <<original, owned, rollingBack, reply, sent, due>>
    BY <1>7 DEF RunCreate, RunCreateIf, Running
  <2>2. Request.value \in Values
    BY <2>1, HeadOfBatch
  <2>3. PICK target \in Ids \cup {Unknown}, s \in EntryStates :
          Record(NewEntry(target, Absent, s))
    BY <1>7 DEF RunCreate, RunCreateIf, EntryStates, Unknown
  <2>4. /\ log' \in Seq(Entry) /\ batch' \in Seq(Requests) /\ DOMAIN log \subseteq DOMAIN log'
        /\ log' # << >> /\ step' \in {"run", "compensate"}
    BY <2>1, <2>3, RecordKeepsType
  <2>5. /\ doc' \in [Ids -> Values \cup {Absent}] /\ fresh' \in 1..(MaxId + 1)
        /\ born' \in Ids \cup {Unknown} /\ faults' \in 0..MaxFaults
    <3>1. /\ doc' \in {doc, [doc EXCEPT ![fresh] = Request.value]}
          /\ fresh' \in {fresh, fresh + 1} /\ born' \in {born, fresh, Unknown}
          /\ (faults' = faults \/ (faults' = faults + 1 /\ faults < MaxFaults))
      BY <1>7 DEF RunCreate, RunCreateIf, MayFail
    <3> QED BY <2>1, <2>2, <3>1 DEF TypeOK, Ids
  <2> QED BY <2>1, <2>4, <2>5 DEF TypeOK, Working, rollingBack
<1>8. ASSUME NEW kind \in {"modify", "delete"}, RunWrite(kind) PROVE TypeOK' /\ Working'
  <2>1. /\ batch # << >> /\ Request.kind = kind /\ step = "run"
        /\ txX = "active" /\ tx' = txX
        /\ UNCHANGED <<original, fresh, born, owned, rollingBack, reply, sent, due>>
    BY <1>8 DEF RunWrite, Running
  <2>2. Request.value \in Values \cup {Absent} /\ Request.target \in Ids
    BY <2>1, HeadOfBatch
  <2>3. doc[Request.target] \in Values \cup {Absent}
    BY <2>2 DEF TypeOK
  <2>4. PICK s \in EntryStates :
          Record(NewEntry(Request.target, doc[Request.target], s))
    BY <1>8 DEF RunWrite, EntryStates
  <2>5. /\ log' \in Seq(Entry) /\ batch' \in Seq(Requests) /\ DOMAIN log \subseteq DOMAIN log'
        /\ log' # << >> /\ step' \in {"run", "compensate"}
    BY <2>1, <2>2, <2>3, <2>4, RecordKeepsType
  <2>6. doc' \in [Ids -> Values \cup {Absent}] /\ faults' \in 0..MaxFaults
    BY <1>8, <2>2 DEF RunWrite, MayFail, TypeOK
  <2> QED BY <2>1, <2>5, <2>6 DEF TypeOK, Working, rollingBack
<1>9. CASE FinishBatch
  BY <1>9, <1>x DEF FinishBatch, TypeOK, Working, drawing, rollingBack
<1>10. ASSUME CanRollback, StartRollback PROVE TypeOK' /\ Working'
  <2>1. Unresolved \subseteq DOMAIN log
    BY DEF Unresolved
  <2>2. << >> \in Seq(Requests)
    OBVIOUS
  <2> QED BY <1>10, <2>1, <2>2 DEF StartRollback, TypeOK, Working, drawing
<1>11. CASE FailBatch
  <2>1. CASE CanRollback /\ StartRollback
    BY <1>10, <2>1
  <2>2. CASE ~ (CanRollback /\ StartRollback)
    <3>1. /\ step = "fail" /\ tx' = txX /\ step' = "idle" /\ batch' = << >>
          /\ reply' = "not-rolled-back"
          /\ UNCHANGED <<drawing, original, owned, log, rollingBack, sent, due>>
      BY <1>11, <2>2 DEF FailBatch
    <3>2. batch' \in Seq(Requests)
      BY <3>1
    <3> QED BY <1>x, <3>1, <3>2 DEF TypeOK, Working, drawing, rollingBack
  <2> QED BY <2>1, <2>2
<1>12. CASE RollbackTool
  BY <1>10, <1>12 DEF RollbackTool
<1>13. ASSUME step = "compensate", NEW target \in Ids \cup {Unknown}, NEW c \in BOOLEAN,
              Settle(target, c), doc' \in [Ids -> Values \cup {Absent}],
              fresh' \in 1..(MaxId + 1), born' = born, faults' \in 0..MaxFaults
       PROVE  TypeOK' /\ Working'
  <2>1. log # << >> /\ tx # "rolling-back" /\ todo = {}
    BY <1>13 DEF Working
  <2>2. /\ log' \in Seq(Entry) /\ DOMAIN log' = DOMAIN log
        /\ tx' \in {tx, "failed"} /\ step' = "fail"
    BY <1>13, <2>1, SettleKeepsType
  <2>3. UNCHANGED <<original, owned, batch, rollingBack, reply, sent, due>>
    BY <1>13 DEF Settle
  <2> QED BY <1>13, <2>1, <2>2, <2>3 DEF TypeOK, Working, rollingBack
<1>14. CASE CompensateCreate
  <2>1. step = "compensate" /\ UNCHANGED <<fresh, born>>
    BY <1>14 DEF CompensateCreate, Failing
  <2>2. PICK target \in Ids \cup {Unknown}, c \in BOOLEAN : Settle(target, c)
    BY <1>14 DEF CompensateCreate, TypeOK
  <2>3. doc' \in [Ids -> Values \cup {Absent}] /\ faults' \in 0..MaxFaults
    <3>1. /\ doc' \in {doc, [doc EXCEPT ![born] = Absent]}
          /\ (faults' = faults \/ (faults' = faults + 1 /\ faults < MaxFaults))
      BY <1>14 DEF CompensateCreate, UndoMayFail
    <3> QED BY <3>1 DEF TypeOK
  <2> QED BY <1>13, <2>1, <2>2, <2>3 DEF TypeOK
<1>15. CASE CompensateModify \/ CompensateDelete
  <2>1. step = "compensate" /\ born' = born
    BY <1>15 DEF CompensateModify, CompensateDelete, Failing
  <2>2. Now \in DOMAIN log
    BY <2>1 DEF Working, Now, TypeOK
  <2>3. log[Now].target \in Ids \cup {Unknown} /\ log[Now].before \in Values \cup {Absent}
    BY <2>2, EntryFields
  <2>4. PICK c \in BOOLEAN : Settle(log[Now].target, c)
    BY <1>15 DEF CompensateModify, CompensateDelete
  <2>5. /\ doc' \in [Ids -> Values \cup {Absent}] /\ faults' \in 0..MaxFaults
        /\ fresh' \in 1..(MaxId + 1)
    <3> DEFINE e == log[Now]
    <3>1. CASE CompensateModify
      <4>1. /\ doc' \in {doc, [doc EXCEPT ![e.target] = e.before]} /\ fresh' = fresh
            /\ (faults' = faults \/ (faults' = faults + 1 /\ faults < MaxFaults))
        BY <3>1 DEF CompensateModify, UndoMayFail
      <4> QED BY <2>3, <4>1 DEF TypeOK
    <3>2. CASE CompensateDelete
      <4>1. /\ \/ doc' = doc /\ fresh' = fresh
               \/ doc' = [doc EXCEPT ![fresh] = e.before] /\ fresh' = fresh + 1 /\ fresh \in Ids
            /\ (faults' = faults \/ (faults' = faults + 1 /\ faults < MaxFaults))
        BY <3>2 DEF CompensateDelete, UndoMayFail
      <4> QED BY <2>3, <4>1 DEF TypeOK, Ids
    <3> QED BY <1>15, <3>1, <3>2
  <2> QED BY <1>13, <2>1, <2>3, <2>4, <2>5
<1>16. CASE RollbackOperation
  <2>1. PICK i \in NextToRestore :
          /\ RestoreCreate(i) \/ RestoreModify(i) \/ RestoreDelete(i)
          /\ todo' = todo \ {i}
    BY <1>16 DEF RollbackOperation
  <2>2. /\ step = "restore" /\ tx = "rolling-back"
        /\ UNCHANGED <<original, born, tx, owned, batch, step, reply, sent, due>>
    BY <1>16 DEF RollbackOperation, Working
  <2>3. i \in DOMAIN log
    BY <2>1 DEF NextToRestore, TypeOK
  <2>4. log[i].target \in Ids \cup {Unknown} /\ log[i].before \in Values \cup {Absent}
    BY <2>3, EntryFields
  <2>5. log' \in Seq(Entry) /\ DOMAIN log' = DOMAIN log /\ missed' \in BOOLEAN
    BY <2>1, <2>3, RestoreKeepsType DEF RestoreCreate, RestoreModify, RestoreDelete
  <2>6. /\ doc' \in [Ids -> Values \cup {Absent}] /\ faults' \in 0..MaxFaults
        /\ fresh' \in 1..(MaxId + 1)
    <3> DEFINE e == log[i]
    <3>1. CASE RestoreCreate(i)
      <4>1. /\ doc' \in {doc, [doc EXCEPT ![e.target] = Absent]} /\ fresh' = fresh
            /\ (faults' = faults \/ (faults' = faults + 1 /\ faults < MaxFaults))
        BY <3>1 DEF RestoreCreate, UndoMayFail
      <4> QED BY <2>4, <4>1 DEF TypeOK
    <3>2. CASE RestoreModify(i)
      <4>1. /\ doc' \in {doc, [doc EXCEPT ![e.target] = e.before]} /\ fresh' = fresh
            /\ (faults' = faults \/ (faults' = faults + 1 /\ faults < MaxFaults))
        BY <3>2 DEF RestoreModify, UndoMayFail
      <4> QED BY <2>4, <4>1 DEF TypeOK
    <3>3. CASE RestoreDelete(i)
      <4>1. /\ \/ doc' = doc /\ fresh' = fresh
               \/ doc' = [doc EXCEPT ![fresh] = e.before] /\ fresh' = fresh + 1 /\ fresh \in Ids
            /\ (faults' = faults \/ (faults' = faults + 1 /\ faults < MaxFaults))
        BY <3>3 DEF RestoreDelete, UndoMayFail
      <4>2. fresh' \in 1..(MaxId + 1) /\ faults' \in 0..MaxFaults
        BY <4>1 DEF TypeOK, Ids
      <4>3. doc' \in [Ids -> Values \cup {Absent}]
        BY <2>4, <4>1 DEF TypeOK
      <4> QED BY <4>2, <4>3
    <3> QED BY <2>1, <3>1, <3>2, <3>3
  <2> QED BY <2>1, <2>2, <2>5, <2>6 DEF TypeOK, Working
<1>17. CASE FinalizeRollback
  BY <1>17 DEF FinalizeRollback, TypeOK, Working, drawing, rollingBack
<1>18. CASE UNCHANGED vars
  BY <1>18 DEF vars, TypeOK, Working
<1> QED
  BY <1>a, <1>b, <1>c, <1>3, <1>4, <1>5, <1>6, <1>7, <1>8, <1>9, <1>11, <1>12, <1>14, <1>15, <1>16, <1>17,
     <1>18 DEF Next, RunModify, RunDelete

LEMMA SpecTypeOK == Spec => [](TypeOK /\ Working)
BY InitTypeOK, NextTypeOK, PTL DEF Spec

\* The drawing, the log and the tool keep to their types, and whatever a rollback
\* has to restore is in the log.
THEOREM TypeCorrect == Spec => []TypeOK
BY SpecTypeOK, PTL

-----------------------------------------------------------------------------
(***************************************************************************)
(* The end of a transaction.                                               *)
(***************************************************************************)

\* Nothing touches the drawing on behalf of a transaction that has ended, for any
\* batches, faults and lapses (L1_schematic_batch.ts executeBatchOperation,
\* manager.ts assertActive, rollback).
THEOREM EndedDrawingStays == Spec => EndedIsUntouched
<1>1. ASSUME TypeOK, Working, Next, tx \in {"committed", "rolled-back"} PROVE doc' = doc
  <2>1. txX = tx
    BY <1>1 DEF txX
  <2>2. step \notin {"compensate", "restore"}
    BY <1>1 DEF Working
  <2>3. CASE Lapse \/ Status \/ BeginOwned \/ CommitOwned \/ FinishBatch \/ OperationRefused
    BY <2>3 DEF Lapse, Status, BeginOwned, CommitOwned, FinishBatch, OperationRefused, drawing
  <2>4. CASE \E b \in Batches : BatchRefused(b) \/ OpenBatch(b)
    BY <2>4 DEF BatchRefused, OpenBatch, drawing
  <2>5. CASE FailBatch \/ RollbackTool \/ FinalizeRollback
    BY <2>5 DEF FailBatch, RollbackTool, StartRollback, FinalizeRollback, drawing
  <2>6. ~ (RunCreate \/ RunModify \/ RunDelete)
    BY <1>1, <2>1 DEF RunCreate, RunCreateIf, RunModify, RunDelete, RunWrite
  <2>7. ~ (CompensateCreate \/ CompensateModify \/ CompensateDelete \/ RollbackOperation)
    BY <2>2 DEF CompensateCreate, CompensateModify, CompensateDelete, Failing, RollbackOperation
  <2> QED BY <1>1, <2>3, <2>4, <2>5, <2>6, <2>7 DEF Next
<1>2. TypeOK /\ Working /\ [Next]_vars => [(tx \in {"committed", "rolled-back"}) => doc' = doc]_vars
  BY <1>1
<1> QED BY <1>2, SpecTypeOK, PTL DEF Spec, EndedIsUntouched

LEMMA NextAppliedSoFar ==
  ASSUME TypeOK, Working, AppliedSoFar, [Next]_vars
  PROVE  AppliedSoFar'
<1>x. txX \in {tx, "failed", "expired"} /\ (txX = "active" => tx = "active")
  BY ExpiryKeepsType
<1>1. CASE Lapse \/ Status \/ OperationRefused
  BY <1>1, <1>x DEF Lapse, Status, OperationRefused, AppliedSoFar, TypeOK
<1>2. CASE BeginOwned \/ \E b \in Batches : OpenBatch(b)
  <2>1. (log' = << >> /\ tx' = "active") \/ (log' = log /\ tx' = txX /\ step = "idle")
    BY <1>2 DEF BeginOwned, OpenBatch, BeginTx, MaySend
  <2> QED BY <1>x, <2>1 DEF AppliedSoFar
<1>3. CASE CommitOwned \/ FinishBatch
  <2>1. /\ log' = log /\ step \in {"idle", "run"}
        /\ ((tx' = "committed" /\ tx = "active") \/ tx' = txX)
    BY <1>3, <1>x DEF CommitOwned, FinishBatch
  <2> QED BY <1>x, <2>1 DEF AppliedSoFar
<1>4. ASSUME NEW b \in Batches, BatchRefused(b) PROVE AppliedSoFar'
  BY <1>4, <1>x DEF BatchRefused, AppliedSoFar
<1>5. ASSUME NEW target \in Ids \cup {Unknown}, NEW before \in Values \cup {Absent},
             NEW s \in EntryStates, batch # << >>, Record(NewEntry(target, before, s)),
             tx' = txX, txX = "active", step = "run"
      PROVE  AppliedSoFar'
  <2>1. /\ \A i \in DOMAIN log' : (i \in DOMAIN log /\ log'[i] = log[i]) \/ log'[i].state = s
        /\ step' = IF s = "applied" THEN "run" ELSE "compensate"
    BY <1>5, RecordKeepsType
  <2> QED BY <1>5, <1>x, <2>1 DEF AppliedSoFar
<1>6. CASE RunCreate
  <2>1. PICK target \in Ids \cup {Unknown}, s \in EntryStates :
          Record(NewEntry(target, Absent, s))
    BY <1>6 DEF RunCreate, RunCreateIf, EntryStates, Unknown
  <2> QED BY <1>5, <1>6, <2>1 DEF RunCreate, RunCreateIf, Running
<1>7. ASSUME NEW kind \in {"modify", "delete"}, RunWrite(kind) PROVE AppliedSoFar'
  <2>1. Request.target \in Ids /\ doc[Request.target] \in Values \cup {Absent}
    BY <1>7, HeadOfBatch DEF RunWrite, Running, TypeOK
  <2>2. PICK s \in EntryStates : Record(NewEntry(Request.target, doc[Request.target], s))
    BY <1>7 DEF RunWrite, EntryStates
  <2> QED BY <1>5, <1>7, <2>1, <2>2 DEF RunWrite, Running
<1>8. CASE CompensateCreate \/ CompensateModify \/ CompensateDelete
  <2>1. step' = "fail" /\ tx' \in {tx, "failed"} /\ step = "compensate"
    BY <1>8 DEF CompensateCreate, CompensateModify, CompensateDelete, Settle, Failing
  <2> QED BY <2>1 DEF AppliedSoFar, Working
<1>9. CASE FailBatch \/ RollbackTool
  <2>1. tx' = "rolling-back" \/ (log' = log /\ tx' = txX /\ tx # "active")
    BY <1>9 DEF FailBatch, RollbackTool, StartRollback, CanRollback, txX
  <2> QED BY <1>x, <2>1 DEF AppliedSoFar
<1>10. CASE RollbackOperation
  BY <1>10 DEF RollbackOperation, Working, AppliedSoFar
<1>11. CASE FinalizeRollback
  BY <1>11 DEF FinalizeRollback, AppliedSoFar
<1>12. CASE UNCHANGED vars
  BY <1>12 DEF vars, AppliedSoFar
<1> QED
  BY <1>1, <1>2, <1>3, <1>4, <1>6, <1>7, <1>8, <1>9, <1>10, <1>11, <1>12
     DEF Next, RunModify, RunDelete

-----------------------------------------------------------------------------
(***************************************************************************)
(* What a committed transaction has drawn.                                 *)
(***************************************************************************)

\* The log after an operation is recorded.
Grown(kind, target, value, before, s) ==
  LET n == Len(log) + 1
  IN /\ Len(log') = n /\ n \notin DOMAIN log
     /\ DOMAIN log' = DOMAIN log \cup {n}
     /\ \A i \in DOMAIN log : log'[i] = log[i] /\ i < n
     /\ log'[n].kind = kind /\ log'[n].target = target /\ log'[n].value = value
     /\ log'[n].before = before /\ log'[n].state = s

LEMMA RecordGrows ==
  ASSUME TypeOK, batch # << >>, NEW target \in Ids \cup {Unknown},
         NEW before \in Values \cup {Absent}, NEW s \in EntryStates,
         Record(NewEntry(target, before, s))
  PROVE  Grown(Request.kind, target, Request.value, before, s)
<1> DEFINE e == NewEntry(target, before, s)
<1>1. e \in Entry /\ e.kind = Request.kind /\ e.target = target /\ e.value = Request.value
      /\ e.before = before /\ e.state = s
  BY HeadOfBatch DEF NewEntry, Entry, EntryStates
<1>2. log' = Append(log, e)
  BY DEF Record
<1> HIDE DEF e
<1>3. log \in Seq(Entry)
  BY DEF TypeOK
<1>4. /\ Len(log') = Len(log) + 1 /\ Len(log) \in Nat /\ DOMAIN log = 1..Len(log)
      /\ DOMAIN log' = 1..(Len(log) + 1)
      /\ \A i \in 1..Len(log) : log'[i] = log[i]
      /\ log'[Len(log) + 1] = e
  BY <1>1, <1>2, <1>3, AppendProperties, LenProperties
<1>5. DOMAIN log' = DOMAIN log \cup {Len(log) + 1} /\ Len(log) + 1 \notin DOMAIN log
  BY <1>4
<1> QED BY <1>1, <1>4, <1>5 DEF Grown

\* The transaction holds everything it was asked to do so far.
Whole ==
  \/ tx = "active" /\ step \notin {"compensate", "fail"}
  \/ tx = "committed"

WholeSoFar == Whole => DrawingFollowsLog

LEMMA GrownFollowsLog ==
  ASSUME TypeOK, DrawingFollowsLog, NEW kind, NEW target \in Ids, NEW value, NEW before, NEW s,
         Grown(kind, target, value, before, s),
         doc' = [doc EXCEPT ![target] = value], original' = original
  PROVE  DrawingFollowsLog'
<1> DEFINE n == Len(log) + 1
<1>1. /\ DOMAIN log' = DOMAIN log \cup {n} /\ n \notin DOMAIN log
      /\ \A i \in DOMAIN log : log'[i] = log[i] /\ i < n
      /\ log'[n].target = target /\ log'[n].value = value
  BY DEF Grown
<1>2. doc \in [Ids -> Values \cup {Absent}]
  BY DEF TypeOK
<1>3. ASSUME NEW id \in Ids, \A i \in DOMAIN log' : log'[i].target # id
      PROVE  doc'[id] = original'[id]
  BY <1>1, <1>2, <1>3 DEF DrawingFollowsLog
<1>4. ASSUME NEW id \in Ids, NEW i \in DOMAIN log', log'[i].target = id, LastWrite(i)'
      PROVE  doc'[id] = log'[i].value
  <2>1. CASE i = n
    BY <1>1, <1>2, <1>4, <2>1
  <2>2. CASE i \in DOMAIN log
    <3>1. i < n /\ log[i].target = id /\ log'[i].value = log[i].value
      BY <1>1, <1>4, <2>2
    <3>2. id # target
      <4>1. target = log'[i].target => n <= i
        BY <1>1, <1>4 DEF LastWrite
      <4> QED BY <1>4, <3>1, <4>1, <2>2 DEF TypeOK
    <3>3. LastWrite(i)
      BY <1>1, <1>4, <2>2 DEF LastWrite
    <3> QED BY <1>2, <2>2, <3>1, <3>2, <3>3 DEF DrawingFollowsLog
  <2> QED BY <1>1, <2>1, <2>2
<1> QED BY <1>3, <1>4 DEF DrawingFollowsLog

\* A step that neither draws nor logs, but for the failing of a call.
Steady ==
  /\ UNCHANGED <<doc, original, fresh, born, log>> /\ faults' \in {faults, faults + 1}
  /\ Whole' => Whole
  /\ step' = "compensate" <=> step = "compensate"
  /\ step' = "restore" =>
       \/ step = "restore" /\ todo' = todo /\ missed' = missed
       \/ step # "compensate" /\ todo' = Unresolved
  /\ tx' = "rolled-back" => tx = "rolled-back" \/ (step = "restore" /\ todo = {} /\ ~ missed)

\* A transaction that begins.
FromScratch ==
  /\ log' = << >> /\ original' = doc /\ UNCHANGED <<doc, fresh, born, faults>>
  /\ tx' = "active" /\ step' \in {"idle", "run"}

\* The steps, by what they do to the drawing and the log.
LEMMA StepKinds ==
  ASSUME TypeOK, Working, [Next]_vars
  PROVE  \/ Steady \/ FromScratch
         \/ RunCreate \/ RunModify \/ RunDelete
         \/ CompensateCreate \/ CompensateModify \/ CompensateDelete
         \/ RollbackOperation
<1>x. txX \in {tx, "failed", "expired"} /\ (txX = "active" => tx = "active")
  BY ExpiryKeepsType
<1>1. CASE Lapse \/ Status \/ CommitOwned \/ FinishBatch
  BY <1>1, <1>x DEF Lapse, Status, CommitOwned, FinishBatch, Steady, Whole, drawing, rollingBack
<1>2. CASE OperationRefused
  BY <1>2, <1>x DEF OperationRefused, Steady, Whole, TypeOK
<1>3. CASE FinalizeRollback
  BY <1>3 DEF FinalizeRollback, Steady, Whole, drawing
<1>4. CASE FailBatch \/ RollbackTool
  BY <1>4, <1>x DEF FailBatch, RollbackTool, StartRollback, CanRollback, txX, Steady, Whole, drawing
<1>5. CASE BeginOwned
  BY <1>5 DEF BeginOwned, BeginTx, FromScratch, drawing
<1>6. CASE \E b \in Batches : BatchRefused(b) \/ OpenBatch(b)
  BY <1>6, <1>x
     DEF BatchRefused, OpenBatch, MaySend, BeginTx, FromScratch, Steady, Whole, drawing, rollingBack
<1>7. CASE UNCHANGED vars
  BY <1>7 DEF vars, Steady, Whole
<1> QED BY <1>1, <1>2, <1>3, <1>4, <1>5, <1>6, <1>7 DEF Next

\* When a batch runs its next operation, the transaction is active and the log holds
\* applied operations only.
RunsOn == tx = "active" /\ step = "run" /\ \A i \in DOMAIN log : log[i].state = "applied"

LEMMA CreateGrows ==
  ASSUME TypeOK, AppliedSoFar, RunCreate
  PROVE  /\ RunsOn /\ fresh \in Ids /\ Request.value \in Values
         /\ UNCHANGED <<original, todo, missed>> /\ tx' = "active"
         /\ \/ /\ Grown("create", fresh, Request.value, Absent, "applied")
               /\ doc' = [doc EXCEPT ![fresh] = Request.value] /\ fresh' = fresh + 1
               /\ UNCHANGED <<born, faults>> /\ step' = "run"
            \/ /\ \E known \in {fresh, Unknown} :
                    Grown("create", known, Request.value, Absent, "pending")
               /\ doc' = [doc EXCEPT ![fresh] = Request.value] /\ fresh' = fresh + 1
               /\ born' = fresh /\ faults' = faults + 1 /\ step' = "compensate"
            \/ /\ Grown("create", Unknown, Request.value, Absent, "pending")
               /\ UNCHANGED <<doc, fresh>>
               /\ born' = Unknown /\ faults' = faults + 1 /\ step' = "compensate"
<1>1. /\ txX = "active" /\ tx' = txX /\ step = "run" /\ batch # << >> /\ fresh \in Ids
      /\ Request.kind = "create" /\ UNCHANGED <<original, todo, missed>>
  BY DEF RunCreate, RunCreateIf, Running, rollingBack
<1>2. RunsOn /\ Request.value \in Values
  BY <1>1, HeadOfBatch, ExpiryKeepsType DEF AppliedSoFar, RunsOn
<1>3. ASSUME NEW target \in {fresh, Unknown}, NEW s \in {"applied", "pending"},
             Record(NewEntry(target, Absent, s))
      PROVE  /\ Grown("create", target, Request.value, Absent, s)
             /\ step' = IF s = "applied" THEN "run" ELSE "compensate"
  <2>1. target \in Ids \cup {Unknown} /\ s \in EntryStates
    BY <1>1 DEF EntryStates
  <2> QED BY <1>1, <1>3, <2>1, RecordGrows, RecordKeepsType
<1> QED BY <1>1, <1>2, <1>3, Zenon DEF RunCreate, RunCreateIf, MayFail

LEMMA WriteGrows ==
  ASSUME TypeOK, AppliedSoFar, NEW kind \in {"modify", "delete"}, RunWrite(kind)
  PROVE  /\ RunsOn /\ Request.target \in Ids /\ Request.value \in Values \cup {Absent}
         /\ kind = "modify" => Request.value \in Values
         /\ kind = "delete" => Request.value = Absent
         /\ doc[Request.target] \in Values
         /\ UNCHANGED <<original, fresh, born, todo, missed>> /\ tx' = "active"
         /\ \E s \in {"applied", "pending"} :
              /\ Grown(kind, Request.target, Request.value, doc[Request.target], s)
              /\ \/ doc' = [doc EXCEPT ![Request.target] = Request.value]
                 \/ s = "pending" /\ doc' = doc
              /\ step' = IF s = "applied" THEN "run" ELSE "compensate"
              /\ faults' = IF s = "applied" THEN faults ELSE faults + 1
<1>1. /\ txX = "active" /\ tx' = txX /\ step = "run" /\ batch # << >>
      /\ Request.kind = kind /\ doc[Request.target] # Absent
      /\ UNCHANGED <<original, fresh, born, todo, missed>>
  BY DEF RunWrite, Running, rollingBack
<1>2. RunsOn
  BY <1>1, ExpiryKeepsType DEF AppliedSoFar, RunsOn
<1>3. /\ Request.target \in Ids /\ Request.value \in Values \cup {Absent}
      /\ kind = "modify" => Request.value \in Values
      /\ kind = "delete" => Request.value = Absent
  <2>1. Request \in Requests /\ Request.target \in Ids
    BY <1>1, HeadOfBatch
  <2> QED BY <1>1, <2>1 DEF Requests
<1>4. doc[Request.target] \in Values
  BY <1>1, <1>3 DEF TypeOK
<1>5. ASSUME NEW s \in {"applied", "pending"},
             Record(NewEntry(Request.target, doc[Request.target], s))
      PROVE  /\ Grown(kind, Request.target, Request.value, doc[Request.target], s)
             /\ step' = IF s = "applied" THEN "run" ELSE "compensate"
  <2>1. Request.target \in Ids \cup {Unknown} /\ s \in EntryStates
        /\ doc[Request.target] \in Values \cup {Absent}
    BY <1>3, <1>4 DEF EntryStates
  <2> QED BY <1>1, <1>5, <2>1, RecordGrows, RecordKeepsType
<1>6. \/ /\ doc' = [doc EXCEPT ![Request.target] = Request.value] /\ faults' = faults
         /\ Record(NewEntry(Request.target, doc[Request.target], "applied"))
      \/ /\ doc' \in {doc, [doc EXCEPT ![Request.target] = Request.value]} /\ faults' = faults + 1
         /\ Record(NewEntry(Request.target, doc[Request.target], "pending"))
  BY DEF RunWrite, MayFail
<1> QED BY <1>1, <1>2, <1>3, <1>4, <1>5, <1>6

LEMMA NextWholeSoFar ==
  ASSUME TypeOK, Working, AppliedSoFar, WholeSoFar, [Next]_vars
  PROVE  WholeSoFar'
<1>1. CASE Steady
  <2>1. DrawingFollowsLog => DrawingFollowsLog'
    BY <1>1 DEF Steady, DrawingFollowsLog, LastWrite
  <2> QED BY <1>1, <2>1 DEF WholeSoFar, Steady
<1>2. CASE FromScratch
  BY <1>2 DEF FromScratch, WholeSoFar, DrawingFollowsLog
<1>3. CASE RunCreate
  <2>1. step' = "compensate" => WholeSoFar'
    BY <1>3, CreateGrows DEF WholeSoFar, Whole
  <2>2. ASSUME Grown("create", fresh, Request.value, Absent, "applied"), 
               doc' = [doc EXCEPT ![fresh] = Request.value]
        PROVE  DrawingFollowsLog'
    <3>1. DrawingFollowsLog /\ fresh \in Ids /\ original' = original
      BY <1>3, CreateGrows DEF WholeSoFar, Whole, RunsOn
    <3> QED BY <2>2, <3>1, GrownFollowsLog
  <2> QED BY <1>3, <2>1, <2>2, CreateGrows DEF WholeSoFar, Whole
<1>4. ASSUME NEW kind \in {"modify", "delete"}, RunWrite(kind) PROVE WholeSoFar'
  <2>1. step' = "compensate" => WholeSoFar'
    BY <1>4, WriteGrows DEF WholeSoFar, Whole
  <2>2. ASSUME Grown(kind, Request.target, Request.value, doc[Request.target], "applied"), 
               doc' = [doc EXCEPT ![Request.target] = Request.value]
        PROVE  DrawingFollowsLog'
    <3>1. DrawingFollowsLog /\ Request.target \in Ids /\ original' = original
      BY <1>4, WriteGrows DEF WholeSoFar, Whole, RunsOn
    <3> QED BY <2>2, <3>1, GrownFollowsLog
  <2> QED BY <1>4, <2>1, <2>2, WriteGrows DEF WholeSoFar, Whole
<1>5. CASE CompensateCreate \/ CompensateModify \/ CompensateDelete
  <2>1. step' = "fail" /\ tx' \in {tx, "failed"} /\ step = "compensate"
    BY <1>5 DEF CompensateCreate, CompensateModify, CompensateDelete, Settle, Failing
  <2> QED BY <2>1 DEF WholeSoFar, Whole, Working
<1>6. CASE RollbackOperation
  BY <1>6 DEF RollbackOperation, Working, WholeSoFar, Whole
<1> QED BY <1>1, <1>2, <1>3, <1>4, <1>5, <1>6, StepKinds DEF RunModify, RunDelete


LEMMA InitWholeSoFar == ASSUME Init PROVE AppliedSoFar /\ WholeSoFar
BY DEF Init, AppliedSoFar, WholeSoFar, DrawingFollowsLog

LEMMA SpecWholeSoFar == Spec => [](TypeOK /\ Working /\ AppliedSoFar /\ WholeSoFar)
<1>1. Init => TypeOK /\ Working /\ AppliedSoFar /\ WholeSoFar
  BY InitTypeOK, InitWholeSoFar
<1>2. TypeOK /\ Working /\ AppliedSoFar /\ WholeSoFar /\ [Next]_vars
      => (TypeOK /\ Working /\ AppliedSoFar /\ WholeSoFar)'
  BY NextTypeOK, NextAppliedSoFar, NextWholeSoFar
<1> QED BY <1>1, <1>2, PTL DEF Spec

\* Whatever failed, was compensated or timed out on the way, a transaction that is
\* committed holds no operation but those that were carried out, and has drawn exactly
\* what they say (L1_schematic_batch.ts failedBatchResponse, manager.ts commit).
THEOREM CommitsWholeBatches == Spec => []CommittedIsWhole
<1>1. AppliedSoFar /\ WholeSoFar => CommittedIsWhole
  BY DEF AppliedSoFar, WholeSoFar, Whole, CommittedIsWhole
<1> QED BY <1>1, SpecWholeSoFar, PTL

-----------------------------------------------------------------------------
(***************************************************************************)
(* What a transaction that is rolled back has left.                        *)
(*                                                                         *)
(* Two histories are restored exactly: one in which no bridge call failed, *)
(* whatever it wrote, and one that wrote to no primitive twice, whatever   *)
(* failed, unless it is the recreation of a deleted primitive: that is     *)
(* tried again, and a primitive whose recreation was not verified is then  *)
(* there twice.                                                            *)
(***************************************************************************)

Exact == faults = 0 \/ (WrittenOnce /\ "delete" \notin FaultyUndos)

Undone == {"cancelled", "rolled-back"}
FirstWrite(i) == \A j \in DOMAIN log : log[j].target = log[i].target => i <= j

\* An id that has not been handed out names nothing.
FreshIsFree ==
  /\ \A id \in Ids : id >= fresh => doc[id] = Absent /\ original[id] = Absent
  /\ born < fresh
  /\ \A i \in DOMAIN log : log[i].target < fresh

EntryShape ==
  \A i \in DOMAIN log :
    /\ log[i].kind # "create" => log[i].target \in Ids /\ log[i].before \in Values
    /\ log[i].kind = "create" => log[i].before = Absent

\* On each primitive the first operation has read the original, only the first may
\* have created it and only the last may have deleted it.
Targets ==
  \A i \in DOMAIN log :
    log[i].target # Unknown =>
      /\ FirstWrite(i) => log[i].before = original[log[i].target]
      /\ log[i].kind = "create" => FirstWrite(i)
      /\ log[i].kind = "delete" => LastWrite(i)
      /\ \/ original[log[i].target] # Absent
         \/ \E k \in DOMAIN log : log[k].kind = "create" /\ log[k].target = log[i].target

Untouched ==
  \A id \in Ids :
    original[id] # Absent /\ (\A i \in DOMAIN log : log[i].target # id) => doc[id] = original[id]

\* A primitive that a failing create left is named by its entry, or that entry can
\* never be restored.
BornIsLogged ==
  born # Unknown /\ original[born] = Absent /\ doc[born] # Absent =>
    \E i \in DOMAIN log :
      /\ log[i].kind = "create"
      /\ \/ log[i].target = born
         \/ log[i].target = Unknown /\ log[i].state \in {"failed", "pending"}

PendingIsLast ==
  /\ \A i \in DOMAIN log : log[i].state = "pending" => step = "compensate" /\ i = Now
  /\ step = "compensate" =>
       /\ faults > 0 /\ log[Now].state = "pending"
       /\ \A i \in DOMAIN log : i # Now => log[i].state = "applied"
       /\ log[Now].kind = "modify" => doc[log[Now].target] # Absent
       /\ log[Now].kind = "create" =>
            /\ log[Now].target \in {Unknown, born}
            /\ born # Unknown =>
                 /\ original[born] = Absent /\ doc[born] # Absent
                 /\ \A i \in DOMAIN log : i # Now => log[i].target # born

DeletedIsGone ==
  \A i \in DOMAIN log : log[i].kind = "delete" =>
    /\ log[i].state = "applied" => doc[log[i].target] = Absent
    /\ log[i].state = "pending" => doc[log[i].target] \in {Absent, log[i].before}
    /\ Exact /\ log[i].state = "cancelled" => doc[log[i].target] \in {Absent, log[i].before}
    /\ Exact /\ log[i].state = "rolled-back" => doc[log[i].target] = Absent

DeletesDoNotFail ==
  "delete" \notin FaultyUndos =>
    \A i \in DOMAIN log : log[i].kind = "delete" => log[i].state # "failed"

\* With no call failing, an operation is not restored only if its primitive is gone
\* for good, and none is restored before the later ones on the same primitive.
Faultless ==
  faults = 0 => \A i \in DOMAIN log :
    /\ log[i].state \in {"applied", "failed", "rolled-back"} /\ log[i].target # Unknown
    /\ log[i].state = "failed" => log[i].kind # "delete" /\ doc[log[i].target] = Absent
    /\ log[i].state = "rolled-back" /\ log[i].kind # "delete" =>
         \A j \in DOMAIN log : log[j].target = log[i].target /\ i < j =>
           log[j].state = "rolled-back" /\ log[j].kind # "delete"

FirstIsUndone ==
  Exact => \A i \in DOMAIN log :
    log[i].target # Unknown /\ log[i].kind # "delete" /\ log[i].state \in Undone /\ FirstWrite(i) =>
      doc[log[i].target] = log[i].before

\* Whatever a rollback has not undone is on its list, or recorded as missed.
Restoring ==
  /\ step = "restore" => \A i \in DOMAIN log :
       /\ i \in todo => log[i].state \in {"applied", "failed"}
       /\ i \notin todo => log[i].state # "applied"
       /\ i \notin todo /\ ~ missed => log[i].state \in Undone
  /\ tx = "rolled-back" => \A i \in DOMAIN log : log[i].state \in Undone

\* Primitives that were neither there at first nor created by an operation ...
Recreated ==
  {id \in Ids \ {born} : /\ original[id] = Absent /\ doc[id] # Absent
                         /\ \A i \in DOMAIN log : log[i].kind = "create" => log[i].target # id}

\* ... and the deletions that they undo.
Replaced ==
  {i \in DOMAIN log : /\ log[i].kind = "delete" /\ log[i].state \in Undone
                      /\ doc[log[i].target] = Absent}

RecreatedAs(v) == {id \in Recreated : doc[id] = v}
ReplacedAs(v) == {i \in Replaced : log[i].before = v}

NoneUndone == \A i \in DOMAIN log : log[i].state \in {"applied", "pending"}
NothingRecreatedYet == NoneUndone => Recreated = {}

SameNumber ==
  Exact => \A v \in Values : Cardinality(RecreatedAs(v)) = Cardinality(ReplacedAs(v))

DrawInv ==
  /\ FreshIsFree /\ EntryShape /\ Targets /\ Untouched /\ BornIsLogged
  /\ PendingIsLast /\ DeletedIsGone /\ DeletesDoNotFail /\ Faultless
  /\ FirstIsUndone /\ Restoring /\ NothingRecreatedYet /\ SameNumber

\* The log after an entry is settled or restored.
EntryBecomes(n, target, s) ==
  /\ n \in DOMAIN log /\ DOMAIN log' = DOMAIN log /\ Len(log') = Len(log)
  /\ \A i \in DOMAIN log : i # n => log'[i] = log[i]
  /\ log'[n].kind = log[n].kind /\ log'[n].value = log[n].value
  /\ log'[n].before = log[n].before
  /\ log'[n].target = target /\ log'[n].state = s

LEMMA UpdateBecomes ==
  ASSUME TypeOK, NEW i \in DOMAIN log, NEW target \in Ids \cup {Unknown}, NEW s \in EntryStates,
         log' = [log EXCEPT ![i] = [[log[i] EXCEPT !.target = target] EXCEPT !.state = s]]
  PROVE  EntryBecomes(i, target, s)
<1> DEFINE e == [[log[i] EXCEPT !.target = target] EXCEPT !.state = s]
<1>1. /\ e.kind = log[i].kind /\ e.value = log[i].value /\ e.before = log[i].before
      /\ e.target = target /\ e.state = s
  BY EntryFields DEF Entry, EntryStates
<1> HIDE DEF e
<1>2. log' = [log EXCEPT ![i] = e]
  BY DEF e
<1>3. log \in Seq(Entry) /\ log' \in Seq(Entry)
  BY UpdateKeepsType DEF TypeOK
<1>4. DOMAIN log' = DOMAIN log /\ DOMAIN log = 1..Len(log) /\ DOMAIN log' = 1..Len(log')
  BY <1>2, <1>3, LenProperties
<1>5. Len(log') = Len(log)
  BY <1>3, <1>4, LenProperties
<1> QED BY <1>1, <1>2, <1>4, <1>5 DEF EntryBecomes

LEMMA SettleBecomes ==
  ASSUME TypeOK, log # << >>, NEW target \in Ids \cup {Unknown}, NEW compensated \in BOOLEAN,
         Settle(target, compensated)
  PROVE  EntryBecomes(Now, target, IF compensated THEN "cancelled" ELSE "failed")
<1> DEFINE s == IF compensated THEN "cancelled" ELSE "failed"
<1>1. Now \in DOMAIN log
  BY DEF Now, TypeOK
<1>2. s \in EntryStates
  BY DEF EntryStates
<1>3. log' = [log EXCEPT ![Now].target = target, ![Now].state = s]
  BY DEF Settle
<1>4. log' = [log EXCEPT ![Now] = [[log[Now] EXCEPT !.target = target] EXCEPT !.state = s]]
  BY <1>1, <1>3
<1> QED BY <1>1, <1>2, <1>4, UpdateBecomes

LEMMA RestoreBecomes ==
  ASSUME TypeOK, NEW i \in DOMAIN log, NEW s \in EntryStates,
         log' = [log EXCEPT ![i].state = s]
  PROVE  EntryBecomes(i, log[i].target, s)
<1>1. log[i].target \in Ids \cup {Unknown} /\ log[i] \in Entry
  BY EntryFields
<1>2. [log[i] EXCEPT !.state = s] = [[log[i] EXCEPT !.target = log[i].target] EXCEPT !.state = s]
  BY <1>1 DEF Entry
<1>3. log' = [log EXCEPT ![i] = [[log[i] EXCEPT !.target = log[i].target] EXCEPT !.state = s]]
  BY <1>2
<1> QED BY <1>1, <1>3, UpdateBecomes

\* What restoring operation i does to the drawing: in place, or under a new id.
InPlace(i, s) ==
  LET t == log[i].target
      there == t # Unknown /\ doc[t] # Absent
      restored == [doc EXCEPT ![t] = log[i].before]
  IN /\ log[i].kind # "delete" /\ fresh' = fresh
     /\ \/ s = "rolled-back" /\ there /\ doc' = restored /\ faults' = faults /\ missed' = missed
        \/ s = "failed" /\ ~ there /\ doc' = doc /\ faults' = faults /\ missed' = TRUE
        \/ s = "failed" /\ faults' = faults + 1 /\ missed' = TRUE
           /\ (doc' = doc \/ (there /\ doc' = restored))

Remade(i, s) ==
  LET recreated == doc' = [doc EXCEPT ![fresh] = log[i].before] /\ fresh' = fresh + 1
  IN /\ log[i].kind = "delete" /\ fresh \in Ids
     /\ \/ s = "rolled-back" /\ recreated /\ faults' = faults /\ missed' = missed
        \/ s = "failed" /\ "delete" \in FaultyUndos /\ faults' = faults + 1 /\ missed' = TRUE
           /\ (recreated \/ (doc' = doc /\ fresh' = fresh))

LEMMA RollbackSteps ==
  ASSUME TypeOK, Working, EntryShape, RollbackOperation
  PROVE  /\ step = "restore" /\ UNCHANGED <<original, born, tx, step>>
         /\ tx = "rolling-back"
         /\ \E i \in todo, s \in {"rolled-back", "failed"} :
              /\ \A j \in todo : j <= i
              /\ todo' = todo \ {i}
              /\ EntryBecomes(i, log[i].target, s)
              /\ InPlace(i, s) \/ Remade(i, s)
<1>1. /\ step = "restore" /\ UNCHANGED <<original, born, tx, step>> /\ tx = "rolling-back"
  BY DEF RollbackOperation, Working
<1>2. PICK i \in NextToRestore :
        /\ \/ log[i].kind = "create" /\ RestoreCreate(i)
           \/ log[i].kind = "modify" /\ RestoreModify(i)
           \/ log[i].kind = "delete" /\ RestoreDelete(i)
        /\ todo' = todo \ {i}
  BY DEF RollbackOperation
<1>3. i \in todo /\ i \in DOMAIN log /\ \A j \in todo : j <= i
  BY <1>2 DEF NextToRestore, TypeOK
<1>4. /\ Restored(i) => EntryBecomes(i, log[i].target, "rolled-back") /\ missed' = missed
      /\ NotRestored(i) => EntryBecomes(i, log[i].target, "failed") /\ missed' = TRUE
  BY <1>3, RestoreBecomes DEF Restored, NotRestored, EntryStates
<1>5. CASE log[i].kind = "create" /\ RestoreCreate(i)
  <2>1. log[i].before = Absent
    BY <1>3, <1>5 DEF EntryShape
  <2>2. \/ EntryBecomes(i, log[i].target, "rolled-back") /\ InPlace(i, "rolled-back")
        \/ EntryBecomes(i, log[i].target, "failed") /\ InPlace(i, "failed")
    BY <1>4, <1>5, <2>1 DEF RestoreCreate, InPlace, UndoMayFail
  <2> QED BY <1>1, <1>2, <1>3, <2>2
<1>6. CASE log[i].kind = "modify" /\ RestoreModify(i)
  <2>1. log[i].target # Unknown
    BY <1>3, <1>6 DEF EntryShape, Ids, Unknown
  <2>2. \/ EntryBecomes(i, log[i].target, "rolled-back") /\ InPlace(i, "rolled-back")
        \/ EntryBecomes(i, log[i].target, "failed") /\ InPlace(i, "failed")
    BY <1>4, <1>6, <2>1 DEF RestoreModify, InPlace, UndoMayFail
  <2> QED BY <1>1, <1>2, <1>3, <2>2
<1>7. CASE log[i].kind = "delete" /\ RestoreDelete(i)
  <2>2. \/ EntryBecomes(i, log[i].target, "rolled-back") /\ Remade(i, "rolled-back")
        \/ EntryBecomes(i, log[i].target, "failed") /\ Remade(i, "failed")
    BY <1>4, <1>7 DEF RestoreDelete, Remade, UndoMayFail
  <2> QED BY <1>1, <1>2, <1>3, <2>2
<1> QED BY <1>2, <1>5, <1>6, <1>7

\* Every compensation ends the work on the failing operation.
Compensated ==
  /\ step = "compensate" /\ step' = "fail" /\ Now \in DOMAIN log
  /\ tx \in {"active", "failed", "expired"} /\ tx' \in {tx, "failed"}
  /\ faults > 0 /\ faults' \in {faults, faults + 1}
  /\ UNCHANGED <<original, born>>

LEMMA SettleCompensates ==
  ASSUME TypeOK, Working, PendingIsLast, step = "compensate",
         NEW target \in Ids \cup {Unknown}, NEW c \in BOOLEAN, Settle(target, c),
         born' = born, faults' \in {faults, faults + 1}
  PROVE  Compensated /\ EntryBecomes(Now, target, IF c THEN "cancelled" ELSE "failed")
<1>1. log # << >> /\ tx \in {"active", "failed", "expired"}
  BY DEF Working
<1>2. Now \in DOMAIN log
  BY <1>1 DEF Now, TypeOK
<1>3. EntryBecomes(Now, target, IF c THEN "cancelled" ELSE "failed")
  BY <1>1, SettleBecomes
<1>4. step' = "fail" /\ tx' \in {tx, "failed"} /\ original' = original
  BY DEF Settle
<1> QED BY <1>1, <1>2, <1>3, <1>4 DEF Compensated, PendingIsLast

LEMMA CreateCompensated ==
  ASSUME TypeOK, Working, PendingIsLast, CompensateCreate
  PROVE  /\ Compensated /\ log[Now].kind = "create" /\ fresh' = fresh
         /\ \E target \in {born, Unknown}, s \in {"cancelled", "failed"} :
              /\ EntryBecomes(Now, target, s)
              /\ \/ target = born
                 \/ s = "failed" /\ target = log[Now].target
              /\ \/ doc' = doc /\ (s = "failed" \/ born = Unknown)
                 \/ target = born /\ born # Unknown /\ doc' = [doc EXCEPT ![born] = Absent]
<1>1. step = "compensate" /\ log[Now].kind = "create" /\ fresh' = fresh /\ born' = born
  BY DEF CompensateCreate, Failing
<1>2. born \in Ids \cup {Unknown}
  BY DEF TypeOK
<1>3. ASSUME NEW target \in {born, Unknown}, NEW c \in BOOLEAN, Settle(target, c),
             faults' \in {faults, faults + 1}
      PROVE  Compensated /\ EntryBecomes(Now, target, IF c THEN "cancelled" ELSE "failed")
  BY <1>1, <1>2, <1>3, SettleCompensates
<1>4. \/ /\ Settle(born, TRUE) /\ faults' = faults
         /\ doc' = IF born = Unknown THEN doc ELSE [doc EXCEPT ![born] = Absent]
      \/ /\ log[Now].target = Unknown /\ doc' = doc /\ Settle(Unknown, FALSE)
         /\ faults' = faults + 1
      \/ /\ born # Unknown /\ Settle(born, FALSE) /\ faults' = faults + 1
         /\ doc' \in {doc, [doc EXCEPT ![born] = Absent]}
  BY DEF CompensateCreate
<1>5. CASE Settle(born, TRUE) /\ faults' = faults
           /\ doc' = IF born = Unknown THEN doc ELSE [doc EXCEPT ![born] = Absent]
  <2>1. Compensated /\ EntryBecomes(Now, born, "cancelled")
    BY <1>3, <1>5
  <2> QED BY <1>1, <1>5, <2>1
<1>6. CASE log[Now].target = Unknown /\ doc' = doc /\ Settle(Unknown, FALSE)
           /\ faults' = faults + 1
  <2>1. Compensated /\ EntryBecomes(Now, Unknown, "failed")
    BY <1>3, <1>6
  <2> QED BY <1>1, <1>6, <2>1
<1>7. CASE /\ born # Unknown /\ Settle(born, FALSE) /\ faults' = faults + 1
           /\ doc' \in {doc, [doc EXCEPT ![born] = Absent]}
  <2>1. Compensated /\ EntryBecomes(Now, born, "failed")
    BY <1>3, <1>7
  <2> QED BY <1>1, <1>7, <2>1
<1> QED BY <1>4, <1>5, <1>6, <1>7

LEMMA ModifyCompensated ==
  ASSUME TypeOK, Working, PendingIsLast, CompensateModify
  PROVE  /\ Compensated /\ log[Now].kind = "modify" /\ fresh' = fresh
         /\ \E s \in {"cancelled", "failed"} :
              /\ EntryBecomes(Now, log[Now].target, s)
              /\ \/ doc' = [doc EXCEPT ![log[Now].target] = log[Now].before]
                 \/ s = "failed" /\ doc' = doc
<1>1. step = "compensate" /\ log[Now].kind = "modify" /\ fresh' = fresh /\ born' = born
  BY DEF CompensateModify, Failing
<1>2. log[Now].target \in Ids \cup {Unknown}
  BY <1>1, EntryFields DEF Working, Now, TypeOK
<1>3. ASSUME NEW c \in BOOLEAN, Settle(log[Now].target, c), faults' \in {faults, faults + 1}
      PROVE  /\ Compensated
             /\ EntryBecomes(Now, log[Now].target, IF c THEN "cancelled" ELSE "failed")
  BY <1>1, <1>2, <1>3, SettleCompensates
<1> DEFINE restored == [doc EXCEPT ![log[Now].target] = log[Now].before]
<1>4. /\ faults' \in {faults, faults + 1}
      /\ \/ doc' = restored /\ Settle(log[Now].target, TRUE)
         \/ doc' \in {doc, restored} /\ Settle(log[Now].target, FALSE)
  BY DEF CompensateModify
<1>5. ASSUME Settle(log[Now].target, TRUE)
      PROVE  Compensated /\ EntryBecomes(Now, log[Now].target, "cancelled")
  BY <1>3, <1>4, <1>5
<1>6. ASSUME Settle(log[Now].target, FALSE)
      PROVE  Compensated /\ EntryBecomes(Now, log[Now].target, "failed")
  BY <1>3, <1>4, <1>6
<1> QED BY <1>1, <1>4, <1>5, <1>6

LEMMA DeleteCompensated ==
  ASSUME TypeOK, Working, PendingIsLast, CompensateDelete
  PROVE  /\ Compensated /\ log[Now].kind = "delete"
         /\ \E s \in {"cancelled", "failed"} :
              /\ EntryBecomes(Now, log[Now].target, s)
              /\ s = "failed" => "delete" \in FaultyUndos
              /\ \/ UNCHANGED <<doc, fresh>> /\ (s = "failed" \/ doc[log[Now].target] # Absent)
                 \/ /\ fresh \in Ids /\ doc[log[Now].target] = Absent
                    /\ doc' = [doc EXCEPT ![fresh] = log[Now].before] /\ fresh' = fresh + 1
<1>1. step = "compensate" /\ log[Now].kind = "delete" /\ born' = born
  BY DEF CompensateDelete, Failing
<1>2. log[Now].target \in Ids \cup {Unknown}
  BY <1>1, EntryFields DEF Working, Now, TypeOK
<1>3. ASSUME NEW c \in BOOLEAN, Settle(log[Now].target, c), faults' \in {faults, faults + 1}
      PROVE  /\ Compensated
             /\ EntryBecomes(Now, log[Now].target, IF c THEN "cancelled" ELSE "failed")
  BY <1>1, <1>2, <1>3, SettleCompensates
<1> DEFINE gone == doc[log[Now].target] = Absent
           recreated == [doc EXCEPT ![fresh] = log[Now].before]
<1>4. /\ faults' \in {faults, faults + 1}
      /\ \/ Settle(log[Now].target, TRUE)
            /\ \/ ~ gone /\ UNCHANGED <<doc, fresh>>
               \/ gone /\ fresh \in Ids /\ doc' = recreated /\ fresh' = fresh + 1
         \/ Settle(log[Now].target, FALSE) /\ "delete" \in FaultyUndos
            /\ \/ UNCHANGED <<doc, fresh>>
               \/ gone /\ fresh \in Ids /\ doc' = recreated /\ fresh' = fresh + 1
  BY DEF CompensateDelete, UndoMayFail
<1>5. ASSUME Settle(log[Now].target, TRUE)
      PROVE  Compensated /\ EntryBecomes(Now, log[Now].target, "cancelled")
  BY <1>3, <1>4, <1>5
<1>6. ASSUME Settle(log[Now].target, FALSE)
      PROVE  Compensated /\ EntryBecomes(Now, log[Now].target, "failed")
  BY <1>3, <1>4, <1>6
<1> QED BY <1>1, <1>4, <1>5, <1>6

LEMMA EntriesInRange ==
  ASSUME TypeOK
  PROVE  /\ DOMAIN log = 1..Len(log) /\ Len(log) \in Nat
         /\ \A i \in DOMAIN log : i \in Nat /\ log[i].target \in Ids \cup {Unknown}
                                  /\ log[i].state \in EntryStates
<1>1. DOMAIN log = 1..Len(log) /\ Len(log) \in Nat
  BY LenProperties DEF TypeOK
<1> QED BY <1>1, EntryFields

LEMMA InitDrawInv == ASSUME Init PROVE DrawInv
<1>1. log = << >> /\ step = "idle" /\ tx = "none" /\ born = Unknown /\ original = doc
  BY DEF Init
<1>2. DOMAIN log = {}
  BY <1>1
<1>3. FreshIsFree
  <2>1. doc = [id \in Ids |-> IF id \in DOMAIN Drawing THEN Drawing[id] ELSE Absent]
        /\ fresh = Len(Drawing) + 1
    BY DEF Init
  <2>2. DOMAIN Drawing = 1..Len(Drawing) /\ Len(Drawing) \in Nat
    BY BatchAssumption, LenProperties
  <2> QED BY <1>1, <1>2, <2>1, <2>2 DEF FreshIsFree, Ids, Unknown
<1>4. Recreated = {} /\ Replaced = {}
  BY <1>1, <1>2 DEF Recreated, Replaced
<1>5. SameNumber /\ NothingRecreatedYet
  <2>1. \A v \in Values : RecreatedAs(v) = {} /\ ReplacedAs(v) = {}
    BY <1>4 DEF RecreatedAs, ReplacedAs
  <2> QED BY <1>4, <2>1 DEF SameNumber, NothingRecreatedYet
<1>6. EntryShape /\ Targets /\ Untouched /\ BornIsLogged
  BY <1>1, <1>2 DEF EntryShape, Targets, Untouched, BornIsLogged
<1>7. PendingIsLast /\ DeletedIsGone /\ DeletesDoNotFail /\ Faultless /\ FirstIsUndone /\ Restoring
  BY <1>1, <1>2 DEF PendingIsLast, DeletedIsGone, DeletesDoNotFail, Faultless, FirstIsUndone, Restoring
<1> QED BY <1>3, <1>5, <1>6, <1>7 DEF DrawInv

LEMMA ScratchDrawInv ==
  ASSUME TypeOK, DrawInv, FromScratch
  PROVE  DrawInv'
<1>1. /\ log' = << >> /\ step' \in {"idle", "run"} /\ tx' = "active" /\ original' = doc
      /\ UNCHANGED <<doc, fresh, born, faults>>
  BY DEF FromScratch
<1>2. DOMAIN log' = {}
  BY <1>1
<1>3. FreshIsFree'
  BY <1>1, <1>2 DEF FreshIsFree, DrawInv
<1>4. Recreated' = {} /\ Replaced' = {}
  BY <1>1, <1>2 DEF Recreated, Replaced
<1>5. SameNumber' /\ NothingRecreatedYet'
  <2>1. \A v \in Values : RecreatedAs(v)' = {} /\ ReplacedAs(v)' = {}
    BY <1>4 DEF RecreatedAs, ReplacedAs
  <2> QED BY <1>4, <2>1 DEF SameNumber, NothingRecreatedYet
<1>6. EntryShape' /\ Targets' /\ Untouched' /\ BornIsLogged'
  BY <1>1, <1>2 DEF EntryShape, Targets, Untouched, BornIsLogged
<1>7. (PendingIsLast /\ DeletedIsGone /\ DeletesDoNotFail /\ Faultless /\ FirstIsUndone /\ Restoring)'
  BY <1>1, <1>2 DEF PendingIsLast, DeletedIsGone, DeletesDoNotFail, Faultless, FirstIsUndone, Restoring
<1> QED BY <1>3, <1>5, <1>6, <1>7 DEF DrawInv

LEMMA SteadyDrawInv ==
  ASSUME TypeOK, DrawInv, Steady
  PROVE  DrawInv'
<1>1. UNCHANGED <<doc, original, fresh, born, log>> /\ faults' \in {faults, faults + 1}
      /\ faults \in Nat
  BY BatchAssumption DEF Steady, TypeOK
<1>2. (faults' = 0 => faults = 0) /\ (Exact' => Exact)
  BY <1>1 DEF Exact, WrittenOnce
<1>3. (FreshIsFree /\ EntryShape /\ Untouched /\ BornIsLogged)'
  BY <1>1 DEF DrawInv, FreshIsFree, EntryShape, Untouched, BornIsLogged
<1>4. Targets'
  BY <1>1 DEF DrawInv, Targets, FirstWrite, LastWrite
<1>5. PendingIsLast'
  <2>1. step' = "compensate" <=> step = "compensate"
    BY DEF Steady
  <2>2. Now' = Now /\ (faults > 0 => faults' > 0)
    BY <1>1 DEF Now
  <2> QED BY <1>1, <2>1, <2>2 DEF DrawInv, PendingIsLast
<1>6. (DeletedIsGone /\ DeletesDoNotFail /\ Faultless)'
  BY <1>1, <1>2 DEF DrawInv, DeletedIsGone, DeletesDoNotFail, Faultless
<1>7. FirstIsUndone'
  BY <1>1, <1>2 DEF DrawInv, FirstIsUndone, FirstWrite
<1>8. Restoring'
  <2>1. ASSUME step' = "restore", NEW i \in DOMAIN log'
        PROVE  /\ i \in todo' => log'[i].state \in {"applied", "failed"}
               /\ i \notin todo' => log'[i].state # "applied"
               /\ i \notin todo' /\ ~ missed' => log'[i].state \in Undone
    <3>1. i \in DOMAIN log /\ log'[i] = log[i]
      BY <1>1, <2>1
    <3>2. CASE step = "restore" /\ todo' = todo /\ missed' = missed
      BY <3>1, <3>2 DEF DrawInv, Restoring
    <3>3. CASE step # "compensate" /\ todo' = Unresolved
      <4>1. log[i].state \in EntryStates \ {"pending"}
        BY <3>1, <3>3, EntriesInRange DEF DrawInv, PendingIsLast
      <4>2. i \in todo' <=> log[i].state \in {"applied", "failed"}
        BY <3>1, <3>3 DEF Unresolved, IsUnresolved
      <4> QED BY <3>1, <4>1, <4>2 DEF EntryStates, Undone
    <3> QED BY <2>1, <3>2, <3>3 DEF Steady
  <2>2. ASSUME tx' = "rolled-back", NEW i \in DOMAIN log' PROVE log'[i].state \in Undone
    BY <1>1, <2>2 DEF Steady, DrawInv, Restoring
  <2> QED BY <2>1, <2>2 DEF Restoring
<1>9. NothingRecreatedYet' /\ SameNumber'
  <2>1. Recreated' = Recreated /\ Replaced' = Replaced /\ (NoneUndone' => NoneUndone)
    BY <1>1 DEF Recreated, Replaced, NoneUndone
  <2>2. \A v \in Values : RecreatedAs(v)' = RecreatedAs(v) /\ ReplacedAs(v)' = ReplacedAs(v)
    BY <1>1, <2>1 DEF RecreatedAs, ReplacedAs
  <2> QED BY <1>2, <2>1, <2>2 DEF DrawInv, NothingRecreatedYet, SameNumber
<1> QED BY <1>3, <1>4, <1>5, <1>6, <1>7, <1>8, <1>9 DEF DrawInv

\* While a batch runs on, nothing has been undone.
LEMMA GrownCount ==
  ASSUME NothingRecreatedYet', NoneUndone'
  PROVE  SameNumber'
<1>1. Recreated' = {} /\ Replaced' = {}
  BY DEF NothingRecreatedYet, NoneUndone, Replaced, Undone
<1>2. \A v \in Values : RecreatedAs(v)' = {} /\ ReplacedAs(v)' = {}
  BY <1>1 DEF RecreatedAs, ReplacedAs
<1> QED BY <1>2 DEF SameNumber

\* The parts of the invariant that an operation cannot disturb, because nothing has
\* been undone.
LEMMA GrownStates ==
  ASSUME TypeOK, DrawInv, RunsOn, NEW kind, NEW target, NEW value, NEW before,
         NEW s \in {"applied", "pending"}, Grown(kind, target, value, before, s),
         tx' = "active", step' = IF s = "applied" THEN "run" ELSE "compensate",
         faults' = IF s = "applied" THEN faults ELSE faults + 1,
         s = "applied" => target # Unknown
  PROVE  /\ NoneUndone' /\ FirstIsUndone' /\ Restoring' /\ DeletesDoNotFail' /\ Faultless'
         /\ \A i \in DOMAIN log' : log'[i].state = "pending" => step' = "compensate" /\ i = Now'
         /\ step' = "compensate" =>
              /\ faults' > 0 /\ log'[Now'].state = "pending"
              /\ \A i \in DOMAIN log' : i # Now' => log'[i].state = "applied"
<1> DEFINE n == Len(log) + 1
<1>1. /\ DOMAIN log' = DOMAIN log \cup {n} /\ n \notin DOMAIN log /\ Now' = n
      /\ \A i \in DOMAIN log : log'[i] = log[i] /\ log[i].state = "applied"
      /\ log'[n].state = s /\ log'[n].target = target
  BY DEF Grown, RunsOn, Now
<1>2. faults \in Nat
  BY BatchAssumption DEF TypeOK
<1>3. NoneUndone' /\ FirstIsUndone' /\ DeletesDoNotFail'
  BY <1>1 DEF NoneUndone, FirstIsUndone, DeletesDoNotFail, Undone
<1>4. Restoring'
  BY <1>1 DEF Restoring
<1>5. Faultless'
  BY <1>1, <1>2 DEF Faultless, DrawInv
<1>6. step' = "compensate" => s = "pending"
  OBVIOUS
<1> QED BY <1>1, <1>2, <1>3, <1>4, <1>5, <1>6

LEMMA CreateDrawInv ==
  ASSUME TypeOK, AppliedSoFar, DrawInv, RunCreate
  PROVE  DrawInv'
<1>0. PICK n : n = Len(log) + 1
  OBVIOUS
<1>1. /\ RunsOn /\ fresh \in Ids /\ Request.value \in Values
      /\ original' = original /\ tx' = "active"
  BY CreateGrows
<1>2. PICK target \in {fresh, Unknown}, s \in {"applied", "pending"} :
        /\ Grown("create", target, Request.value, Absent, s)
        /\ step' = IF s = "applied" THEN "run" ELSE "compensate"
        /\ faults' = IF s = "applied" THEN faults ELSE faults + 1
        /\ \/ /\ doc' = [doc EXCEPT ![fresh] = Request.value] /\ fresh' = fresh + 1
              /\ \/ s = "applied" /\ born' = born /\ target = fresh
                 \/ s = "pending" /\ born' = fresh
           \/ UNCHANGED <<doc, fresh>> /\ born' = Unknown /\ target = Unknown /\ s = "pending"
  BY CreateGrows
<1>3. /\ DOMAIN log' = DOMAIN log \cup {n} /\ n \notin DOMAIN log /\ Now' = n
      /\ \A i \in DOMAIN log : /\ log'[i] = log[i] /\ i < n /\ log[i].state = "applied"
                               /\ log[i].target < fresh
      /\ log'[n].kind = "create" /\ log'[n].target = target /\ log'[n].before = Absent
      /\ log'[n].state = s /\ n \in Nat
  BY <1>0, <1>1, <1>2, EntriesInRange DEF Grown, RunsOn, Now, DrawInv, FreshIsFree
<1>4. /\ fresh \in Nat \ {0} /\ born \in Nat /\ original[fresh] = Absent /\ doc[fresh] = Absent
      /\ born < fresh /\ doc \in [Ids -> Values \cup {Absent}] /\ Unknown = 0
      /\ \A i \in DOMAIN log : log[i].target \in Nat
  BY <1>1, EntriesInRange DEF TypeOK, DrawInv, FreshIsFree, Ids, Unknown
<1>5. FreshIsFree'
  <2>1. fresh' \in {fresh, fresh + 1} /\ born' < fresh' /\ target < fresh'
    BY <1>2, <1>4
  <2>2. ASSUME NEW id \in Ids, id >= fresh' PROVE doc'[id] = Absent /\ original'[id] = Absent
    <3>1. id >= fresh /\ doc'[id] = doc[id]
      BY <1>2, <1>4, <2>1, <2>2, BatchAssumption DEF Ids
    <3> QED BY <1>1, <3>1 DEF FreshIsFree, DrawInv
  <2>3. \A i \in DOMAIN log' : log'[i].target < fresh'
    BY <1>3, <1>4, <2>1
  <2> QED BY <2>1, <2>2, <2>3 DEF FreshIsFree
<1>6. EntryShape'
  BY <1>3 DEF EntryShape, DrawInv
<1>7. Targets'
  <2>1. ASSUME NEW i \in DOMAIN log, log[i].target # Unknown
        PROVE  /\ FirstWrite(i)' => FirstWrite(i)
               /\ FirstWrite(i) => FirstWrite(i)'
               /\ LastWrite(i) => LastWrite(i)'
    BY <1>3, <1>4, <2>1 DEF FirstWrite, LastWrite
  <2>2. ASSUME target = fresh PROVE FirstWrite(n)'
    BY <1>3, <1>4, <2>2 DEF FirstWrite
  <2>3. ASSUME NEW i \in DOMAIN log, log'[i].target # Unknown
        PROVE  /\ FirstWrite(i)' => log'[i].before = original'[log'[i].target]
               /\ log'[i].kind = "create" => FirstWrite(i)'
               /\ log'[i].kind = "delete" => LastWrite(i)'
               /\ \/ original'[log'[i].target] # Absent
                  \/ \E k \in DOMAIN log' : log'[k].kind = "create" /\ log'[k].target = log'[i].target
    BY <1>1, <1>3, <2>1, <2>3 DEF DrawInv, Targets
  <2>4. ASSUME target # Unknown
        PROVE  /\ log'[n].before = original'[log'[n].target] /\ FirstWrite(n)'
               /\ log'[n].kind = "create"
    BY <1>1, <1>2, <1>3, <1>4, <2>2, <2>4
  <2> QED BY <1>3, <2>3, <2>4 DEF Targets
<1>8. Untouched'
  BY <1>1, <1>2, <1>3, <1>4 DEF Untouched, DrawInv
<1>9. BornIsLogged'
  <2>1. CASE s = "applied"
    <3>1. born' = born /\ (born # Unknown => doc'[born] = doc[born])
      <4>1. born # Unknown => born \in Ids
        BY DEF TypeOK
      <4> QED BY <1>2, <1>4, <2>1, <4>1
    <3> QED BY <1>1, <1>3, <3>1 DEF BornIsLogged, DrawInv
  <2>2. CASE s = "pending"
    BY <1>2, <1>3, <2>2 DEF BornIsLogged
  <2> QED BY <2>1, <2>2
<1>10. /\ NoneUndone' /\ FirstIsUndone' /\ Restoring' /\ DeletesDoNotFail' /\ Faultless'
       /\ \A i \in DOMAIN log' : log'[i].state = "pending" => step' = "compensate" /\ i = Now'
       /\ step' = "compensate" =>
            /\ faults' > 0 /\ log'[Now'].state = "pending"
            /\ \A i \in DOMAIN log' : i # Now' => log'[i].state = "applied"
  <2>1. s = "applied" => target # Unknown
    BY <1>2, <1>4
  <2> QED BY <1>1, <1>2, <2>1, GrownStates
<1>11. PendingIsLast'
  <2>1. ASSUME step' = "compensate"
        PROVE  /\ log'[n].target \in {Unknown, born'}
               /\ born' # Unknown =>
                    /\ original'[born'] = Absent /\ doc'[born'] # Absent
                    /\ \A i \in DOMAIN log' : i # n => log'[i].target # born'
    <3>1. s = "pending"
      BY <1>2, <2>1
    <3>2. Request.value # Absent
      BY <1>1, BatchAssumption
    <3> QED BY <1>1, <1>2, <1>3, <1>4, <3>1, <3>2
  <2> QED BY <1>3, <1>10, <2>1 DEF PendingIsLast
<1>12. DeletedIsGone'
  <2>1. ASSUME NEW i \in DOMAIN log, log[i].kind = "delete"
        PROVE  doc'[log[i].target] = doc[log[i].target]
    <3>1. log[i].target \in Ids /\ log[i].target < fresh
      BY <1>3, <2>1 DEF DrawInv, EntryShape
    <3> QED BY <1>2, <1>4, <3>1
  <2> QED BY <1>3, <2>1 DEF DeletedIsGone, DrawInv
<1>13. NothingRecreatedYet'
  <2>1. ASSUME NEW id \in Ids \ {born'}, original'[id] = Absent, doc'[id] # Absent,
               \A i \in DOMAIN log' : log'[i].kind = "create" => log'[i].target # id
        PROVE  FALSE
    <3>1. \A i \in DOMAIN log : log[i].kind = "create" => log[i].target # id
      BY <1>3, <2>1
    <3>2. id # fresh /\ doc[id] # Absent
      BY <1>2, <1>3, <1>4, <2>1
    <3>3. id # born
      <4>1. id = born => \E i \in DOMAIN log :
                log[i].kind = "create" /\ (log[i].target = born \/ log[i].state \in {"failed", "pending"})
        BY <1>1, <1>4, <2>1, <3>2 DEF DrawInv, BornIsLogged, Ids
      <4> QED BY <1>3, <3>1, <4>1
    <3>4. Recreated = {}
      BY <1>3 DEF DrawInv, NothingRecreatedYet, NoneUndone
    <3> QED BY <1>1, <2>1, <3>1, <3>2, <3>3, <3>4 DEF Recreated
  <2> QED BY <2>1 DEF NothingRecreatedYet, Recreated
<1> QED BY <1>5, <1>6, <1>7, <1>8, <1>9, <1>10, <1>11, <1>12, <1>13, GrownCount DEF DrawInv

\* What a batch writes to is there, so that it was there at first or was created.
LEMMA ThereIsKnown ==
  ASSUME TypeOK, DrawInv, RunsOn, NEW id \in Ids, doc[id] # Absent
  PROVE  /\ id < fresh
         /\ \/ original[id] # Absent
            \/ \E k \in DOMAIN log : log[k].kind = "create" /\ log[k].target = id
         /\ (\A i \in DOMAIN log : log[i].target # id) => original[id] = doc[id]
<1>1. id < fresh
  BY BatchAssumption DEF DrawInv, FreshIsFree, TypeOK, Ids
<1>2. ASSUME original[id] = Absent
      PROVE  \E k \in DOMAIN log : log[k].kind = "create" /\ log[k].target = id
  <2>1. CASE id = born
    <3>1. born # Unknown
      BY <2>1 DEF Ids, Unknown
    <3> QED BY <1>2, <2>1, <3>1 DEF DrawInv, BornIsLogged, RunsOn
  <2>2. CASE id # born
    <3>1. Recreated = {}
      BY DEF DrawInv, NothingRecreatedYet, NoneUndone, RunsOn
    <3> QED BY <1>2, <2>2, <3>1 DEF Recreated
  <2> QED BY <2>1, <2>2
<1>3. (\A i \in DOMAIN log : log[i].target # id) => original[id] = doc[id]
  BY <1>2 DEF DrawInv, Untouched
<1> QED BY <1>1, <1>2, <1>3

LEMMA WriteDrawInv ==
  ASSUME TypeOK, AppliedSoFar, DrawInv, NEW kind \in {"modify", "delete"}, RunWrite(kind)
  PROVE  DrawInv'
<1>0. PICK n, t : n = Len(log) + 1 /\ t = Request.target
  OBVIOUS
<1>1. /\ RunsOn /\ t \in Ids /\ doc[t] \in Values /\ tx' = "active"
      /\ Request.value \in Values \cup {Absent}
      /\ kind = "modify" => Request.value \in Values
      /\ kind = "delete" => Request.value = Absent
      /\ UNCHANGED <<original, fresh, born>>
  BY <1>0, WriteGrows
<1>2. PICK s \in {"applied", "pending"} :
        /\ Grown(kind, t, Request.value, doc[t], s)
        /\ \/ doc' = [doc EXCEPT ![t] = Request.value]
           \/ s = "pending" /\ doc' = doc
        /\ step' = IF s = "applied" THEN "run" ELSE "compensate"
        /\ faults' = IF s = "applied" THEN faults ELSE faults + 1
  BY <1>0, WriteGrows
<1>3. /\ DOMAIN log' = DOMAIN log \cup {n} /\ n \notin DOMAIN log /\ Now' = n
      /\ \A i \in DOMAIN log : /\ log'[i] = log[i] /\ i < n /\ log[i].state = "applied"
                               /\ log[i].target < fresh
      /\ log'[n].kind = kind /\ log'[n].target = t /\ log'[n].before = doc[t]
      /\ log'[n].state = s /\ n \in Nat
  BY <1>0, <1>1, <1>2, EntriesInRange DEF Grown, RunsOn, Now, DrawInv, FreshIsFree
<1>4. /\ doc \in [Ids -> Values \cup {Absent}] /\ Absent \notin Values /\ doc[t] # Absent
      /\ \A id \in Ids : id # t => doc'[id] = doc[id]
      /\ \A id \in Ids : doc'[id] # Absent => doc[id] # Absent
      /\ t # Unknown /\ DOMAIN log \subseteq Nat
  <2>1. doc \in [Ids -> Values \cup {Absent}] /\ Absent \notin Values /\ doc[t] # Absent
        /\ t # Unknown /\ DOMAIN log \subseteq Nat
    BY <1>1, BatchAssumption, EntriesInRange DEF TypeOK, Ids, Unknown
  <2> QED BY <1>1, <1>2, <2>1
<1>5. /\ t < fresh
      /\ \/ original[t] # Absent
         \/ \E k \in DOMAIN log : log[k].kind = "create" /\ log[k].target = t
      /\ (\A i \in DOMAIN log : log[i].target # t) => original[t] = doc[t]
  BY <1>1, <1>4, ThereIsKnown
<1>6. FreshIsFree'
  <2>1. \A id \in Ids : id >= fresh' => doc'[id] = Absent /\ original'[id] = Absent
    BY <1>1, <1>4, <1>5 DEF DrawInv, FreshIsFree
  <2>2. \A i \in DOMAIN log' : log'[i].target < fresh'
    BY <1>1, <1>3, <1>5
  <2>3. born' < fresh'
    BY <1>1 DEF DrawInv, FreshIsFree
  <2> QED BY <2>1, <2>2, <2>3 DEF FreshIsFree
<1>7. EntryShape'
  BY <1>1, <1>3 DEF EntryShape, DrawInv
<1>8. \A i \in DOMAIN log : log[i].kind = "delete" => log[i].target # t
  BY <1>3, <1>4 DEF DrawInv, DeletedIsGone
<1>9. Targets'
  <2>1. ASSUME NEW i \in DOMAIN log
        PROVE  /\ FirstWrite(i)' => FirstWrite(i)
               /\ FirstWrite(i) => FirstWrite(i)'
               /\ log[i].target # t => (LastWrite(i) => LastWrite(i)')
    BY <1>3, <1>4 DEF FirstWrite, LastWrite
  <2>2. LastWrite(n)' /\ (FirstWrite(n)' => \A i \in DOMAIN log : log[i].target # t)
    BY <1>3, <1>4 DEF FirstWrite, LastWrite
  <2>3. ASSUME NEW i \in DOMAIN log, log'[i].target # Unknown
        PROVE  /\ FirstWrite(i)' => log'[i].before = original'[log'[i].target]
               /\ log'[i].kind = "create" => FirstWrite(i)'
               /\ log'[i].kind = "delete" => LastWrite(i)'
               /\ \/ original'[log'[i].target] # Absent
                  \/ \E k \in DOMAIN log' : log'[k].kind = "create" /\ log'[k].target = log'[i].target
    BY <1>1, <1>3, <1>8, <2>1, <2>3 DEF DrawInv, Targets
  <2>4. /\ FirstWrite(n)' => log'[n].before = original'[log'[n].target]
        /\ log'[n].kind # "create" /\ LastWrite(n)'
        /\ \/ original'[log'[n].target] # Absent
           \/ \E k \in DOMAIN log' : log'[k].kind = "create" /\ log'[k].target = log'[n].target
    BY <1>1, <1>3, <1>5, <2>2
  <2> QED BY <1>3, <2>3, <2>4 DEF Targets
<1>10. Untouched'
  BY <1>1, <1>3, <1>4 DEF Untouched, DrawInv
<1>11. BornIsLogged'
  <2>1. born # Unknown => born \in Ids
    BY DEF TypeOK
  <2> QED BY <1>1, <1>3, <1>4, <2>1 DEF BornIsLogged, DrawInv
<1>12. /\ NoneUndone' /\ FirstIsUndone' /\ Restoring' /\ DeletesDoNotFail' /\ Faultless'
       /\ \A i \in DOMAIN log' : log'[i].state = "pending" => step' = "compensate" /\ i = Now'
       /\ step' = "compensate" =>
            /\ faults' > 0 /\ log'[Now'].state = "pending"
            /\ \A i \in DOMAIN log' : i # Now' => log'[i].state = "applied"
  BY <1>1, <1>2, <1>4, GrownStates
<1>13. PendingIsLast'
  <2>1. kind = "modify" => doc'[t] # Absent
    BY <1>1, <1>2, <1>4
  <2> QED BY <1>3, <1>12, <2>1 DEF PendingIsLast
<1>14. DeletedIsGone'
  <2>1. ASSUME NEW i \in DOMAIN log, log[i].kind = "delete"
        PROVE  doc'[log[i].target] = doc[log[i].target]
    BY <1>4, <1>8, <2>1 DEF DrawInv, EntryShape
  <2>2. kind = "delete" => /\ s = "applied" => doc'[t] = Absent
                           /\ s = "pending" => doc'[t] \in {Absent, doc[t]}
    BY <1>1, <1>2, <1>4
  <2> QED BY <1>3, <2>1, <2>2 DEF DeletedIsGone, DrawInv
<1>15. NothingRecreatedYet'
  <2>1. Recreated' \subseteq Recreated
    BY <1>1, <1>3, <1>4 DEF Recreated
  <2> QED BY <1>3, <2>1 DEF DrawInv, NothingRecreatedYet, NoneUndone
<1> QED BY <1>6, <1>7, <1>9, <1>10, <1>11, <1>12, <1>13, <1>14, <1>15, GrownCount DEF DrawInv

\* The parts of the invariant that are about states only, after a compensation.
LEMMA CompensatedStates ==
  ASSUME TypeOK, DrawInv, Compensated, NEW target, NEW s \in {"cancelled", "failed"},
         EntryBecomes(Now, target, s)
  PROVE  /\ Restoring' /\ Faultless' /\ PendingIsLast' /\ NothingRecreatedYet'
         /\ Exact' => WrittenOnce' /\ "delete" \notin FaultyUndos
         /\ \A i \in DOMAIN log : i # Now => log[i].state = "applied"
         /\ log[Now].state = "pending" /\ NoneUndone
<1>0. PICK n : n = Now
  OBVIOUS
<1>1. /\ n \in DOMAIN log /\ DOMAIN log' = DOMAIN log /\ Now' = n
      /\ \A i \in DOMAIN log : i # n => log'[i] = log[i]
      /\ log'[n].state = s
  BY <1>0 DEF EntryBecomes, Now
<1>2. log[n].state = "pending" /\ \A i \in DOMAIN log : i # n => log[i].state = "applied"
  BY <1>0 DEF DrawInv, PendingIsLast, Compensated
<1>3. faults' > 0 /\ step' = "fail" /\ tx' # "rolled-back"
  BY BatchAssumption DEF Compensated, TypeOK
<1>4. Restoring' /\ Faultless'
  BY <1>3 DEF Restoring, Faultless
<1>5. PendingIsLast'
  BY <1>1, <1>2, <1>3 DEF PendingIsLast
<1>6. NothingRecreatedYet'
  BY <1>1 DEF NothingRecreatedYet, NoneUndone
<1>7. Exact' => WrittenOnce' /\ "delete" \notin FaultyUndos
  BY <1>3 DEF Exact
<1> QED BY <1>0, <1>1, <1>2, <1>4, <1>5, <1>6, <1>7 DEF NoneUndone

LEMMA CompensateCreateDrawInv ==
  ASSUME TypeOK, Working, DrawInv, CompensateCreate
  PROVE  DrawInv'
<1>0. PICK n : n = Now
  OBVIOUS
<1>a. PendingIsLast
  BY DEF DrawInv
<1>1. PICK target \in {born, Unknown}, s \in {"cancelled", "failed"} :
        /\ EntryBecomes(Now, target, s)
        /\ \/ target = born
           \/ s = "failed" /\ target = log[n].target
        /\ \/ doc' = doc /\ (s = "failed" \/ born = Unknown)
           \/ target = born /\ born # Unknown /\ doc' = [doc EXCEPT ![born] = Absent]
  BY <1>0, <1>a, CreateCompensated
<1>2. /\ Compensated /\ log[n].kind = "create" /\ n \in DOMAIN log
      /\ UNCHANGED <<fresh, born, original>>
  BY <1>0, <1>a, CreateCompensated DEF Compensated
<1>3. /\ DOMAIN log' = DOMAIN log
      /\ \A i \in DOMAIN log : i # n => log'[i] = log[i] /\ log[i].state = "applied"
      /\ log'[n].kind = "create" /\ log'[n].before = log[n].before
      /\ log'[n].target = target /\ log'[n].state = s
  BY <1>0, <1>1, <1>2, CompensatedStates DEF EntryBecomes
<1>4. /\ log[n].target \in {Unknown, born} /\ log[n].before = Absent
      /\ log[n].target # Unknown => target = log[n].target
      /\ born # Unknown =>
           /\ born \in Ids /\ original[born] = Absent
           /\ \A i \in DOMAIN log : i # n => log[i].target # born
  BY <1>0, <1>1, <1>2 DEF DrawInv, PendingIsLast, EntryShape, Compensated, TypeOK
<1>5. /\ doc \in [Ids -> Values \cup {Absent}] /\ DOMAIN log \subseteq Nat
      /\ \A id \in Ids : id # born => doc'[id] = doc[id]
      /\ \A id \in Ids : doc'[id] # Absent => doc[id] # Absent
  BY <1>1, EntriesInRange DEF TypeOK
<1>6. FreshIsFree'
  BY <1>1, <1>2, <1>3, <1>4, <1>5 DEF DrawInv, FreshIsFree
<1>7. EntryShape'
  <2>1. \A i \in DOMAIN log' : log'[i].kind = log[i].kind /\ log'[i].before = log[i].before
                            /\ (log'[i].kind # "create" => log'[i].target = log[i].target)
    BY <1>2, <1>3
  <2> QED BY <1>3, <2>1 DEF DrawInv, EntryShape
<1>8. Targets'
  <2>1. ASSUME NEW i \in DOMAIN log, i # n, log[i].target # Unknown
        PROVE  /\ FirstWrite(i)' => FirstWrite(i)
               /\ FirstWrite(i) => FirstWrite(i)'
               /\ LastWrite(i) => LastWrite(i)'
    <3>1. (log'[n].target = log'[i].target) <=> (log[n].target = log[i].target)
      BY <1>1, <1>3, <1>4, <2>1
    <3> QED BY <1>2, <1>3, <2>1, <3>1 DEF FirstWrite, LastWrite
  <2>2. ASSUME target # Unknown PROVE FirstWrite(n)'
    BY <1>1, <1>3, <1>4, <1>5, <2>2 DEF FirstWrite
  <2>3. ASSUME NEW i \in DOMAIN log, i # n, log'[i].target # Unknown
        PROVE  /\ FirstWrite(i)' => log'[i].before = original'[log'[i].target]
               /\ log'[i].kind = "create" => FirstWrite(i)'
               /\ log'[i].kind = "delete" => LastWrite(i)'
               /\ \/ original'[log'[i].target] # Absent
                  \/ \E k \in DOMAIN log' : log'[k].kind = "create" /\ log'[k].target = log'[i].target
    <3>1. \A k \in DOMAIN log : log[k].target = log[i].target => log'[k].target = log[i].target
      BY <1>3, <1>4, <2>3
    <3>2. \A k \in DOMAIN log : log'[k].kind = log[k].kind
      BY <1>2, <1>3
    <3> QED BY <1>2, <1>3, <2>1, <2>3, <3>1, <3>2 DEF DrawInv, Targets
  <2>4. ASSUME target # Unknown
        PROVE  /\ log'[n].before = original'[log'[n].target] /\ FirstWrite(n)'
               /\ log'[n].kind = "create"
    BY <1>1, <1>2, <1>3, <1>4, <2>2, <2>4
  <2>5. \A i \in DOMAIN log' : i \in DOMAIN log
    BY <1>3
  <2> QED BY <1>2, <1>3, <2>3, <2>4, <2>5 DEF Targets
<1>9. Untouched'
  <2>1. ASSUME NEW id \in Ids, original[id] # Absent, \A i \in DOMAIN log' : log'[i].target # id
        PROVE  doc'[id] = original[id]
    <3>1. \A i \in DOMAIN log : log[i].target # id
      BY <1>2, <1>3, <1>4, <2>1 DEF Ids, Unknown
    <3>2. id # born
      BY <1>4, <2>1 DEF Ids, Unknown
    <3> QED BY <1>5, <2>1, <3>1, <3>2 DEF DrawInv, Untouched
  <2> QED BY <1>2, <2>1 DEF Untouched
<1>10. BornIsLogged'
  <2>1. target = born \/ (target = Unknown /\ s = "failed")
    BY <1>1
  <2> QED BY <1>2, <1>3, <2>1 DEF BornIsLogged
<1>11. /\ Restoring' /\ Faultless' /\ PendingIsLast' /\ NothingRecreatedYet'
       /\ Exact' => WrittenOnce' /\ "delete" \notin FaultyUndos
       /\ NoneUndone
  BY <1>1, <1>2, CompensatedStates
<1>12. DeletedIsGone' /\ DeletesDoNotFail'
  <2>1. ASSUME NEW i \in DOMAIN log', log'[i].kind = "delete"
        PROVE  log'[i].state = "applied" /\ doc'[log'[i].target] = Absent
    <3>1. i # n /\ i \in DOMAIN log /\ log'[i] = log[i] /\ log[i].state = "applied"
          /\ log[i].target \in Ids
      BY <1>3, <2>1 DEF DrawInv, EntryShape
    <3>2. doc[log[i].target] = Absent
      BY <2>1, <3>1 DEF DrawInv, DeletedIsGone
    <3> QED BY <1>5, <3>1, <3>2
  <2> QED BY <2>1 DEF DeletedIsGone, DeletesDoNotFail
<1>13. FirstIsUndone'
  <2>1. ASSUME s = "cancelled", target # Unknown PROVE doc'[target] = log'[n].before
    BY <1>1, <1>3, <1>4, <1>5, <2>1
  <2>2. \A i \in DOMAIN log' : log'[i].state \in Undone => i = n /\ s = "cancelled"
    BY <1>3 DEF Undone
  <2> QED BY <1>3, <2>1, <2>2 DEF FirstIsUndone
<1>14. SameNumber'
  <2>1. Recreated' = {}
    <3>1. \A i \in DOMAIN log : log[i].kind = "create" /\ log[i].target # Unknown =>
             log'[i].kind = "create" /\ log'[i].target = log[i].target
      BY <1>2, <1>3, <1>4
    <3>2. Recreated' \subseteq Recreated
      BY <1>2, <1>3, <1>5, <3>1 DEF Recreated, Ids, Unknown
    <3> QED BY <1>11, <3>2 DEF DrawInv, NothingRecreatedYet
  <2>2. Replaced' = {}
    BY <1>3 DEF Replaced, Undone
  <2>3. \A v \in Values : RecreatedAs(v)' = {} /\ ReplacedAs(v)' = {}
    BY <2>1, <2>2 DEF RecreatedAs, ReplacedAs
  <2> QED BY <2>3 DEF SameNumber
<1> QED BY <1>6, <1>7, <1>8, <1>9, <1>10, <1>11, <1>12, <1>13, <1>14 DEF DrawInv

\* An operation whose state changes stays what it was on the primitive it was on.
LEMMA StatesOnly ==
  ASSUME TypeOK, DrawInv, original' = original, NEW n, NEW s, EntryBecomes(n, log[n].target, s)
  PROVE  /\ n \in DOMAIN log /\ DOMAIN log' = DOMAIN log /\ log'[n].state = s
         /\ \A i \in DOMAIN log :
              /\ log'[i].kind = log[i].kind /\ log'[i].target = log[i].target
              /\ log'[i].before = log[i].before
              /\ i # n => log'[i].state = log[i].state
         /\ \A i \in DOMAIN log : FirstWrite(i)' <=> FirstWrite(i)
         /\ WrittenOnce' => WrittenOnce
         /\ EntryShape' /\ Targets'
<1>1. /\ n \in DOMAIN log /\ DOMAIN log' = DOMAIN log /\ log'[n].state = s
      /\ \A i \in DOMAIN log :
           /\ log'[i].kind = log[i].kind /\ log'[i].target = log[i].target
           /\ log'[i].before = log[i].before
           /\ i # n => log'[i].state = log[i].state
  BY DEF EntryBecomes
<1>2. \A i \in DOMAIN log : (FirstWrite(i)' <=> FirstWrite(i)) /\ (LastWrite(i)' <=> LastWrite(i))
  BY <1>1 DEF FirstWrite, LastWrite
<1>3. WrittenOnce' => WrittenOnce
  BY <1>1 DEF WrittenOnce
<1>4. EntryShape'
  BY <1>1 DEF EntryShape, DrawInv
<1>5. Targets'
  BY <1>1, <1>2 DEF Targets, DrawInv
<1> QED BY <1>1, <1>2, <1>3, <1>4, <1>5

LEMMA CompensateModifyDrawInv ==
  ASSUME TypeOK, Working, DrawInv, CompensateModify
  PROVE  DrawInv'
<1>0. PICK n, t : n = Now /\ t = log[n].target
  OBVIOUS
<1>a. PendingIsLast
  BY DEF DrawInv
<1>1. PICK s \in {"cancelled", "failed"} :
        /\ EntryBecomes(Now, log[Now].target, s)
        /\ \/ doc' = [doc EXCEPT ![t] = log[n].before]
           \/ s = "failed" /\ doc' = doc
  BY <1>0, <1>a, ModifyCompensated
<1>2. /\ Compensated /\ log[n].kind = "modify" /\ UNCHANGED <<fresh, born, original>>
  BY <1>0, <1>a, ModifyCompensated DEF Compensated
<1>3. /\ Restoring' /\ Faultless' /\ PendingIsLast' /\ NothingRecreatedYet'
      /\ Exact' => WrittenOnce' /\ "delete" \notin FaultyUndos
      /\ \A i \in DOMAIN log : i # n => log[i].state = "applied"
      /\ NoneUndone
  BY <1>0, <1>1, <1>2, CompensatedStates
<1>4. /\ n \in DOMAIN log /\ DOMAIN log' = DOMAIN log /\ log'[n].state = s
      /\ \A i \in DOMAIN log :
           /\ log'[i].kind = log[i].kind /\ log'[i].target = log[i].target
           /\ log'[i].before = log[i].before
           /\ i # n => log'[i].state = "applied"
      /\ \A i \in DOMAIN log : FirstWrite(i)' <=> FirstWrite(i)
      /\ EntryShape' /\ Targets'
  BY <1>0, <1>1, <1>2, <1>3, StatesOnly
<1>5. /\ doc \in [Ids -> Values \cup {Absent}] /\ t \in Ids /\ log[n].before # Absent
      /\ doc[t] # Absent /\ t < fresh
  BY <1>0, <1>2, <1>4, BatchAssumption
  DEF DrawInv, EntryShape, PendingIsLast, Compensated, FreshIsFree, TypeOK
<1>6. /\ \A id \in Ids : id # t => doc'[id] = doc[id]
      /\ \A id \in Ids : doc'[id] # Absent <=> doc[id] # Absent
      /\ s = "cancelled" => doc'[t] = log[n].before
  BY <1>1, <1>5
<1>7. FreshIsFree'
  BY <1>2, <1>4, <1>5, <1>6 DEF DrawInv, FreshIsFree
<1>8. Untouched'
  <2>1. ASSUME NEW id \in Ids, original[id] # Absent, \A i \in DOMAIN log' : log'[i].target # id
        PROVE  doc'[id] = original[id]
    <3>1. id # t /\ \A i \in DOMAIN log : log[i].target # id
      BY <1>0, <1>4, <2>1
    <3> QED BY <1>6, <2>1, <3>1 DEF DrawInv, Untouched
  <2> QED BY <1>2, <2>1 DEF Untouched
<1>9. BornIsLogged'
  <2>1. ASSUME born # Unknown, original[born] = Absent, doc'[born] # Absent
        PROVE  \E i \in DOMAIN log' :
                 /\ log'[i].kind = "create"
                 /\ \/ log'[i].target = born
                    \/ log'[i].target = Unknown /\ log'[i].state \in {"failed", "pending"}
    <3>1. born \in Ids
      BY <2>1 DEF TypeOK
    <3>2. PICK i \in DOMAIN log :
            /\ log[i].kind = "create"
            /\ \/ log[i].target = born
               \/ log[i].target = Unknown /\ log[i].state \in {"failed", "pending"}
      BY <1>6, <2>1, <3>1 DEF DrawInv, BornIsLogged
    <3>3. i # n
      BY <1>2, <3>2
    <3>4. log[i].state = "applied"
      BY <1>3, <3>3
    <3> QED BY <1>4, <3>2, <3>4
  <2> QED BY <1>2, <2>1 DEF BornIsLogged
<1>10. DeletedIsGone' /\ DeletesDoNotFail'
  <2>1. ASSUME NEW i \in DOMAIN log', log'[i].kind = "delete"
        PROVE  log'[i].state = "applied" /\ doc'[log'[i].target] = Absent
    <3>1. i # n /\ i \in DOMAIN log /\ log'[i].target = log[i].target
          /\ log[i].kind = "delete"
      BY <1>2, <1>4, <2>1
    <3>2. log[i].state = "applied" /\ log'[i].state = "applied"
      BY <1>3, <1>4, <3>1
    <3>3. log[i].target \in Ids /\ doc[log[i].target] = Absent
      BY <3>1, <3>2 DEF DrawInv, DeletedIsGone, EntryShape
    <3> QED BY <1>6, <3>1, <3>2, <3>3
  <2> QED BY <2>1 DEF DeletedIsGone, DeletesDoNotFail
<1>11. FirstIsUndone'
  <2>1. \A i \in DOMAIN log' : log'[i].state \in Undone => i = n /\ s = "cancelled"
    BY <1>4 DEF Undone
  <2> QED BY <1>0, <1>4, <1>6, <2>1 DEF FirstIsUndone
<1>12. SameNumber'
  <2>1. Recreated' = {}
    <3>1. Recreated' \subseteq Recreated
      BY <1>2, <1>4, <1>6 DEF Recreated
    <3> QED BY <1>3, <3>1 DEF DrawInv, NothingRecreatedYet
  <2>2. Replaced' = {}
    BY <1>2, <1>4 DEF Replaced, Undone
  <2>3. \A v \in Values : RecreatedAs(v)' = {} /\ ReplacedAs(v)' = {}
    BY <2>1, <2>2 DEF RecreatedAs, ReplacedAs
  <2> QED BY <2>3 DEF SameNumber
<1> QED BY <1>3, <1>4, <1>7, <1>8, <1>9, <1>10, <1>11, <1>12 DEF DrawInv

\* A primitive that comes back under a new id is none that was there or was written to.
LEMMA RecreationIsNew ==
  ASSUME TypeOK, DrawInv, UNCHANGED <<original, born>>, NEW n, NEW s,
         EntryBecomes(n, log[n].target, s), log[n].kind = "delete",
         \/ UNCHANGED <<doc, fresh>>
         \/ fresh \in Ids /\ doc' = [doc EXCEPT ![fresh] = log[n].before] /\ fresh' = fresh + 1
  PROVE  /\ FreshIsFree' /\ Untouched' /\ BornIsLogged'
         /\ \A i \in DOMAIN log : log[i].target \in Ids => doc'[log[i].target] = doc[log[i].target]
         /\ fresh \in Ids =>
              /\ fresh # born /\ original[fresh] = Absent /\ doc[fresh] = Absent
              /\ \A i \in DOMAIN log : log[i].target # fresh
<1>1. /\ n \in DOMAIN log /\ DOMAIN log' = DOMAIN log
      /\ \A i \in DOMAIN log :
           /\ log'[i].kind = log[i].kind /\ log'[i].target = log[i].target
           /\ i # n => log'[i].state = log[i].state
  BY StatesOnly
<1>2. /\ doc \in [Ids -> Values \cup {Absent}] /\ fresh \in Nat \ {0} /\ born \in Nat
      /\ born < fresh /\ (\A id \in Ids : id \in Nat) /\ (born # Unknown => born \in Ids)
  BY BatchAssumption DEF TypeOK, DrawInv, FreshIsFree, Ids, Unknown
<1>3. \A i \in DOMAIN log : log[i].target \in Nat /\ log[i].target < fresh
  BY EntriesInRange DEF DrawInv, FreshIsFree, Ids, Unknown
<1>4. fresh \in Ids => original[fresh] = Absent /\ doc[fresh] = Absent
  BY <1>2 DEF DrawInv, FreshIsFree
<1>5. /\ \A id \in Ids : id < fresh => doc'[id] = doc[id]
      /\ \A id \in Ids : id # fresh => doc'[id] = doc[id]
  BY <1>2
<1>6. FreshIsFree'
  <2>1. \A id \in Ids : id >= fresh' => doc'[id] = Absent /\ original'[id] = Absent
    <3>1. ASSUME NEW id \in Ids, id >= fresh' PROVE id >= fresh /\ doc'[id] = doc[id]
      BY <1>2, <3>1
    <3> QED BY <3>1 DEF DrawInv, FreshIsFree
  <2>2. \A i \in DOMAIN log' : log'[i].target < fresh'
    BY <1>1, <1>2, <1>3
  <2>3. born' < fresh'
    BY <1>2
  <2> QED BY <2>1, <2>2, <2>3 DEF FreshIsFree
<1>7. Untouched'
  <2>1. ASSUME NEW id \in Ids, original[id] # Absent, \A i \in DOMAIN log' : log'[i].target # id
        PROVE  doc'[id] = original[id]
    <3>1. \A i \in DOMAIN log : log[i].target # id
      BY <1>1, <2>1
    <3>2. id # fresh
      BY <1>4, <2>1
    <3> QED BY <1>5, <2>1, <3>1, <3>2 DEF DrawInv, Untouched
  <2> QED BY <2>1 DEF Untouched
<1>8. BornIsLogged'
  <2>1. ASSUME born # Unknown, original[born] = Absent, doc'[born] # Absent
        PROVE  \E i \in DOMAIN log' :
                 /\ log'[i].kind = "create"
                 /\ \/ log'[i].target = born
                    \/ log'[i].target = Unknown /\ log'[i].state \in {"failed", "pending"}
    <3>1. doc'[born] = doc[born]
      BY <1>2, <1>5, <2>1
    <3>2. PICK i \in DOMAIN log :
            /\ log[i].kind = "create"
            /\ \/ log[i].target = born
               \/ log[i].target = Unknown /\ log[i].state \in {"failed", "pending"}
      BY <2>1, <3>1 DEF DrawInv, BornIsLogged
    <3>3. i # n
      BY <3>2
    <3> QED BY <1>1, <3>2, <3>3
  <2> QED BY <2>1 DEF BornIsLogged
<1> QED BY <1>2, <1>3, <1>4, <1>5, <1>6, <1>7, <1>8

LEMMA CompensateDeleteDrawInv ==
  ASSUME TypeOK, Working, DrawInv, CompensateDelete
  PROVE  DrawInv'
<1>0. PICK n, t : n = Now /\ t = log[n].target
  OBVIOUS
<1>a. PendingIsLast
  BY DEF DrawInv
<1>1. PICK s \in {"cancelled", "failed"} :
        /\ EntryBecomes(Now, log[Now].target, s)
        /\ s = "failed" => "delete" \in FaultyUndos
        /\ \/ UNCHANGED <<doc, fresh>> /\ (s = "failed" \/ doc[t] # Absent)
           \/ /\ fresh \in Ids /\ doc[t] = Absent
              /\ doc' = [doc EXCEPT ![fresh] = log[n].before] /\ fresh' = fresh + 1
  BY <1>0, <1>a, DeleteCompensated
<1>2. /\ Compensated /\ log[n].kind = "delete" /\ UNCHANGED <<born, original>>
  BY <1>0, <1>a, DeleteCompensated DEF Compensated
<1>3. /\ Restoring' /\ Faultless' /\ PendingIsLast' /\ NothingRecreatedYet'
      /\ Exact' => WrittenOnce' /\ "delete" \notin FaultyUndos
      /\ \A i \in DOMAIN log : i # n => log[i].state = "applied"
      /\ log[n].state = "pending" /\ NoneUndone
  BY <1>0, <1>1, <1>2, CompensatedStates
<1>4. /\ n \in DOMAIN log /\ DOMAIN log' = DOMAIN log /\ log'[n].state = s
      /\ \A i \in DOMAIN log :
           /\ log'[i].kind = log[i].kind /\ log'[i].target = log[i].target
           /\ log'[i].before = log[i].before
           /\ i # n => log'[i].state = "applied"
      /\ EntryShape' /\ Targets'
  BY <1>0, <1>1, <1>2, <1>3, StatesOnly
<1>5. /\ FreshIsFree' /\ Untouched' /\ BornIsLogged'
      /\ \A i \in DOMAIN log : log[i].target \in Ids => doc'[log[i].target] = doc[log[i].target]
      /\ fresh \in Ids =>
           /\ fresh # born /\ original[fresh] = Absent /\ doc[fresh] = Absent
           /\ \A i \in DOMAIN log : log[i].target # fresh
  BY <1>0, <1>1, <1>2, RecreationIsNew
<1>6. /\ doc \in [Ids -> Values \cup {Absent}] /\ t \in Ids
      /\ log[n].before \in Values /\ log[n].before # Absent
  BY <1>0, <1>2, <1>4, BatchAssumption DEF DrawInv, EntryShape, TypeOK
<1>7. DeletedIsGone' /\ DeletesDoNotFail'
  <2>1. ASSUME NEW i \in DOMAIN log, i # n, log[i].kind = "delete"
        PROVE  log'[i].state = "applied" /\ doc'[log'[i].target] = Absent
    <3>1. log[i].state = "applied" /\ log[i].target \in Ids
      BY <1>3, <2>1 DEF DrawInv, EntryShape
    <3> QED BY <1>4, <1>5, <2>1, <3>1 DEF DrawInv, DeletedIsGone
  <2>2. doc'[log'[n].target] \in {Absent, log'[n].before}
    <3>1. doc[t] \in {Absent, log[n].before}
      BY <1>0, <1>2, <1>3, <1>4 DEF DrawInv, DeletedIsGone
    <3> QED BY <1>0, <1>4, <1>5, <1>6, <3>1
  <2>3. log'[n].state = "failed" => "delete" \in FaultyUndos
    BY <1>1, <1>4
  <2> QED BY <1>4, <2>1, <2>2, <2>3 DEF DeletedIsGone, DeletesDoNotFail
<1>8. FirstIsUndone'
  <2>1. \A i \in DOMAIN log' : log'[i].state \in Undone => i = n
    BY <1>4 DEF Undone
  <2> QED BY <1>2, <1>4, <2>1 DEF FirstIsUndone
<1>9. Recreated = {}
  BY <1>3 DEF DrawInv, NothingRecreatedYet
<1>10. SameNumber'
  <2>1. CASE UNCHANGED <<doc, fresh>> /\ doc[t] # Absent
    <3>1. Recreated' = {} /\ Replaced' = {}
      <4>1. Recreated' \subseteq Recreated
        BY <1>2, <1>4, <2>1 DEF Recreated
      <4>2. \A i \in DOMAIN log' : log'[i].state \in Undone => i = n
        BY <1>4 DEF Undone
      <4> QED BY <1>0, <1>4, <1>9, <2>1, <4>1, <4>2 DEF Replaced
    <3>2. \A v \in Values : RecreatedAs(v)' = {} /\ ReplacedAs(v)' = {}
      BY <3>1 DEF RecreatedAs, ReplacedAs
    <3> QED BY <3>2 DEF SameNumber
  <2>2. CASE /\ s = "cancelled" /\ fresh \in Ids /\ doc[t] = Absent
             /\ doc' = [doc EXCEPT ![fresh] = log[n].before] /\ fresh' = fresh + 1
    <3>1. doc'[fresh] = log[n].before /\ \A id \in Ids : id # fresh => doc'[id] = doc[id]
      BY <1>6, <2>2
    <3>2. Recreated' = {fresh}
      <4>1. fresh \in Recreated'
        BY <1>2, <1>4, <1>5, <1>6, <2>2, <3>1 DEF Recreated
      <4>2. \A id \in Recreated' : id = fresh \/ id \in Recreated
        BY <1>2, <1>4, <3>1 DEF Recreated
      <4> QED BY <1>9, <4>1, <4>2
    <3>3. Replaced' = {n}
      <4>1. \A i \in DOMAIN log' : log'[i].state \in Undone => i = n
        BY <1>4 DEF Undone
      <4>2. doc'[log'[n].target] = Absent
        BY <1>0, <1>4, <1>5, <1>6, <2>2
      <4> QED BY <1>2, <1>4, <2>2, <4>1, <4>2 DEF Replaced, Undone
    <3>4. ASSUME NEW v \in Values
          PROVE  Cardinality(RecreatedAs(v)') = Cardinality(ReplacedAs(v)')
      <4>1. log'[n].before = log[n].before
        BY <1>4
      <4>2. CASE v = log[n].before
        <5>1. RecreatedAs(v)' = {fresh} /\ ReplacedAs(v)' = {n}
          BY <3>1, <3>2, <3>3, <4>1, <4>2 DEF RecreatedAs, ReplacedAs
        <5> QED BY <5>1, FS_Singleton
      <4>3. CASE v # log[n].before
        <5>1. RecreatedAs(v)' = {} /\ ReplacedAs(v)' = {}
          BY <3>1, <3>2, <3>3, <4>1, <4>3 DEF RecreatedAs, ReplacedAs
        <5> QED BY <5>1
      <4> QED BY <4>2, <4>3
    <3> QED BY <3>4 DEF SameNumber
  <2> QED BY <1>1, <1>3, <2>1, <2>2 DEF SameNumber
<1> QED BY <1>3, <1>4, <1>5, <1>7, <1>8, <1>10 DEF DrawInv

\* The parts of the invariant that are about the progress of a rollback.
LEMMA RestoredStates ==
  ASSUME TypeOK, DrawInv, step = "restore", tx = "rolling-back",
         UNCHANGED <<original, step, tx>>, NEW i \in todo, todo' = todo \ {i},
         NEW s \in {"rolled-back", "failed"}, EntryBecomes(i, log[i].target, s),
         \/ faults' = faults /\ missed' = (missed \/ s = "failed")
         \/ faults' = faults + 1 /\ missed' = TRUE /\ s = "failed"
  PROVE  /\ PendingIsLast' /\ Restoring' /\ NothingRecreatedYet'
         /\ log[i].state \in {"applied", "failed"}
         /\ \A j \in DOMAIN log : j \notin todo => log[j].state \in EntryStates \ {"applied", "pending"}
         /\ Exact' => Exact
         /\ faults' = 0 => faults = 0
<1>1. /\ i \in DOMAIN log /\ DOMAIN log' = DOMAIN log /\ log'[i].state = s
      /\ \A j \in DOMAIN log : j # i => log'[j].state = log[j].state
      /\ WrittenOnce' => WrittenOnce
  BY StatesOnly
<1>2. \A j \in DOMAIN log : log[j].state \in EntryStates \ {"pending"}
  BY EntriesInRange DEF DrawInv, PendingIsLast
<1>3. PendingIsLast'
  BY <1>1, <1>2 DEF PendingIsLast
<1>4. /\ log[i].state \in {"applied", "failed"}
      /\ \A j \in DOMAIN log :
           /\ j \in todo => log[j].state \in {"applied", "failed"}
           /\ j \notin todo => log[j].state # "applied"
           /\ j \notin todo /\ ~ missed => log[j].state \in Undone
  BY <1>1 DEF DrawInv, Restoring
<1>5. faults \in Nat /\ missed \in BOOLEAN
  BY BatchAssumption DEF TypeOK
<1>6. (missed' = FALSE) => missed = FALSE /\ s = "rolled-back"
  BY <1>5
<1>7. missed' \in BOOLEAN
  BY <1>5
<1>8. Restoring'
  BY <1>1, <1>4, <1>5, <1>6, <1>7 DEF Restoring, Undone
<1>9. NothingRecreatedYet'
  BY <1>1 DEF NothingRecreatedYet, NoneUndone
<1>10. faults' = 0 => faults = 0
  BY <1>5
<1>11. Exact' => Exact
  BY <1>1, <1>10 DEF Exact
<1> QED BY <1>2, <1>3, <1>4, <1>8, <1>9, <1>10, <1>11

LEMMA InPlaceDrawInv ==
  ASSUME TypeOK, DrawInv, step = "restore", tx = "rolling-back",
         UNCHANGED <<original, born, step, tx>>, NEW i \in todo, todo' = todo \ {i},
         \A j \in todo : j <= i,
         NEW s \in {"rolled-back", "failed"}, EntryBecomes(i, log[i].target, s), InPlace(i, s)
  PROVE  DrawInv'
<1>0. PICK t : t = log[i].target
  OBVIOUS
<1> DEFINE there == t # Unknown /\ doc[t] # Absent
           restored == [doc EXCEPT ![t] = log[i].before]
<1>1. /\ log[i].kind # "delete" /\ fresh' = fresh
      /\ \/ s = "rolled-back" /\ there /\ doc' = restored /\ faults' = faults /\ missed' = missed
         \/ s = "failed" /\ ~ there /\ doc' = doc /\ faults' = faults /\ missed' = TRUE
         \/ s = "failed" /\ faults' = faults + 1 /\ missed' = TRUE
            /\ (doc' = doc \/ (there /\ doc' = restored))
  BY <1>0 DEF InPlace
<1>2. /\ PendingIsLast' /\ Restoring' /\ NothingRecreatedYet'
      /\ log[i].state \in {"applied", "failed"}
      /\ \A j \in DOMAIN log : j \notin todo => log[j].state \in EntryStates \ {"applied", "pending"}
      /\ Exact' => Exact
      /\ faults' = 0 => faults = 0
  <2>1. missed \in BOOLEAN
    BY DEF TypeOK
  <2>2. \/ faults' = faults /\ missed' = (missed \/ s = "failed")
        \/ faults' = faults + 1 /\ missed' = TRUE /\ s = "failed"
    BY <1>1, <2>1
  <2> QED BY <2>2, RestoredStates
<1>3. /\ i \in DOMAIN log /\ DOMAIN log' = DOMAIN log /\ log'[i].state = s
      /\ \A j \in DOMAIN log :
           /\ log'[j].kind = log[j].kind /\ log'[j].target = log[j].target
           /\ log'[j].before = log[j].before
           /\ j # i => log'[j].state = log[j].state
      /\ \A j \in DOMAIN log : FirstWrite(j)' <=> FirstWrite(j)
      /\ EntryShape' /\ Targets'
  BY StatesOnly
<1>4. /\ doc \in [Ids -> Values \cup {Absent}] /\ t \in Ids \cup {Unknown} /\ Unknown \notin Ids
      /\ faults \in Nat
      /\ \A j \in DOMAIN log : j \in Nat /\ log[j].target \in Ids \cup {Unknown}
      /\ born \in Ids \cup {Unknown}
  BY <1>0, <1>3, EntriesInRange, BatchAssumption DEF TypeOK, Ids, Unknown
<1>5. /\ \A id \in Ids : id # t => doc'[id] = doc[id]
      /\ \A id \in Ids : doc'[id] # Absent => doc[id] # Absent
      /\ s = "rolled-back" => doc'[t] = log[i].before
  BY <1>1, <1>4
<1>6. FreshIsFree'
  BY <1>1, <1>3, <1>5 DEF DrawInv, FreshIsFree
<1>7. Untouched'
  <2>1. ASSUME NEW id \in Ids, original[id] # Absent, \A j \in DOMAIN log' : log'[j].target # id
        PROVE  doc'[id] = original[id]
    <3>1. id # t /\ \A j \in DOMAIN log : log[j].target # id
      BY <1>0, <1>3, <2>1
    <3> QED BY <1>5, <2>1, <3>1 DEF DrawInv, Untouched
  <2> QED BY <2>1 DEF Untouched
<1>8. BornIsLogged'
  <2>1. ASSUME born # Unknown, original[born] = Absent, doc'[born] # Absent
        PROVE  \E j \in DOMAIN log' :
                 /\ log'[j].kind = "create"
                 /\ \/ log'[j].target = born
                    \/ log'[j].target = Unknown /\ log'[j].state \in {"failed", "pending"}
    <3>1. PICK j \in DOMAIN log :
            /\ log[j].kind = "create"
            /\ \/ log[j].target = born
               \/ log[j].target = Unknown /\ log[j].state \in {"failed", "pending"}
      BY <1>4, <1>5, <2>1 DEF DrawInv, BornIsLogged
    <3>2. j = i /\ log[j].target = Unknown => s = "failed"
      BY <1>0, <1>1
    <3> QED BY <1>3, <3>1, <3>2
  <2> QED BY <2>1 DEF BornIsLogged
\* Another operation on the primitive: all calls succeeded, so that their states agree.
<1>9. ASSUME NEW j \in DOMAIN log, j # i, log[j].target = t, t # Unknown, Exact
      PROVE  /\ faults = 0 /\ log[j].state \in {"applied", "failed", "rolled-back"}
             /\ log[j].state = "rolled-back" /\ log[j].kind # "delete" => ~ (j < i)
  <2>1. ~ WrittenOnce
    BY <1>0, <1>3, <1>9 DEF WrittenOnce
  <2>2. faults = 0
    BY <1>9, <2>1 DEF Exact
  <2> QED BY <1>0, <1>2, <1>3, <1>9, <2>2 DEF DrawInv, Faultless
<1>10. DeletedIsGone'
  <2>1. ASSUME NEW j \in DOMAIN log, log[j].kind = "delete"
        PROVE  /\ j # i /\ log'[j].state = log[j].state /\ log[j].target \in Ids
               /\ doc[log[j].target] = Absent => doc'[log[j].target] = Absent
               /\ Exact /\ log[j].state = "cancelled" => doc'[log[j].target] = doc[log[j].target]
    <3>1. j # i /\ log'[j].state = log[j].state /\ log[j].target \in Ids
      BY <1>1, <1>3, <2>1 DEF DrawInv, EntryShape
    <3>2. Exact /\ log[j].state = "cancelled" => log[j].target # t
      BY <1>4, <1>9, <3>1
    <3> QED BY <1>5, <3>1, <3>2
  <2>2. \A j \in DOMAIN log : log[j].state # "pending"
    BY DEF DrawInv, PendingIsLast
  <2>3. ASSUME NEW j \in DOMAIN log', log'[j].kind = "delete"
        PROVE  /\ log'[j].state = "applied" => doc'[log'[j].target] = Absent
               /\ log'[j].state # "pending"
               /\ Exact' /\ log'[j].state = "cancelled" =>
                    doc'[log'[j].target] \in {Absent, log'[j].before}
               /\ Exact' /\ log'[j].state = "rolled-back" => doc'[log'[j].target] = Absent
    <3>1. /\ j \in DOMAIN log /\ log[j].kind = "delete" /\ log'[j].target = log[j].target
          /\ log'[j].before = log[j].before
      BY <1>3, <2>3
    <3>2. /\ log[j].state = "applied" => doc[log[j].target] = Absent
          /\ Exact /\ log[j].state = "cancelled" => doc[log[j].target] \in {Absent, log[j].before}
          /\ Exact /\ log[j].state = "rolled-back" => doc[log[j].target] = Absent
      BY <3>1 DEF DrawInv, DeletedIsGone
    <3> QED BY <1>2, <2>1, <2>2, <3>1, <3>2
  <2> QED BY <2>3 DEF DeletedIsGone
<1>11. DeletesDoNotFail'
  BY <1>1, <1>3 DEF DrawInv, DeletesDoNotFail
<1>12. Faultless'
  <2> SUFFICES ASSUME faults' = 0, NEW j \in DOMAIN log
               PROVE  /\ log'[j].state \in {"applied", "failed", "rolled-back"}
                      /\ log'[j].target # Unknown
                      /\ log'[j].state = "failed" =>
                           log'[j].kind # "delete" /\ doc'[log'[j].target] = Absent
                      /\ log'[j].state = "rolled-back" /\ log'[j].kind # "delete" =>
                           \A k \in DOMAIN log : log'[k].target = log'[j].target /\ j < k =>
                             log'[k].state = "rolled-back" /\ log'[k].kind # "delete"
    BY <1>3 DEF Faultless
  <2>1. /\ faults = 0 /\ Exact
        /\ \A k \in DOMAIN log :
             /\ log[k].state \in {"applied", "failed", "rolled-back"} /\ log[k].target \in Ids
             /\ log[k].state = "failed" => log[k].kind # "delete" /\ doc[log[k].target] = Absent
             /\ log[k].state = "rolled-back" /\ log[k].kind # "delete" =>
                  \A l \in DOMAIN log : log[l].target = log[k].target /\ k < l =>
                    log[l].state = "rolled-back" /\ log[l].kind # "delete"
    BY <1>2, <1>4 DEF DrawInv, Faultless, Exact
  <2>2. CASE j # i
    <3>1. log'[j].state = "failed" => log'[j].kind # "delete" /\ doc'[log'[j].target] = Absent
      BY <1>3, <1>5, <2>1, <2>2
    <3>2. ASSUME log[j].state = "rolled-back", log[j].kind # "delete",
                 NEW k \in DOMAIN log, log[k].target = log[j].target, j < k
          PROVE  k # i /\ log[k].state = "rolled-back" /\ log[k].kind # "delete"
      BY <1>2, <2>1, <3>2
    <3> QED BY <1>3, <1>4, <2>1, <2>2, <3>1, <3>2
  <2>3. CASE j = i
    <3>1. \/ s = "rolled-back" /\ there
          \/ s = "failed" /\ ~ there /\ doc' = doc
      BY <1>1, <1>4
    <3>2. ASSUME there, NEW k \in DOMAIN log, log[k].target = t, i < k
          PROVE  log[k].state = "rolled-back" /\ log[k].kind # "delete" /\ k # i
      <4>1. k \notin todo /\ k # i
        BY <1>3, <1>4, <3>2
      <4>2. log[k].state = "rolled-back"
        BY <1>2, <2>1, <3>2, <4>1
      <4>3. log[k].kind # "delete"
        BY <2>1, <3>2, <4>2 DEF DrawInv, DeletedIsGone
      <4> QED BY <4>1, <4>2, <4>3
    <3> QED BY <1>0, <1>1, <1>3, <1>4, <2>1, <2>3, <3>1, <3>2
  <2> QED BY <2>2, <2>3
<1>13. FirstIsUndone'
  <2> SUFFICES ASSUME Exact', NEW j \in DOMAIN log, log[j].target # Unknown,
                      log[j].kind # "delete", log'[j].state \in Undone, FirstWrite(j)
               PROVE  doc'[log[j].target] = log[j].before
    BY <1>3 DEF FirstIsUndone
  <2>1. CASE j = i
    BY <1>0, <1>3, <1>5, <2>1 DEF Undone
  <2>2. CASE j # i
    <3>1. doc[log[j].target] = log[j].before /\ log[j].state \in Undone
      BY <1>2, <1>3, <2>2 DEF DrawInv, FirstIsUndone
    <3>2. log[j].target # t
      <4>1. log[j].target = t => j < i
        BY <1>0, <1>3, <1>4, <2>2 DEF FirstWrite
      <4> QED BY <1>2, <1>9, <2>2, <3>1, <4>1 DEF Undone
    <3> QED BY <1>4, <1>5, <3>1, <3>2
  <2> QED BY <2>1, <2>2
<1>14. SameNumber'
  <2>1. t # Unknown => t \notin Recreated /\ t \notin Recreated'
    <3>1. t # Unknown => \/ original[t] # Absent
                         \/ \E k \in DOMAIN log : log[k].kind = "create" /\ log[k].target = t
      BY <1>0, <1>3 DEF DrawInv, Targets
    <3> QED BY <1>3, <3>1 DEF Recreated
  <2>2. Recreated' = Recreated /\ \A id \in Recreated : doc'[id] = doc[id]
    <3>1. t \notin Recreated /\ t \notin Recreated'
      BY <1>4, <2>1 DEF Recreated
    <3>2. \A id \in Ids \ {t} : id \in Recreated' <=> id \in Recreated
      BY <1>3, <1>5 DEF Recreated
    <3>3. Recreated \subseteq Ids /\ Recreated' \subseteq Ids
      BY DEF Recreated
    <3> QED BY <1>5, <3>1, <3>2, <3>3
  <2>3. ASSUME Exact PROVE Replaced' = Replaced
    <3>1. ASSUME NEW j \in DOMAIN log, log[j].kind = "delete", log[j].state \in Undone
          PROVE  (doc'[log[j].target] = Absent) <=> (doc[log[j].target] = Absent)
      <4>1. j # i /\ log[j].target \in Ids
        BY <1>1, <3>1 DEF DrawInv, EntryShape
      <4>2. log[j].target = t => doc[log[j].target] = Absent
        <5>1. log[j].target = t => log[j].state = "rolled-back"
          BY <1>4, <1>9, <2>3, <3>1, <4>1 DEF Undone
        <5> QED BY <2>3, <3>1, <5>1 DEF DrawInv, DeletedIsGone
      <4> QED BY <1>5, <4>1, <4>2
    <3>2. \A j \in DOMAIN log : log[j].kind = "delete" => log'[j].state = log[j].state
      BY <1>1, <1>3
    <3>3. \A j \in DOMAIN log : j \in Replaced' <=> j \in Replaced
      BY <1>3, <3>1, <3>2 DEF Replaced
    <3>4. Replaced \subseteq DOMAIN log /\ Replaced' \subseteq DOMAIN log
      BY <1>3 DEF Replaced
    <3> QED BY <3>3, <3>4
  <2>4. ASSUME Exact, NEW v \in Values
        PROVE  RecreatedAs(v)' = RecreatedAs(v) /\ ReplacedAs(v)' = ReplacedAs(v)
    <3>1. \A j \in Replaced : log'[j].before = log[j].before
      BY <1>3 DEF Replaced
    <3> QED BY <2>2, <2>3, <2>4, <3>1 DEF RecreatedAs, ReplacedAs
  <2> QED BY <1>2, <2>4 DEF DrawInv, SameNumber
<1> QED BY <1>2, <1>3, <1>6, <1>7, <1>8, <1>10, <1>11, <1>12, <1>13, <1>14 DEF DrawInv

LEMMA CountsAreFinite ==
  ASSUME TypeOK, NEW v
  PROVE  /\ IsFiniteSet(RecreatedAs(v)) /\ IsFiniteSet(ReplacedAs(v))
         /\ IsFiniteSet(Ids) /\ IsFiniteSet(DOMAIN log)
<1>1. IsFiniteSet(Ids) /\ IsFiniteSet(DOMAIN log)
  BY EntriesInRange, BatchAssumption, FS_Interval DEF Ids
<1>2. RecreatedAs(v) \subseteq Ids /\ ReplacedAs(v) \subseteq DOMAIN log
  BY DEF RecreatedAs, Recreated, ReplacedAs, Replaced
<1> QED BY <1>1, <1>2, FS_Subset

LEMMA RemadeDrawInv ==
  ASSUME TypeOK, DrawInv, step = "restore", tx = "rolling-back",
         UNCHANGED <<original, born, step, tx>>, NEW i \in todo, todo' = todo \ {i},
         NEW s \in {"rolled-back", "failed"}, EntryBecomes(i, log[i].target, s), Remade(i, s)
  PROVE  DrawInv'
<1>0. PICK t : t = log[i].target
  OBVIOUS
<1> DEFINE recreated == doc' = [doc EXCEPT ![fresh] = log[i].before] /\ fresh' = fresh + 1
<1>1. /\ log[i].kind = "delete" /\ fresh \in Ids
      /\ \/ s = "rolled-back" /\ recreated /\ faults' = faults /\ missed' = missed
         \/ s = "failed" /\ "delete" \in FaultyUndos /\ faults' = faults + 1 /\ missed' = TRUE
            /\ (recreated \/ (doc' = doc /\ fresh' = fresh))
  BY DEF Remade
<1>2. /\ PendingIsLast' /\ Restoring' /\ NothingRecreatedYet'
      /\ log[i].state \in {"applied", "failed"}
      /\ Exact' => Exact
      /\ faults' = 0 => faults = 0
  <2>1. missed \in BOOLEAN
    BY DEF TypeOK
  <2>2. \/ faults' = faults /\ missed' = (missed \/ s = "failed")
        \/ faults' = faults + 1 /\ missed' = TRUE /\ s = "failed"
    BY <1>1, <2>1
  <2> QED BY <2>2, RestoredStates
<1>3. /\ i \in DOMAIN log /\ DOMAIN log' = DOMAIN log /\ log'[i].state = s
      /\ \A j \in DOMAIN log :
           /\ log'[j].kind = log[j].kind /\ log'[j].target = log[j].target
           /\ log'[j].before = log[j].before
           /\ j # i => log'[j].state = log[j].state
      /\ \A j \in DOMAIN log : FirstWrite(j)' <=> FirstWrite(j)
      /\ EntryShape' /\ Targets'
  BY StatesOnly
<1>4. /\ FreshIsFree' /\ Untouched' /\ BornIsLogged'
      /\ \A j \in DOMAIN log : log[j].target \in Ids => doc'[log[j].target] = doc[log[j].target]
      /\ fresh # born /\ original[fresh] = Absent /\ doc[fresh] = Absent
      /\ \A j \in DOMAIN log : log[j].target # fresh
  BY <1>1, RecreationIsNew
<1>5. /\ doc \in [Ids -> Values \cup {Absent}] /\ t \in Ids /\ faults \in Nat
      /\ log[i].before \in Values /\ log[i].before # Absent
      /\ \A j \in DOMAIN log : log[j].target \in Ids \cup {Unknown}
  BY <1>0, <1>1, <1>3, EntriesInRange, BatchAssumption DEF DrawInv, EntryShape, TypeOK
<1>6. Exact' => s = "rolled-back" /\ Exact /\ doc[t] = Absent /\ log[i].state = "applied"
  <2>1. Exact' => s = "rolled-back"
    BY <1>1, <1>5 DEF Exact
  <2>2. Exact => log[i].state # "failed"
    BY <1>1, <1>3 DEF Exact, DrawInv, DeletesDoNotFail, Faultless
  <2>3. log[i].state = "applied" => doc[t] = Absent
    BY <1>0, <1>1, <1>3 DEF DrawInv, DeletedIsGone
  <2> QED BY <1>2, <2>1, <2>2, <2>3
<1>7. DeletedIsGone'
  <2> SUFFICES ASSUME NEW j \in DOMAIN log, log[j].kind = "delete"
               PROVE  /\ log'[j].state = "applied" => doc'[log[j].target] = Absent
                      /\ log'[j].state = "pending" => doc'[log[j].target] \in {Absent, log[j].before}
                      /\ Exact' /\ log'[j].state = "cancelled" =>
                           doc'[log[j].target] \in {Absent, log[j].before}
                      /\ Exact' /\ log'[j].state = "rolled-back" => doc'[log[j].target] = Absent
    BY <1>3 DEF DeletedIsGone
  <2>1. doc'[log[j].target] = doc[log[j].target]
    BY <1>4 DEF DrawInv, EntryShape
  <2>2. CASE j = i
    BY <1>0, <1>3, <1>6, <2>1, <2>2
  <2>3. CASE j # i
    BY <1>2, <1>3, <2>1, <2>3 DEF DrawInv, DeletedIsGone
  <2> QED BY <2>2, <2>3
<1>8. DeletesDoNotFail'
  BY <1>1, <1>3 DEF DrawInv, DeletesDoNotFail
<1>9. Faultless'
  <2> SUFFICES ASSUME faults' = 0, NEW j \in DOMAIN log
               PROVE  /\ log'[j].state \in {"applied", "failed", "rolled-back"}
                      /\ log'[j].target # Unknown
                      /\ log'[j].state = "failed" =>
                           log'[j].kind # "delete" /\ doc'[log'[j].target] = Absent
                      /\ log'[j].state = "rolled-back" /\ log'[j].kind # "delete" =>
                           \A k \in DOMAIN log : log'[k].target = log'[j].target /\ j < k =>
                             log'[k].state = "rolled-back" /\ log'[k].kind # "delete"
    BY <1>3 DEF Faultless
  <2>1. /\ faults = 0 /\ s = "rolled-back"
        /\ \A k \in DOMAIN log :
             /\ log[k].state \in {"applied", "failed", "rolled-back"} /\ log[k].target # Unknown
             /\ log[k].state = "failed" => log[k].kind # "delete" /\ doc[log[k].target] = Absent
             /\ log[k].state = "rolled-back" /\ log[k].kind # "delete" =>
                  \A l \in DOMAIN log : log[l].target = log[k].target /\ k < l =>
                    log[l].state = "rolled-back" /\ log[l].kind # "delete"
    BY <1>2, <1>6 DEF DrawInv, Faultless, Exact
  <2>2. log[j].state = "failed" => doc'[log[j].target] = Absent
    BY <1>4, <1>5, <2>1
  <2>3. ASSUME log[j].state = "rolled-back", log[j].kind # "delete",
               NEW k \in DOMAIN log, log[k].target = log[j].target, j < k
        PROVE  k # i /\ log[k].state = "rolled-back" /\ log[k].kind # "delete"
    BY <1>2, <2>1, <2>3
  <2>4. CASE j = i
    BY <1>0, <1>1, <1>3, <2>1, <2>4
  <2>5. CASE j # i
    BY <1>3, <2>1, <2>2, <2>3, <2>5
  <2> QED BY <2>4, <2>5
<1>10. FirstIsUndone'
  <2> SUFFICES ASSUME Exact', NEW j \in DOMAIN log, log[j].target # Unknown,
                      log[j].kind # "delete", log'[j].state \in Undone, FirstWrite(j)
               PROVE  doc'[log[j].target] = log[j].before
    BY <1>3 DEF FirstIsUndone
  <2>1. j # i /\ log[j].target \in Ids
    BY <1>1, <1>5
  <2> QED BY <1>2, <1>3, <1>4, <2>1 DEF DrawInv, FirstIsUndone
<1>11. SameNumber'
  <2> SUFFICES ASSUME Exact', NEW v \in Values
               PROVE  Cardinality(RecreatedAs(v)') = Cardinality(ReplacedAs(v)')
    BY DEF SameNumber
  <2>1. /\ s = "rolled-back" /\ recreated /\ doc[t] = Absent /\ log[i].state = "applied"
        /\ Cardinality(RecreatedAs(v)) = Cardinality(ReplacedAs(v))
    BY <1>1, <1>6 DEF DrawInv, SameNumber
  <2>2. doc'[fresh] = log[i].before /\ \A id \in Ids : id # fresh => doc'[id] = doc[id]
    BY <1>1, <1>5, <2>1
  <2>3. fresh \notin Recreated /\ Recreated' = Recreated \cup {fresh}
    <3>1. fresh \notin Recreated
      BY <1>4 DEF Recreated
    <3>2. fresh \in Recreated'
      BY <1>1, <1>3, <1>4, <1>5, <2>2 DEF Recreated
    <3>3. \A id \in Ids \ {fresh} : id \in Recreated' <=> id \in Recreated
      BY <1>3, <2>2 DEF Recreated
    <3>4. Recreated \subseteq Ids /\ Recreated' \subseteq Ids
      BY DEF Recreated
    <3> QED BY <3>1, <3>2, <3>3, <3>4
  <2>4. i \notin Replaced /\ Replaced' = Replaced \cup {i}
    <3>1. i \notin Replaced
      BY <2>1 DEF Replaced, Undone
    <3>2. i \in Replaced'
      BY <1>0, <1>1, <1>3, <1>4, <1>5, <2>1 DEF Replaced, Undone
    <3>3. \A j \in DOMAIN log \ {i} : j \in Replaced' <=> j \in Replaced
      <4>1. ASSUME NEW j \in DOMAIN log \ {i}, log[j].kind = "delete"
            PROVE  doc'[log[j].target] = doc[log[j].target]
        BY <1>4, <4>1 DEF DrawInv, EntryShape
      <4> QED BY <1>3, <4>1 DEF Replaced
    <3>4. Replaced \subseteq DOMAIN log /\ Replaced' \subseteq DOMAIN log
      BY <1>3 DEF Replaced
    <3> QED BY <1>3, <3>1, <3>2, <3>3, <3>4
  <2>5. CASE v # log[i].before
    <3>1. RecreatedAs(v)' = RecreatedAs(v)
      BY <2>2, <2>3, <2>5 DEF RecreatedAs, Recreated
    <3>2. ReplacedAs(v)' = ReplacedAs(v)
      BY <1>3, <2>4, <2>5 DEF ReplacedAs, Replaced
    <3> QED BY <2>1, <3>1, <3>2
  <2>6. CASE v = log[i].before
    <3>1. RecreatedAs(v)' = RecreatedAs(v) \cup {fresh} /\ fresh \notin RecreatedAs(v)
      BY <2>2, <2>3, <2>6 DEF RecreatedAs, Recreated
    <3>2. ReplacedAs(v)' = ReplacedAs(v) \cup {i} /\ i \notin ReplacedAs(v)
      BY <1>3, <2>4, <2>6 DEF ReplacedAs, Replaced
    <3>3. IsFiniteSet(RecreatedAs(v)) /\ IsFiniteSet(ReplacedAs(v))
      BY CountsAreFinite
    <3>4. Cardinality(RecreatedAs(v)') = Cardinality(RecreatedAs(v)) + 1
      BY <3>1, <3>3, FS_AddElement
    <3>5. Cardinality(ReplacedAs(v)') = Cardinality(ReplacedAs(v)) + 1
      BY <3>2, <3>3, FS_AddElement
    <3> QED BY <2>1, <3>4, <3>5
  <2> QED BY <2>5, <2>6
<1> QED BY <1>2, <1>3, <1>4, <1>7, <1>8, <1>9, <1>10, <1>11 DEF DrawInv

LEMMA RollbackDrawInv ==
  ASSUME TypeOK, Working, DrawInv, RollbackOperation
  PROVE  DrawInv'
<1>1. EntryShape /\ UNCHANGED <<original, born, tx, step>> /\ step = "restore" /\ tx = "rolling-back"
  BY RollbackSteps DEF DrawInv
<1>2. PICK i \in todo, s \in {"rolled-back", "failed"} :
        /\ \A j \in todo : j <= i
        /\ todo' = todo \ {i}
        /\ EntryBecomes(i, log[i].target, s)
        /\ InPlace(i, s) \/ Remade(i, s)
  BY <1>1, RollbackSteps
<1>3. CASE InPlace(i, s)
  BY <1>1, <1>2, <1>3, InPlaceDrawInv
<1>4. CASE Remade(i, s)
  BY <1>1, <1>2, <1>4, RemadeDrawInv
<1> QED BY <1>2, <1>3, <1>4

LEMMA NextDrawInv ==
  ASSUME TypeOK, Working, AppliedSoFar, DrawInv, [Next]_vars
  PROVE  DrawInv'
BY StepKinds, SteadyDrawInv, ScratchDrawInv, CreateDrawInv, WriteDrawInv, CompensateCreateDrawInv,
   CompensateModifyDrawInv, CompensateDeleteDrawInv, RollbackDrawInv DEF RunModify, RunDelete

LEMMA SpecDrawInv == Spec => [](TypeOK /\ DrawInv)
<1>1. Init => TypeOK /\ Working /\ AppliedSoFar /\ DrawInv
  BY InitTypeOK, InitWholeSoFar, InitDrawInv
<1>2. TypeOK /\ Working /\ AppliedSoFar /\ DrawInv /\ [Next]_vars
      => (TypeOK /\ Working /\ AppliedSoFar /\ DrawInv)'
  BY NextTypeOK, NextAppliedSoFar, NextDrawInv
<1> QED BY <1>1, <1>2, PTL DEF Spec

\* Of the operations on a primitive one is the first.
LEMMA FirstExists ==
  ASSUME TypeOK, NEW i \in DOMAIN log
  PROVE  \E k \in DOMAIN log : log[k].target = log[i].target /\ FirstWrite(k)
<1> DEFINE S == {k \in DOMAIN log : log[k].target = log[i].target}
<1>1. S \subseteq Nat /\ i \in S
  BY EntriesInRange
<1>2. PICK k \in S : \A j \in S : ~ (<<j, k>> \in OpToRel(<, Nat))
  <2> HIDE DEF S
  <2> QED BY <1>1, WFMin, NatLessThanWellFounded, Zenon
<1>3. ASSUME NEW j \in S PROVE k <= j
  <2>1. j \in Nat /\ k \in Nat
    BY <1>1
  <2>2. ~ (j < k)
    BY <1>2, <2>1 DEF OpToRel
  <2> QED BY <2>1, <2>2
<1> QED BY <1>1, <1>3 DEF FirstWrite

\* What the operations of a transaction that is rolled back have left on a primitive.
LEMMA LeftOnPrimitives ==
  ASSUME TypeOK, DrawInv, tx = "rolled-back", Exact
  PROVE  /\ \A id \in Ids \ Deleted : original[id] # Absent => doc[id] = original[id]
         /\ \A i \in DOMAIN log : log[i].kind = "create" /\ log[i].target # Unknown =>
              doc[log[i].target] = Absent
         /\ \A j \in DOMAIN log : log[j].kind = "delete" =>
              /\ log[j].target \in Ids
              /\ log[j].before = original[log[j].target]
              /\ doc[log[j].target] \in {Absent, log[j].before}
              /\ \A k \in DOMAIN log : log[k].target = log[j].target => k = j
<1>1. \A i \in DOMAIN log : log[i].state \in Undone
  BY DEF DrawInv, Restoring
<1>2. \A i \in DOMAIN log : i \in Nat /\ log[i].target \in Ids \cup {Unknown} /\ Unknown \notin Ids
  BY EntriesInRange DEF Ids, Unknown
<1>3. ASSUME NEW i \in DOMAIN log, log[i].target # Unknown, log[i].kind # "delete", FirstWrite(i)
      PROVE  doc[log[i].target] = log[i].before
  BY <1>1, <1>3 DEF DrawInv, FirstIsUndone
<1>4. ASSUME NEW id \in Ids \ Deleted, original[id] # Absent PROVE doc[id] = original[id]
  <2>1. CASE \A i \in DOMAIN log : log[i].target # id
    BY <1>4, <2>1 DEF DrawInv, Untouched
  <2>2. ASSUME NEW i \in DOMAIN log, log[i].target = id PROVE doc[id] = original[id]
    <3>1. PICK k \in DOMAIN log : log[k].target = id /\ FirstWrite(k)
      BY <2>2, FirstExists
    <3>2. id # Unknown /\ log[k].kind # "delete"
      BY <1>2, <1>4, <3>1 DEF Deleted
    <3>3. log[k].before = original[id]
      BY <3>1, <3>2 DEF DrawInv, Targets
    <3> QED BY <1>3, <3>1, <3>2, <3>3
  <2> QED BY <2>1, <2>2
<1>5. ASSUME NEW i \in DOMAIN log, log[i].kind = "create", log[i].target # Unknown
      PROVE  doc[log[i].target] = Absent
  <2>1. FirstWrite(i) /\ log[i].before = Absent
    BY <1>5 DEF DrawInv, Targets, EntryShape
  <2> QED BY <1>3, <1>5, <2>1
<1>6. ASSUME NEW j \in DOMAIN log, log[j].kind = "delete"
      PROVE  /\ log[j].target \in Ids
             /\ log[j].before = original[log[j].target]
             /\ doc[log[j].target] \in {Absent, log[j].before}
             /\ \A k \in DOMAIN log : log[k].target = log[j].target => k = j
  <2>1. log[j].target \in Ids /\ log[j].target # Unknown
    BY <1>2, <1>6 DEF DrawInv, EntryShape
  <2>2. ASSUME NEW k \in DOMAIN log, log[k].target = log[j].target PROVE k = j
    <3>1. CASE WrittenOnce
      BY <2>1, <2>2, <3>1 DEF WrittenOnce
    <3>2. CASE faults = 0
      <4>1. k <= j /\ (log[k].kind = "delete" => j <= k)
        BY <1>6, <2>1, <2>2 DEF DrawInv, Targets, LastWrite
      <4>2. log[k].state = "rolled-back"
        BY <1>1, <3>2 DEF DrawInv, Faultless, Undone
      <4>3. k < j => log[k].kind = "delete"
        BY <1>6, <2>2, <3>2, <4>2 DEF DrawInv, Faultless
      <4> QED BY <1>2, <4>1, <4>3
    <3> QED BY <3>1, <3>2 DEF Exact
  <2>3. FirstWrite(j)
    BY <1>2, <2>2 DEF FirstWrite
  <2>4. log[j].before = original[log[j].target]
    BY <2>1, <2>3 DEF DrawInv, Targets
  <2>5. doc[log[j].target] \in {Absent, log[j].before}
    BY <1>1, <1>6 DEF DrawInv, DeletedIsGone, Undone
  <2> QED BY <2>1, <2>2, <2>4, <2>5
<1> QED BY <1>4, <1>5, <1>6

\* A deleted primitive that is back has another id; all others are the original ones.
LEMMA SameAsBefore ==
  ASSUME TypeOK, DrawInv, tx = "rolled-back", Exact, NEW v \in Values
  PROVE  Cardinality({id \in Ids : doc[id] = v}) = Cardinality({id \in Ids : original[id] = v})
<1> DEFINE Kept == {id \in Ids : doc[id] = v /\ original[id] = v}
           Lost == {id \in Ids : original[id] = v /\ doc[id] # v}
           Before == {id \in Ids : original[id] = v}
           After == {id \in Ids : doc[id] = v}
<1>1. /\ \A id \in Ids \ Deleted : original[id] # Absent => doc[id] = original[id]
      /\ \A i \in DOMAIN log : log[i].kind = "create" /\ log[i].target # Unknown =>
           doc[log[i].target] = Absent
      /\ \A j \in DOMAIN log : log[j].kind = "delete" =>
           /\ log[j].target \in Ids
           /\ log[j].before = original[log[j].target]
           /\ doc[log[j].target] \in {Absent, log[j].before}
           /\ \A k \in DOMAIN log : log[k].target = log[j].target => k = j
  BY LeftOnPrimitives
<1>2. v # Absent /\ Unknown \notin Ids
  BY BatchAssumption DEF Ids, Unknown
<1>3. \A i \in DOMAIN log : log[i].state \in Undone
  BY DEF DrawInv, Restoring
<1>4. ASSUME NEW id \in After, original[id] # v PROVE id \in RecreatedAs(v)
  <2>1. original[id] = Absent
    <3>1. ASSUME id \in Deleted PROVE original[id] \in {Absent, doc[id]}
      <4>1. PICK j \in DOMAIN log : log[j].kind = "delete" /\ log[j].target = id
        BY <3>1 DEF Deleted
      <4> QED BY <1>1, <1>2, <1>4, <4>1
    <3> QED BY <1>1, <1>4, <3>1
  <2>2. \A i \in DOMAIN log : log[i].kind = "create" => log[i].target # id
    BY <1>1, <1>2, <1>4
  <2>3. id # born
    <3>1. ASSUME id = born
          PROVE  \E i \in DOMAIN log : log[i].kind = "create" /\ log[i].target = id
      <4>1. PICK i \in DOMAIN log :
              /\ log[i].kind = "create"
              /\ \/ log[i].target = born
                 \/ log[i].target = Unknown /\ log[i].state \in {"failed", "pending"}
        BY <1>2, <1>4, <2>1, <3>1 DEF DrawInv, BornIsLogged
      <4> QED BY <1>3, <3>1, <4>1 DEF Undone
    <3> QED BY <2>2, <3>1
  <2> QED BY <1>2, <1>4, <2>1, <2>2, <2>3 DEF RecreatedAs, Recreated
<1>5. After = Kept \cup RecreatedAs(v) /\ Kept \cap RecreatedAs(v) = {}
  <2>1. RecreatedAs(v) \subseteq After /\ \A id \in RecreatedAs(v) : original[id] = Absent
    BY DEF RecreatedAs, Recreated
  <2> QED BY <1>2, <1>4, <2>1
<1>6. Before = Kept \cup Lost /\ Kept \cap Lost = {}
  OBVIOUS
<1>7. ExistsBijection(ReplacedAs(v), Lost)
  <2> DEFINE f == [j \in ReplacedAs(v) |-> log[j].target]
  <2>1. \A j \in ReplacedAs(v) :
          /\ j \in DOMAIN log /\ log[j].kind = "delete" /\ log[j].before = v
          /\ doc[log[j].target] = Absent
    BY DEF ReplacedAs, Replaced
  <2>2. f \in [ReplacedAs(v) -> Lost]
    BY <1>1, <1>2, <2>1
  <2>3. \A i, j \in ReplacedAs(v) : f[i] = f[j] => i = j
    BY <1>1, <2>1
  <2>4. ASSUME NEW id \in Lost PROVE \E j \in ReplacedAs(v) : f[j] = id
    <3>1. id \in Deleted
      BY <1>1, <1>2
    <3>2. PICK j \in DOMAIN log : log[j].kind = "delete" /\ log[j].target = id
      BY <3>1 DEF Deleted
    <3>3. log[j].before = v /\ doc[id] = Absent
      BY <1>1, <3>2
    <3>4. j \in ReplacedAs(v)
      BY <1>3, <3>2, <3>3 DEF ReplacedAs, Replaced
    <3> QED BY <3>2, <3>4
  <2> HIDE DEF f, Lost
  <2>5. f \in Bijection(ReplacedAs(v), Lost)
    BY <2>2, <2>3, <2>4 DEF Bijection, Injection, Surjection, IsInjective
  <2> QED BY <2>5 DEF ExistsBijection
<1>8. /\ IsFiniteSet(RecreatedAs(v)) /\ IsFiniteSet(ReplacedAs(v))
      /\ IsFiniteSet(Kept) /\ IsFiniteSet(Lost)
  <2>1. Kept \subseteq Ids /\ Lost \subseteq Ids
    OBVIOUS
  <2> HIDE DEF Kept, Lost
  <2> QED BY <2>1, CountsAreFinite, FS_Subset
<1> HIDE DEF Kept, Lost, Before, After
<1>9. Cardinality(Lost) = Cardinality(ReplacedAs(v))
  BY <1>7, <1>8, FS_Bijection
<1>10. Cardinality(RecreatedAs(v)) = Cardinality(ReplacedAs(v))
  BY DEF DrawInv, SameNumber
<1>11. /\ Cardinality(After) = Cardinality(Kept) + Cardinality(RecreatedAs(v)) - 0
       /\ Cardinality(Before) = Cardinality(Kept) + Cardinality(Lost) - 0
  BY <1>5, <1>6, <1>8, FS_Union, FS_EmptySet
<1>12. Cardinality(After) = Cardinality(Before)
  BY <1>9, <1>10, <1>11
<1> QED BY <1>12 DEF After, Before

LEMMA ExactlyRestored ==
  ASSUME TypeOK, DrawInv
  PROVE  tx = "rolled-back" /\ Exact => DrawingRestored
BY LeftOnPrimitives, SameAsBefore DEF DrawingRestored, SamePrimitives

\* A transaction that is reported rolled back has left the drawing as it was when no call
\* to the bridge failed; and if some did, when it wrote to no primitive twice and the
\* recreation of deleted primitives is not what failed (manager.ts rollback,
\* easyeda.ts createEasyedaTransactionHooks, L1_schematic_batch.ts rollbackBatchSession).
THEOREM RollbackRestores ==
  ASSUME "delete" \notin FaultyUndos
  PROVE  Spec => []RolledBackRestores
<1>1. TypeOK /\ DrawInv => RolledBackRestores
  BY ExactlyRestored DEF RolledBackRestores, Exact
<1> QED BY <1>1, SpecDrawInv, PTL

\* Without that hypothesis: with no failing call, whatever the transaction wrote.
THEOREM FaultlessRollbackRestores ==
  Spec => [](tx = "rolled-back" /\ faults = 0 => DrawingRestored)
<1>1. TypeOK /\ DrawInv => (tx = "rolled-back" /\ faults = 0 => DrawingRestored)
  BY ExactlyRestored DEF Exact
<1> QED BY <1>1, SpecDrawInv, PTL

\* At every moment the log accounts for the difference between the drawing and the
\* original: a primitive that has changed is named by an operation that is still
\* to be undone or by a deletion; and a primitive that is new was created by such an
\* operation, is what a create left whose id never became known, or looks like a
\* primitive whose deletion was undone.  What a half-failed rollback leaves behind can
\* therefore be found from the transaction's record (manager.ts rollback, easyeda.ts).
Outstanding(i) == log[i].state \notin Undone

ChangedIsLogged ==
  \A id \in Ids : original[id] # Absent /\ doc[id] # original[id] =>
    \E i \in DOMAIN log : log[i].target = id /\ (Outstanding(i) \/ log[i].kind = "delete")

NewIsLogged ==
  \A id \in Ids : original[id] = Absent /\ doc[id] # Absent =>
    \E i \in DOMAIN log :
      \/ log[i].kind = "create" /\ Outstanding(i) /\ log[i].target \in {id, Unknown}
      \/ log[i].kind = "delete" /\ ~ Outstanding(i) /\ log[i].before = doc[id]

LEMMA LogAccounts == ASSUME TypeOK, DrawInv, Exact PROVE ChangedIsLogged /\ NewIsLogged
<1>1. /\ Unknown \notin Ids /\ Absent \notin Values
      /\ doc \in [Ids -> Values \cup {Absent}]
  BY BatchAssumption DEF Ids, Unknown, TypeOK
<1>2. ASSUME NEW id \in Ids, original[id] # Absent, doc[id] # original[id]
      PROVE  \E i \in DOMAIN log : log[i].target = id /\ (Outstanding(i) \/ log[i].kind = "delete")
  <2>1. PICK i \in DOMAIN log : log[i].target = id
    BY <1>2 DEF DrawInv, Untouched
  <2>2. PICK k \in DOMAIN log : log[k].target = id /\ FirstWrite(k)
    BY <2>1, FirstExists
  <2>3. log[k].before = original[id]
    BY <1>1, <2>2 DEF DrawInv, Targets
  <2>4. Outstanding(k) \/ log[k].kind = "delete"
    BY <1>1, <1>2, <2>2, <2>3 DEF DrawInv, FirstIsUndone, Outstanding
  <2> QED BY <2>2, <2>4
<1>3. ASSUME NEW id \in Ids, original[id] = Absent, doc[id] # Absent
      PROVE  \E i \in DOMAIN log :
               \/ log[i].kind = "create" /\ Outstanding(i) /\ log[i].target \in {id, Unknown}
               \/ log[i].kind = "delete" /\ ~ Outstanding(i) /\ log[i].before = doc[id]
  <2>1. ASSUME NEW i \in DOMAIN log, log[i].kind = "create", log[i].target = id
        PROVE  Outstanding(i)
    <3>1. FirstWrite(i) /\ log[i].before = Absent
      BY <1>1, <2>1 DEF DrawInv, Targets, EntryShape
    <3> QED BY <1>1, <1>3, <2>1, <3>1 DEF DrawInv, FirstIsUndone, Outstanding
  <2>2. CASE \E i \in DOMAIN log : log[i].kind = "create" /\ log[i].target = id
    BY <2>1, <2>2
  <2>3. CASE id = born /\ ~ \E i \in DOMAIN log : log[i].kind = "create" /\ log[i].target = id
    <3>1. PICK i \in DOMAIN log :
            log[i].kind = "create" /\ log[i].target = Unknown /\ log[i].state \in {"failed", "pending"}
      BY <1>1, <1>3, <2>3 DEF DrawInv, BornIsLogged
    <3> QED BY <3>1 DEF Outstanding, Undone
  <2>4. CASE id # born /\ ~ \E i \in DOMAIN log : log[i].kind = "create" /\ log[i].target = id
    <3>1. PICK v \in Values : v = doc[id]
      BY <1>1, <1>3
    <3>2. id \in RecreatedAs(v)
      BY <1>3, <2>4, <3>1 DEF RecreatedAs, Recreated
    <3>3. Cardinality(RecreatedAs(v)) = Cardinality(ReplacedAs(v))
      BY DEF DrawInv, SameNumber
    <3>4. ReplacedAs(v) # {}
      BY <3>2, <3>3, CountsAreFinite, FS_EmptySet
    <3>5. PICK i \in ReplacedAs(v) : TRUE
      BY <3>4
    <3> QED BY <3>1, <3>5 DEF ReplacedAs, Replaced, Outstanding
  <2> QED BY <2>2, <2>3, <2>4
<1> QED BY <1>2, <1>3 DEF ChangedIsLogged, NewIsLogged

\* The log accounts for the drawing in every history that is restored exactly: no call
\* failed; or no primitive was written to twice and recreations do not fail.
THEOREM DrawingIsAccountedFor == Spec => [](Exact => ChangedIsLogged /\ NewIsLogged)
<1>1. TypeOK /\ DrawInv => (Exact => ChangedIsLogged /\ NewIsLogged)
  BY LogAccounts
<1> QED BY <1>1, SpecDrawInv, PTL

=============================================================================
