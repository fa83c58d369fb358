------------------------- MODULE DurableTasksProofs -------------------------
(***************************************************************************)
(* Proofs about DurableTasks, for any number of tasks, workers, slots and  *)
(* places in the queue.                                                    *)
(*                                                                         *)
(* The inductive invariant has three parts.  TypeOK bounds the slots, but  *)
(* only because no task is queued twice or queued while it runs: Queued    *)
(* says this by counting the calls of the executor, which is also why no   *)
(* task runs twice.  Attended says that a working task waits or runs, for  *)
(* which a settled execution must have ended its task.  LeaseIsLatest says *)
(* that a row of the lease table always is the last one issued.            *)
(***************************************************************************)
EXTENDS DurableTasks, FiniteSetTheorems, TLAPS

Queued ==
  /\ \A i, j \in 1..Len(queue) : queue[i] = queue[j] => i = j
  /\ \A i \in 1..Len(queue) : runs[queue[i]] = 0 /\ status[queue[i]] # "none"
  /\ \A t \in controllers : runs[t] = 1
  /\ \A t \in Tasks : status[t] = "none" => runs[t] = 0
  /\ RunsOnce

Attended ==
  /\ \A t \in settled : ~ Working(t)
  /\ WorkingHasRunner
  /\ ~ up => queue = <<>> /\ controllers = {} /\ settled = {}

LeaseIsLatest == \A t \in Tasks : lease[t] # NoLease => lease[t].token = issued[t]

\* What most steps do to the runner's part: they may end tasks and let time pass.
Quiet ==
  /\ queue' = queue /\ controllers' = controllers /\ settled' = settled
  /\ up' = up /\ stopped' = stopped /\ runs' = runs /\ expires' = expires
  /\ now' >= now
  /\ \A t \in Tasks : status'[t] = status[t]
                      \/ (status'[t] \notin {"none", "working"} /\ status[t] # "none")

-----------------------------------------------------------------------------
(***************************************************************************)
(* The types.                                                              *)
(***************************************************************************)

LEMMA InitTyped == Init => TypeOK
<1> SUFFICES ASSUME Init PROVE TypeOK OBVIOUS
<1>0. 0 \in 0..MaxNow /\ 0 \in 0..(MaxNow + TaskTtl)
  BY TasksAssumption
<1>1. /\ now \in 0..MaxNow /\ cancel \in [Tasks -> BOOLEAN]
      /\ status \in [Tasks -> {"none", "working", "completed", "failed", "cancelled", "gone"}]
  BY <1>0 DEF Init
<1>a. /\ expires \in [Tasks -> 0..(MaxNow + TaskTtl)]
      /\ lease \in [Tasks -> Leases \cup {NoLease}]
  BY <1>0 DEF Init
<1>b. queue \in Seq(Tasks) /\ Len(queue) <= MaxQueued
  BY TasksAssumption DEF Init
<1>c. handles \subseteq [task : Tasks, worker : Workers, token : 1..MaxTokens]
  BY DEF Init
<1>2. /\ settled \subseteq controllers /\ controllers \subseteq Tasks
      /\ due \in BOOLEAN /\ up \in BOOLEAN /\ stopped \in BOOLEAN
  BY DEF Init
<1>d. restarts \in 0..MaxRestarts
  BY TasksAssumption DEF Init
<1>3. active = Cardinality(controllers) /\ active <= MaxConcurrent
  BY FS_EmptySet, TasksAssumption DEF Init
<1>4. issued \in [Tasks -> 0..MaxTokens] /\ runs \in [Tasks -> Nat]
  BY TasksAssumption DEF Init
<1> QED BY <1>1, <1>a, <1>b, <1>c, <1>2, <1>d, <1>3, <1>4 DEF TypeOK

\* The slots that are taken are finitely many.
LEMMA SlotsFinite == TypeOK => IsFiniteSet(controllers) /\ active \in Nat
BY FS_Subset, FS_CardinalityType, TasksAssumption DEF TypeOK

LEMMA SubmitTyped == ASSUME TypeOK, NEW t \in Tasks, Submit(t) PROVE TypeOK'
<1>1. queue' \in Seq(Tasks) /\ Len(queue') <= MaxQueued
  BY TasksAssumption DEF TypeOK, Submit
<1>2. expires' \in [Tasks -> 0..(MaxNow + TaskTtl)]
  BY TasksAssumption DEF TypeOK, Submit, Create
<1> QED BY <1>1, <1>2 DEF TypeOK, Submit, Create, leases, slots, process

LEMMA DispatchTyped == ASSUME TypeOK, Queued, Dispatch PROVE TypeOK'
<1>1. CASE stopped \/ Full \/ queue = <<>>
  BY <1>1 DEF TypeOK, Dispatch, leases, process
<1>2. CASE ~ (stopped \/ Full \/ queue = <<>>)
  <2> DEFINE t == Head(queue)
  <2>0. queue \in Seq(Tasks) /\ Len(queue) <= MaxQueued /\ due \in BOOLEAN /\ queue # <<>>
    BY <1>2 DEF TypeOK
  <2>1. t \in Tasks /\ queue' \in Seq(Tasks) /\ Len(queue') <= MaxQueued /\ due' \in BOOLEAN
    <3>1. queue' = Tail(queue) /\ due' = due
      BY <1>2 DEF Dispatch
    <3> QED BY <2>0, <3>1, TasksAssumption
  <2>2. t = queue[1] /\ 1 \in 1..Len(queue)
    BY <2>0
  <2>3. t \notin controllers
    BY <2>2 DEF Queued
  <2>4. CASE Working(t) /\ ~ cancel[t]
    <3>1. controllers' = controllers \cup {t} /\ active' = active + 1
          /\ runs' = [runs EXCEPT ![t] = @ + 1] /\ status' = status
      BY <1>2, <2>4 DEF Dispatch
    <3>2. Cardinality(controllers') = Cardinality(controllers) + 1
      BY <3>1, <2>3, SlotsFinite, FS_AddElement
    <3>3. active' = Cardinality(controllers') /\ active' <= MaxConcurrent
      <4>1. active \in Nat /\ ~ (active >= MaxConcurrent) /\ MaxConcurrent \in Nat
        BY <1>2, SlotsFinite, TasksAssumption DEF Full
      <4>2. active = Cardinality(controllers)
        BY DEF TypeOK
      <4> QED BY <3>1, <3>2, <4>1, <4>2
    <3>4. settled' \subseteq controllers' /\ controllers' \subseteq Tasks
      BY <3>1, <2>1 DEF TypeOK, Dispatch
    <3>5. runs' \in [Tasks -> Nat]
      BY <3>1, <2>1 DEF TypeOK
    <3> QED BY <2>1, <3>1, <3>3, <3>4, <3>5 DEF TypeOK, Dispatch, leases, process
  <2>5. CASE ~ (Working(t) /\ ~ cancel[t])
    <3>1. status' = [status EXCEPT ![t] = Ended(t, status[t])]
          /\ controllers' = controllers /\ active' = active /\ runs' = runs
      BY <1>2, <2>5 DEF Dispatch, TypeOK
    <3>2. status' \in [Tasks -> {"none", "working", "completed", "failed", "cancelled", "gone"}]
      BY <3>1, <2>1 DEF TypeOK, Ended
    <3> QED BY <2>1, <3>1, <3>2 DEF TypeOK, Dispatch, leases, process
  <2> QED BY <2>4, <2>5
<1> QED BY <1>1, <1>2

LEMMA SettleTyped == ASSUME TypeOK, NEW t \in Tasks, Settle(t) PROVE TypeOK'
<1>1. status' \in [Tasks -> {"none", "working", "completed", "failed", "cancelled", "gone"}]
  BY DEF TypeOK, Settle, Ended
<1> QED BY <1>1 DEF TypeOK, Settle, leases, process

LEMMA FinallyTyped == ASSUME TypeOK, NEW t \in Tasks, Finally(t) PROVE TypeOK'
<1>1. t \in controllers /\ controllers' = controllers \ {t} /\ active' = active - 1
  BY DEF TypeOK, Finally
<1>2. Cardinality(controllers') = Cardinality(controllers) - 1
  BY <1>1, SlotsFinite, FS_RemoveElement
<1>3. active' = Cardinality(controllers') /\ active' <= MaxConcurrent
  <2>1. active \in Nat /\ MaxConcurrent \in Nat
    BY SlotsFinite, TasksAssumption
  <2>2. active = Cardinality(controllers) /\ active <= MaxConcurrent
    BY DEF TypeOK
  <2> QED BY <1>1, <1>2, <2>1, <2>2
<1>4. settled' \subseteq controllers' /\ controllers' \subseteq Tasks
  BY DEF TypeOK, Finally
<1> QED BY <1>3, <1>4 DEF TypeOK, Finally, rows, leases, process

LEMMA CrashTyped == ASSUME TypeOK, Crash PROVE TypeOK'
<1>1. active' = Cardinality(controllers') /\ active' <= MaxConcurrent
  BY FS_EmptySet, TasksAssumption DEF Crash
<1>2. queue' \in Seq(Tasks) /\ Len(queue') <= MaxQueued /\ restarts' \in 0..MaxRestarts
  BY TasksAssumption DEF Crash, TypeOK
<1> QED BY <1>1, <1>2 DEF TypeOK, Crash, rows, leases

LEMMA AcquireTyped ==
  ASSUME TypeOK, NEW w \in Workers, NEW t \in Tasks, Acquire(w, t) PROVE TypeOK'
<1>1. issued' \in [Tasks -> 0..MaxTokens] /\ issued'[t] \in 1..MaxTokens
  BY TasksAssumption DEF TypeOK, Acquire
<1>2. now + LeaseTtl \in 0..(MaxNow + LeaseTtl)
  BY TasksAssumption DEF TypeOK
<1>3. [worker |-> w, token |-> issued'[t], until |-> now + LeaseTtl] \in Leases
  BY <1>1, <1>2 DEF Leases
<1>4. lease' \in [Tasks -> Leases \cup {NoLease}]
  BY <1>3 DEF TypeOK, Acquire
<1>5. handles' \subseteq [task : Tasks, worker : Workers, token : 1..MaxTokens]
  BY <1>1 DEF TypeOK, Acquire
<1> QED BY <1>1, <1>4, <1>5 DEF TypeOK, Acquire, rows, slots, process

LEMMA RenewTyped == ASSUME TypeOK, NEW h \in handles, Renew(h) PROVE TypeOK'
<1>1. h.task \in Tasks /\ h.token \in 1..MaxTokens /\ lease[h.task].token = h.token
  BY DEF TypeOK, Renew, Matches
<1>2. lease[h.task] \in Leases
  BY <1>1, TasksAssumption DEF TypeOK, NoLease
<1>3. now + LeaseTtl \in 0..(MaxNow + LeaseTtl)
  BY TasksAssumption DEF TypeOK
<1>4. [lease[h.task] EXCEPT !.until = now + LeaseTtl] \in Leases
  BY <1>2, <1>3 DEF Leases
<1>5. lease' = [lease EXCEPT ![h.task] = [lease[h.task] EXCEPT !.until = now + LeaseTtl]]
  BY <1>1 DEF TypeOK, Renew
<1>6. lease' \in [Tasks -> Leases \cup {NoLease}]
  BY <1>1, <1>4, <1>5 DEF TypeOK
<1> QED BY <1>6 DEF TypeOK, Renew, rows, slots, process

-----------------------------------------------------------------------------
(***************************************************************************)
(* The remaining steps, and Next.                                          *)
(***************************************************************************)

\* A step that only ends tasks, lets time pass or changes leases keeps the types.
LEMMA QuietTyped ==
  ASSUME TypeOK, CleanupExpired \/ Stop \/ Restart \/ FailExpired \/ Tick
  PROVE  TypeOK'
<1>1. CASE CleanupExpired
  <2>1. status' \in [Tasks -> {"none", "working", "completed", "failed", "cancelled", "gone"}]
    BY <1>1 DEF TypeOK, CleanupExpired
  <2> QED BY <1>1, <2>1 DEF TypeOK, CleanupExpired, leases, slots, process
<1>2. CASE Stop
  BY <1>2 DEF TypeOK, Stop, rows, leases, slots
<1>3. CASE Restart
  <2>1. status' \in [Tasks -> {"none", "working", "completed", "failed", "cancelled", "gone"}]
    BY <1>3 DEF TypeOK, Restart
  <2> QED BY <1>3, <2>1 DEF TypeOK, Restart, leases, slots
<1>4. CASE FailExpired
  <2>1. status' \in [Tasks -> {"none", "working", "completed", "failed", "cancelled", "gone"}]
    BY <1>4 DEF TypeOK, FailExpired, Recovered
  <2>2. lease' \in [Tasks -> Leases \cup {NoLease}]
    BY <1>4 DEF TypeOK, FailExpired
  <2> QED BY <1>4, <2>1, <2>2 DEF TypeOK, FailExpired, slots, process
<1>5. CASE Tick
  <2>1. now' \in 0..MaxNow
    BY <1>5, TasksAssumption DEF TypeOK, Tick
  <2> QED BY <1>5, <2>1 DEF TypeOK, Tick, rows, leases, slots, process
<1> QED BY <1>1, <1>2, <1>3, <1>4, <1>5

LEMMA CancelTyped ==
  ASSUME TypeOK, NEW t \in Tasks, CancelTask(t) \/ RequestCancel(t) PROVE TypeOK'
<1>1. /\ cancel' \in [Tasks -> BOOLEAN]
      /\ status' \in [Tasks -> {"none", "working", "completed", "failed", "cancelled", "gone"}]
  BY DEF TypeOK, CancelTask, RequestCancel
<1> QED BY <1>1 DEF TypeOK, CancelTask, RequestCancel, leases, slots, process

LEMMA EndLeaseTyped ==
  ASSUME TypeOK, NEW h \in handles, Complete(h) \/ Release(h) PROVE TypeOK'
<1>1. status' \in [Tasks -> {"none", "working", "completed", "failed", "cancelled", "gone"}]
  BY DEF TypeOK, Complete, Release, rows
<1>2. lease' \in [Tasks -> Leases \cup {NoLease}]
  BY DEF TypeOK, Complete, Release
<1>3. handles' \subseteq [task : Tasks, worker : Workers, token : 1..MaxTokens]
  BY DEF TypeOK, Complete, Release
<1> QED BY <1>1, <1>2, <1>3 DEF TypeOK, Complete, Release, rows, slots, process

LEMMA NextTyped == ASSUME TypeOK, Queued, [Next]_vars PROVE TypeOK'
<1>1. CASE UNCHANGED vars
  BY <1>1 DEF TypeOK, vars, rows, leases, slots, process
<1>2. CASE CleanupExpired \/ Stop \/ Restart \/ FailExpired \/ Tick
  BY <1>2, QuietTyped
<1>3. CASE Dispatch
  BY <1>3, DispatchTyped
<1>4. CASE Crash
  BY <1>4, CrashTyped
<1>5. ASSUME NEW t \in Tasks,
             Submit(t) \/ CancelTask(t) \/ RequestCancel(t) \/ Settle(t) \/ Finally(t)
      PROVE  TypeOK'
  BY <1>5, SubmitTyped, CancelTyped, SettleTyped, FinallyTyped
<1>6. ASSUME NEW w \in Workers, NEW t \in Tasks, Acquire(w, t) PROVE TypeOK'
  BY <1>6, AcquireTyped
<1>7. ASSUME NEW h \in handles, Renew(h) \/ Complete(h) \/ Release(h) PROVE TypeOK'
  BY <1>7, RenewTyped, EndLeaseTyped
<1> QED BY <1>1, <1>2, <1>3, <1>4, <1>5, <1>6, <1>7 DEF Next

-----------------------------------------------------------------------------
(***************************************************************************)
(* The queue and those who wait in it.                                     *)
(***************************************************************************)

LEMMA WorkingWasWorking ==
  ASSUME TypeOK, TypeOK', Quiet, NEW t \in Tasks, Working(t)'
  PROVE  Working(t)
<1>1. status'[t] = "working" /\ now' < expires'[t]
  BY DEF Working, Visible
<1>2. status[t] = "working" /\ expires'[t] = expires[t]
  BY <1>1 DEF Quiet
<1>3. now \in Int /\ now' \in Int /\ expires[t] \in Int /\ now' >= now
  BY TasksAssumption DEF TypeOK, Quiet
<1>4. now < expires[t]
  BY <1>1, <1>2, <1>3
<1> QED BY <1>2, <1>4 DEF Working, Visible

LEMMA QuietKeeps ==
  ASSUME TypeOK, TypeOK', Queued, Attended, Quiet
  PROVE  Queued' /\ Attended'
<1>1. Queued'
  <2>1. /\ queue' = queue /\ controllers' = controllers /\ runs' = runs
        /\ \A t \in Tasks : status'[t] = "none" <=> status[t] = "none"
    BY DEF Quiet
  <2>2. \A i \in 1..Len(queue) : queue[i] \in Tasks
    BY DEF TypeOK
  <2> QED BY <2>1, <2>2 DEF Queued, RunsOnce
<1>2. Attended'
  <2>1. /\ queue' = queue /\ controllers' = controllers /\ settled' = settled
        /\ up' = up /\ stopped' = stopped
    BY DEF Quiet
  <2>2. \A t \in Tasks : Working(t)' => Working(t)
    BY WorkingWasWorking
  <2>3. settled \subseteq Tasks
    BY DEF TypeOK
  <2>4. \A t \in settled' : ~ Working(t)'
    BY <2>1, <2>2, <2>3 DEF Attended
  <2>5. WorkingHasRunner'
    BY <2>1, <2>2 DEF Attended, WorkingHasRunner
  <2> QED BY <2>1, <2>4, <2>5 DEF Attended
<1> QED BY <1>1, <1>2

LEMMA QuietSteps ==
  ASSUME TypeOK, TypeOK',
         \/ UNCHANGED vars \/ CleanupExpired \/ FailExpired \/ Tick
         \/ \E t \in Tasks : CancelTask(t) \/ RequestCancel(t)
         \/ \E w \in Workers, t \in Tasks : Acquire(w, t)
         \/ \E h \in handles : Renew(h) \/ Complete(h) \/ Release(h)
  PROVE  Quiet
<1>0. now \in Int /\ status \in [Tasks -> {"none", "working", "completed", "failed", "cancelled", "gone"}]
  BY TasksAssumption DEF TypeOK
<1>1. CASE UNCHANGED vars
  BY <1>0, <1>1 DEF Quiet, vars, rows, slots, process
<1>2. CASE CleanupExpired
  BY <1>0, <1>2 DEF Quiet, CleanupExpired, slots, process
<1>3. CASE FailExpired
  BY <1>0, <1>3 DEF Quiet, FailExpired, Recovered, Working, slots, process
<1>4. CASE Tick
  BY <1>0, <1>4 DEF Quiet, Tick, rows, slots, process
<1>5. ASSUME NEW t \in Tasks, CancelTask(t) \/ RequestCancel(t) PROVE Quiet
  BY <1>0, <1>5 DEF Quiet, CancelTask, RequestCancel, Working, slots, process
<1>6. ASSUME NEW w \in Workers, NEW t \in Tasks, Acquire(w, t) PROVE Quiet
  BY <1>0, <1>6 DEF Quiet, Acquire, rows, slots, process
<1>7. ASSUME NEW h \in handles, Renew(h) \/ Complete(h) \/ Release(h) PROVE Quiet
  BY <1>0, <1>7 DEF Quiet, Renew, Complete, Release, Working, rows, slots, process
<1> QED BY <1>1, <1>2, <1>3, <1>4, <1>5, <1>6, <1>7

\* Time stands still and one task at most changes its row: who else is working
\* afterwards was working before.
LEMMA OthersWorking ==
  ASSUME now' = now, NEW t \in Tasks, NEW u \in Tasks, u # t,
         status'[u] = status[u], expires'[u] = expires[u]
  PROVE  Working(u)' <=> Working(u)
BY DEF Working, Visible

LEMMA SubmitKeeps ==
  ASSUME TypeOK, Queued, Attended, NEW t \in Tasks, Submit(t)
  PROVE  Queued' /\ Attended'
<1>1. /\ status[t] = "none" /\ status' = [status EXCEPT ![t] = "working"]
      /\ expires' = [expires EXCEPT ![t] = now + TaskTtl]
      /\ queue' = Append(queue, t) /\ queue \in Seq(Tasks) /\ now' = now
      /\ controllers' = controllers /\ settled' = settled /\ runs' = runs
      /\ up /\ up' = up /\ stopped' = stopped
      /\ status \in [Tasks -> {"none", "working", "completed", "failed", "cancelled", "gone"}]
      /\ expires \in [Tasks -> 0..(MaxNow + TaskTtl)]
  BY DEF TypeOK, Submit, Create, slots, process
<1>2. /\ Len(queue') = Len(queue) + 1 /\ Len(queue) \in Nat
      /\ queue'[Len(queue) + 1] = t
      /\ \A i \in 1..Len(queue) : queue'[i] = queue[i] /\ queue[i] \in Tasks
  BY <1>1
<1>3. \A i \in 1..Len(queue') : i \in 1..Len(queue) \/ i = Len(queue) + 1
  BY <1>2
<1>4. \A u \in Tasks : status'[u] = IF u = t THEN "working" ELSE status[u]
  BY <1>1
<1>5. runs[t] = 0 /\ t \notin controllers
  BY <1>1 DEF Queued
<1>6. Queued'
  <2>1. \A i, j \in 1..Len(queue') : queue'[i] = queue'[j] => i = j
    BY <1>1, <1>2, <1>3 DEF Queued
  <2>2. \A i \in 1..Len(queue') : runs'[queue'[i]] = 0 /\ status'[queue'[i]] # "none"
    BY <1>1, <1>2, <1>3, <1>4, <1>5 DEF Queued
  <2> QED BY <2>1, <2>2, <1>1, <1>4 DEF Queued, RunsOnce
<1>7. \A u \in Tasks \ {t} : Working(u)' <=> Working(u)
  BY <1>1, OthersWorking
<1>8. Attended'
  <2>1. settled \subseteq controllers /\ controllers \subseteq Tasks
    BY DEF TypeOK
  <2>2. \A u \in settled' : ~ Working(u)'
    BY <1>1, <1>5, <1>7, <2>1 DEF Attended
  <2>3. WorkingHasRunner'
    BY <1>1, <1>2, <1>3, <1>7 DEF Attended, WorkingHasRunner
  <2> QED BY <1>1, <2>2, <2>3 DEF Attended
<1> QED BY <1>6, <1>8

LEMMA DispatchKeeps ==
  ASSUME TypeOK, Queued, Attended, Dispatch
  PROVE  Queued' /\ Attended'
<1>0. /\ now' = now /\ expires' = expires /\ settled' = settled /\ up' = up /\ stopped' = stopped
      /\ up /\ settled \subseteq controllers /\ controllers \subseteq Tasks
  BY DEF TypeOK, Dispatch, process
<1>1. CASE stopped \/ Full \/ queue = <<>>
  <2>1. /\ queue' = queue /\ controllers' = controllers /\ runs' = runs /\ status' = status
    BY <1>1 DEF Dispatch
  <2>2. Queued'
    BY <2>1 DEF Queued, RunsOnce
  <2>3. \A t \in Tasks : Working(t)' <=> Working(t)
    BY <1>0, <2>1 DEF Working, Visible
  <2>4. Attended'
    BY <1>0, <2>1, <2>3 DEF Attended, WorkingHasRunner
  <2> QED BY <2>2, <2>4
<1>2. CASE ~ (stopped \/ Full \/ queue = <<>>)
  <2>1. queue \in Seq(Tasks) /\ queue # <<>> /\ queue' = Tail(queue)
    BY <1>2 DEF TypeOK, Dispatch
  <2>t. PICK t \in Tasks : t = Head(queue)
    BY <2>1
  <2>2. /\ Len(queue) \in Nat /\ Len(queue') = Len(queue) - 1 /\ Len(queue) > 0
        /\ \A i \in 1..Len(queue') : queue'[i] = queue[i + 1]
        /\ t = queue[1] /\ t \in Tasks
        /\ \A i \in 1..Len(queue) : queue[i] \in Tasks
    BY <2>1, <2>t
  <2>3. \A i \in 1..Len(queue') : i + 1 \in 1..Len(queue) /\ i + 1 # 1
    BY <2>2
  <2>4. \A i \in 1..Len(queue) : i = 1 \/ (i - 1 \in 1..Len(queue') /\ queue[i] = queue'[i - 1])
    BY <2>2
  <2>5. \A i \in 1..Len(queue') : queue'[i] \in Tasks \ {t}
    <3>1. 1 \in 1..Len(queue)
      BY <2>2
    <3> QED BY <2>2, <2>3, <3>1 DEF Queued
  <2>6. runs[t] = 0 /\ status[t] # "none" /\ t \notin controllers
    <3>1. 1 \in 1..Len(queue)
      BY <2>2
    <3> QED BY <2>2, <3>1 DEF Queued
  <2>7. \A i, j \in 1..Len(queue') : queue'[i] = queue'[j] => i = j
    <3> SUFFICES ASSUME NEW i \in 1..Len(queue'), NEW j \in 1..Len(queue'), queue'[i] = queue'[j]
                 PROVE  i = j
      OBVIOUS
    <3>1. queue[i + 1] = queue[j + 1] /\ i + 1 \in 1..Len(queue) /\ j + 1 \in 1..Len(queue)
      BY <2>2, <2>3
    <3>2. i + 1 = j + 1
      BY <3>1 DEF Queued
    <3> QED BY <3>2
  <2>8. \A i \in 1..Len(queue') :
          runs[queue'[i]] = 0 /\ status[queue'[i]] # "none"
    BY <2>2, <2>3 DEF Queued
  <2>9. ASSUME NEW u \in Tasks, u # t, NEW i \in 1..Len(queue), queue[i] = u
        PROVE  \E j \in 1..Len(queue') : queue'[j] = u
    BY <2>2, <2>4, <2>9
  <2>10. CASE Working(t) /\ ~ cancel[t]
    <3>1. controllers' = controllers \cup {t} /\ runs' = [runs EXCEPT ![t] = @ + 1] /\ status' = status
      BY <1>2, <2>t, <2>10 DEF Dispatch
    <3>2. \A u \in Tasks : runs'[u] = IF u = t THEN 1 ELSE runs[u]
      BY <3>1, <2>2, <2>6 DEF TypeOK
    <3>3. Queued'
      BY <1>0, <2>2, <2>5, <2>6, <2>7, <2>8, <3>1, <3>2 DEF Queued, RunsOnce
    <3>4. \A u \in Tasks : Working(u)' <=> Working(u)
      BY <1>0, <3>1 DEF Working, Visible
    <3>5. WorkingHasRunner'
      BY <1>0, <2>9, <3>1, <3>4 DEF Attended, WorkingHasRunner
    <3> QED BY <1>0, <3>1, <3>3, <3>4, <3>5 DEF Attended
  <2>11. CASE ~ (Working(t) /\ ~ cancel[t])
    <3>1. /\ controllers' = controllers /\ runs' = runs
          /\ status' = [status EXCEPT ![t] = Ended(t, status[t])]
      BY <1>2, <2>t, <2>11 DEF Dispatch, TypeOK
    <3>2. \A u \in Tasks : status'[u] = IF u = t THEN Ended(t, status[t]) ELSE status[u]
      BY <3>1 DEF TypeOK
    <3>3. Ended(t, status[t]) # "none" /\ ~ Working(t)'
      <4>0. status'[t] = Ended(t, status[t]) /\ now' = now /\ expires'[t] = expires[t]
        BY <1>0, <2>2, <3>2
      <4>1. CASE Working(t)
        <5>1. cancel[t]
          BY <2>11, <4>1
        <5>2. Ended(t, status[t]) = "cancelled"
          BY <4>1, <5>1 DEF Ended
        <5> QED BY <4>0, <5>2 DEF Working
      <4>2. CASE ~ Working(t)
        <5>1. Ended(t, status[t]) = status[t]
          BY <4>2 DEF Ended
        <5> QED BY <2>6, <4>0, <4>2, <5>1 DEF Working, Visible
      <4> QED BY <4>1, <4>2
    <3>4. Queued'
      BY <1>0, <2>2, <2>5, <2>6, <2>7, <2>8, <3>1, <3>2, <3>3 DEF Queued, RunsOnce
    <3>5. \A u \in Tasks : Working(u)' => Working(u) /\ u # t
      BY <1>0, <2>2, <3>2, <3>3, OthersWorking
    <3>6. WorkingHasRunner'
      BY <1>0, <2>9, <3>1, <3>5 DEF Attended, WorkingHasRunner
    <3> QED BY <1>0, <3>1, <3>4, <3>5, <3>6 DEF Attended
  <2> QED BY <2>10, <2>11
<1> QED BY <1>1, <1>2

LEMMA SettleKeeps ==
  ASSUME TypeOK, Queued, Attended, NEW t \in Tasks, Settle(t)
  PROVE  Queued' /\ Attended'
<1>1. PICK how \in {"completed", "failed"} : status' = [status EXCEPT ![t] = Ended(t, how)]
  BY DEF Settle
<1>2. /\ now' = now /\ expires' = expires /\ up' = up /\ stopped' = stopped /\ runs' = runs
      /\ queue' = queue /\ controllers' = controllers /\ settled' = settled \cup {t}
      /\ t \in controllers /\ settled \subseteq controllers /\ controllers \subseteq Tasks
      /\ \A i \in 1..Len(queue) : queue[i] \in Tasks
  BY DEF TypeOK, Settle, process
<1>3. \A u \in Tasks : status'[u] = IF u = t THEN Ended(t, how) ELSE status[u]
  BY <1>1 DEF TypeOK
<1>4. status[t] # "none" /\ Ended(t, how) # "none"
  BY <1>2 DEF Queued, Ended
<1>5. ~ Working(t)'
  BY <1>2, <1>3 DEF Ended, Working, Visible
<1>6. \A u \in Tasks : Working(u)' => Working(u)
  BY <1>2, <1>3, <1>5, OthersWorking
<1>7. Queued'
  BY <1>2, <1>3, <1>4 DEF Queued, RunsOnce
<1>8. WorkingHasRunner'
  BY <1>2, <1>6 DEF Attended, WorkingHasRunner
<1> QED BY <1>2, <1>5, <1>6, <1>7, <1>8 DEF Attended

LEMMA FinallyKeeps ==
  ASSUME TypeOK, Queued, Attended, NEW t \in Tasks, Finally(t)
  PROVE  Queued' /\ Attended'
<1>1. /\ now' = now /\ status' = status /\ expires' = expires /\ runs' = runs /\ queue' = queue
      /\ up' = up /\ stopped' = stopped
      /\ controllers' = controllers \ {t} /\ settled' = settled \ {t} /\ t \in settled
      /\ settled \subseteq controllers /\ controllers \subseteq Tasks
  BY DEF TypeOK, Finally, rows, process
<1>2. \A u \in Tasks : Working(u)' <=> Working(u)
  BY <1>1 DEF Working, Visible
<1>3. Queued'
  BY <1>1 DEF Queued, RunsOnce
<1>4. WorkingHasRunner'
  BY <1>1, <1>2 DEF Attended, WorkingHasRunner
<1> QED BY <1>1, <1>2, <1>3, <1>4 DEF Attended

\* What a stopped, a dead and a new process find.
LEMMA ProcessKeeps ==
  ASSUME TypeOK, Queued, Attended, Stop \/ Crash \/ Restart
  PROVE  Queued' /\ Attended'
<1>1. CASE Stop
  <2>1. /\ now' = now /\ status' = status /\ expires' = expires /\ runs' = runs /\ queue' = queue
        /\ controllers' = controllers /\ settled' = settled /\ up' = up /\ stopped'
        /\ settled \subseteq Tasks
    BY <1>1 DEF TypeOK, Stop, rows, slots
  <2>2. \A u \in Tasks : Working(u)' <=> Working(u)
    BY <2>1 DEF Working, Visible
  <2> QED BY <2>1, <2>2 DEF Queued, Attended, RunsOnce, WorkingHasRunner
<1>2. CASE Crash
  <2>1. /\ status' = status /\ runs' = runs /\ queue' = <<>> /\ controllers' = {}
        /\ settled' = {} /\ ~ up'
    BY <1>2 DEF Crash, rows
  <2> QED BY <2>1 DEF Queued, Attended, RunsOnce, WorkingHasRunner
<1>3. CASE Restart
  <2>1. /\ now' = now /\ expires' = expires /\ runs' = runs /\ queue' = queue
        /\ controllers' = controllers /\ settled' = settled
        /\ queue = <<>> /\ controllers = {} /\ settled = {} /\ up'
    BY <1>3 DEF Restart, Attended, slots
  <2>2. \A u \in Tasks : status'[u] = IF Working(u) THEN "failed" ELSE status[u]
    BY <1>3 DEF Restart
  <2>3. \A u \in Tasks : ~ Working(u)' /\ (status'[u] = "none" => status[u] = "none")
    BY <2>1, <2>2 DEF Working, Visible
  <2> QED BY <2>1, <2>3 DEF Queued, Attended, RunsOnce, WorkingHasRunner
<1> QED BY <1>1, <1>2, <1>3

-----------------------------------------------------------------------------
(***************************************************************************)
(* The leases.                                                             *)
(***************************************************************************)

\* A handle that matches the row of the lease stands for the last lease issued.
LEMMA MatchIsLatest ==
  ASSUME TypeOK, LeaseIsLatest, NEW h \in handles, Matches(h)
  PROVE  h.task \in Tasks /\ lease[h.task] # NoLease /\ h.token = issued[h.task]
<1>1. h.task \in Tasks /\ h.token \in 1..MaxTokens /\ lease[h.task].token = h.token
  BY DEF TypeOK, Matches
<1>2. lease[h.task] # NoLease
  BY <1>1, TasksAssumption DEF NoLease
<1> QED BY <1>1, <1>2 DEF LeaseIsLatest

LEMMA LeaseKept ==
  ASSUME TypeOK, LeaseIsLatest, [Next]_vars
  PROVE  LeaseIsLatest'
<1>0. lease \in [Tasks -> Leases \cup {NoLease}] /\ issued \in [Tasks -> 0..MaxTokens]
  BY DEF TypeOK
<1>1. CASE UNCHANGED <<lease, issued>>
  BY <1>1 DEF LeaseIsLatest
<1>2. ASSUME issued' = issued, \A t \in Tasks : lease'[t] \in {lease[t], NoLease}
      PROVE  LeaseIsLatest'
  BY <1>2 DEF LeaseIsLatest
<1>3. CASE FailExpired
  BY <1>2, <1>3 DEF FailExpired
<1>4. ASSUME NEW h \in handles, Complete(h) \/ Release(h) PROVE LeaseIsLatest'
  <2>1. issued' = issued /\ \A t \in Tasks : lease'[t] \in {lease[t], NoLease}
    BY <1>0, <1>4 DEF Complete, Release
  <2> QED BY <1>2, <2>1
<1>5. ASSUME NEW w \in Workers, NEW t \in Tasks, Acquire(w, t) PROVE LeaseIsLatest'
  <2>1. lease'[t].token = issued'[t]
    BY <1>0, <1>5 DEF Acquire
  <2>2. \A u \in Tasks \ {t} : lease'[u] = lease[u] /\ issued'[u] = issued[u]
    BY <1>0, <1>5 DEF Acquire
  <2> QED BY <2>1, <2>2 DEF LeaseIsLatest
<1>6. ASSUME NEW h \in handles, Renew(h) PROVE LeaseIsLatest'
  <2>1. Matches(h) /\ issued' = issued
        /\ lease' = [lease EXCEPT ![h.task] = [lease[h.task] EXCEPT !.until = now + LeaseTtl]]
    BY <1>6 DEF Renew
  <2>2. h.task \in Tasks /\ lease[h.task] # NoLease
    BY <2>1, MatchIsLatest
  <2>3. lease[h.task] \in Leases
    BY <1>0, <2>2
  <2>4. [lease[h.task] EXCEPT !.until = now + LeaseTtl].token = lease[h.task].token
    BY <2>3 DEF Leases
  <2>5. \A t \in Tasks : lease'[t] = lease[t] \/ (t = h.task /\ lease'[t].token = lease[t].token)
    BY <1>0, <2>1, <2>2, <2>4
  <2> QED BY <2>1, <2>2, <2>5 DEF LeaseIsLatest
<1>7. CASE \/ CleanupExpired \/ Dispatch \/ Stop \/ Crash \/ Restart \/ Tick
           \/ \E t \in Tasks : Submit(t) \/ CancelTask(t) \/ RequestCancel(t) \/ Settle(t)
                               \/ Finally(t)
  BY <1>1, <1>7 DEF CleanupExpired, Dispatch, Stop, Crash, Restart, Tick, Submit, CancelTask,
                    RequestCancel, Settle, Finally, leases
<1>8. CASE UNCHANGED vars
  BY <1>1, <1>8 DEF vars, leases
<1> QED BY <1>3, <1>4, <1>5, <1>6, <1>7, <1>8 DEF Next

-----------------------------------------------------------------------------
(***************************************************************************)
(* The theorems.                                                           *)
(***************************************************************************)

TasksInv == TypeOK /\ Queued /\ Attended /\ LeaseIsLatest

LEMMA InitInv == Init => TasksInv
<1> SUFFICES ASSUME Init PROVE TasksInv OBVIOUS
<1>1. TypeOK
  BY InitTyped
<1>2. Queued
  BY DEF Init, Queued, RunsOnce
<1>3. Attended
  BY DEF Init, Attended, WorkingHasRunner, Working
<1>4. LeaseIsLatest
  BY DEF Init, LeaseIsLatest
<1> QED BY <1>1, <1>2, <1>3, <1>4 DEF TasksInv

LEMMA NextInv == TasksInv /\ [Next]_vars => TasksInv'
<1> SUFFICES ASSUME TasksInv, [Next]_vars PROVE TasksInv' OBVIOUS
<1>0. TypeOK /\ Queued /\ Attended /\ LeaseIsLatest
  BY DEF TasksInv
<1>1. TypeOK'
  BY <1>0, NextTyped
<1>2. LeaseIsLatest'
  BY <1>0, LeaseKept
<1>3. CASE Quiet
  BY <1>0, <1>1, <1>2, <1>3, QuietKeeps DEF TasksInv
<1>4. CASE Dispatch \/ Stop \/ Crash \/ Restart
  BY <1>0, <1>1, <1>2, <1>4, DispatchKeeps, ProcessKeeps DEF TasksInv
<1>5. ASSUME NEW t \in Tasks, Submit(t) \/ Settle(t) \/ Finally(t) PROVE TasksInv'
  BY <1>0, <1>1, <1>2, <1>5, SubmitKeeps, SettleKeeps, FinallyKeeps DEF TasksInv
<1>6. CASE \/ UNCHANGED vars \/ CleanupExpired \/ FailExpired \/ Tick
           \/ \E t \in Tasks : CancelTask(t) \/ RequestCancel(t)
           \/ \E w \in Workers, t \in Tasks : Acquire(w, t)
           \/ \E h \in handles : Renew(h) \/ Complete(h) \/ Release(h)
  BY <1>0, <1>1, <1>3, <1>6, QuietSteps
<1> QED BY <1>4, <1>5, <1>6 DEF Next

LEMMA Invariance == Spec => []TasksInv
<1>1. TasksInv /\ [Next]_vars => TasksInv'
  BY NextInv
<1> QED BY <1>1, InitInv, PTL DEF Spec

\* Rows, leases, queue and slots are well typed, and never more executions run
\* than there are slots (task-runner.ts MAX_CONCURRENT, MAX_QUEUED).
THEOREM TypeCorrect == Spec => []TypeOK
BY Invariance, PTL DEF TasksInv

\* The executor is called at most once for a task, whatever crashes, expires or
\* is cancelled (task-runner.ts dispatch, failInterruptedOnRestart).
THEOREM ExecutedOnce == Spec => []RunsOnce
<1>1. TasksInv => RunsOnce
  BY DEF TasksInv, Queued
<1> QED BY <1>1, Invariance, PTL

\* As long as the runner is not stopped, a working task is queued or runs
\* (task-runner.ts submit, dispatch, cancelTask).
THEOREM WorkingIsAttended == Spec => []WorkingHasRunner
<1>1. TasksInv => WorkingHasRunner
  BY DEF TasksInv, Attended
<1> QED BY <1>1, Invariance, PTL

\* Only the holder of the latest lease completes a task (task-leases.ts complete).
THEOREM LatestCompletes == Spec => LatestLeaseCompletes
<1> DEFINE A == \A h \in handles :
       h \notin handles' /\ status[h.task] = "working" /\ status'[h.task] = "completed"
         => h.token = issued[h.task]
<1>1. ASSUME TasksInv, Next PROVE A
  <2>0. TypeOK /\ LeaseIsLatest
    BY <1>1 DEF TasksInv
  <2>1. SUFFICES ASSUME NEW h \in handles, h \notin handles',
                        status[h.task] = "working", status'[h.task] = "completed"
                 PROVE  h.token = issued[h.task]
    OBVIOUS
  <2>2. ASSUME NEW g \in handles, Renew(g) \/ Complete(g) \/ Release(g)
        PROVE  h.token = issued[h.task]
    <3>1. CASE Complete(g)
      <4>1. h = g /\ Matches(g)
        BY <2>1, <3>1 DEF Complete
      <4> QED BY <2>0, <4>1, MatchIsLatest
    <3>2. CASE Renew(g) \/ Release(g)
      BY <2>1, <3>2 DEF Renew, Release, rows
    <3> QED BY <2>2, <3>1, <3>2
  <2>3. ASSUME NEW w \in Workers, NEW t \in Tasks, Acquire(w, t) PROVE FALSE
    BY <2>1, <2>3 DEF Acquire
  <2>4. CASE \/ CleanupExpired \/ Dispatch \/ Stop \/ Crash \/ Restart \/ FailExpired \/ Tick
             \/ \E t \in Tasks : Submit(t) \/ CancelTask(t) \/ RequestCancel(t) \/ Settle(t)
                                 \/ Finally(t)
    BY <2>1, <2>4 DEF CleanupExpired, Dispatch, Stop, Crash, Restart, FailExpired, Tick, Submit,
                      CancelTask, RequestCancel, Settle, Finally, leases
  <2> QED BY <1>1, <2>2, <2>3, <2>4 DEF Next
<1>2. TasksInv /\ [Next]_vars => [A]_vars
  BY <1>1
<1>3. LatestLeaseCompletes <=> [][A]_vars
  BY DEF LatestLeaseCompletes
<1> QED BY <1>2, <1>3, Invariance, PTL DEF Spec

\* What a step does to the row of one task.
LEMMA RowChanges ==
  ASSUME TypeOK, Next, NEW t \in Tasks, status'[t] # status[t]
  PROVE  \/ status[t] = "none" /\ status'[t] = "working"
         \/ status[t] # "none" /\ status'[t] = "gone"
         \/ status[t] = "working" /\ status'[t] = "completed" /\ ~ cancel[t]
         \/ status[t] = "working" /\ status'[t] = "cancelled" /\ (cancel[t] \/ cancel'[t])
         \/ status[t] = "working" /\ status'[t] = "failed" /\ (~ cancel[t] \/ ~ up)
<1> DEFINE Change ==
         \/ status[t] = "none" /\ status'[t] = "working"
         \/ status[t] # "none" /\ status'[t] = "gone"
         \/ status[t] = "working" /\ status'[t] = "completed" /\ ~ cancel[t]
         \/ status[t] = "working" /\ status'[t] = "cancelled" /\ (cancel[t] \/ cancel'[t])
         \/ status[t] = "working" /\ status'[t] = "failed" /\ (~ cancel[t] \/ ~ up)
<1>0. status \in [Tasks -> {"none", "working", "completed", "failed", "cancelled", "gone"}]
  BY DEF TypeOK
<1>1. CASE CleanupExpired
  BY <1>0, <1>1 DEF CleanupExpired
<1>2. CASE Restart
  BY <1>0, <1>2 DEF Restart, Working
<1>3. CASE FailExpired
  BY <1>0, <1>3 DEF FailExpired, Recovered, Working
<1>4. CASE Dispatch
  <2>1. status' = [status EXCEPT ![Head(queue)] = Ended(Head(queue), status[Head(queue)])]
    BY <1>0, <1>4 DEF Dispatch, TypeOK
  <2>2. status'[t] = Ended(t, status[t])
    BY <1>0, <2>1
  <2> QED BY <2>2 DEF Ended, Working
<1>5. ASSUME NEW u \in Tasks, Submit(u) PROVE Change
  BY <1>0, <1>5 DEF Submit, Create
<1>6. ASSUME NEW u \in Tasks, CancelTask(u) PROVE Change
  <2>1. t = u /\ status[t] = "working" /\ status'[t] = "cancelled"
    BY <1>0, <1>6 DEF CancelTask, Working
  <2>2. cancel'[t] = TRUE
    BY <1>6, <2>1 DEF CancelTask, TypeOK
  <2> QED BY <2>1, <2>2
<1>7. ASSUME NEW u \in Tasks, Settle(u) PROVE Change
  <2>1. PICK how \in {"completed", "failed"} : status' = [status EXCEPT ![u] = Ended(u, how)]
    BY <1>7 DEF Settle
  <2>2. t = u /\ status'[t] = Ended(t, how)
    BY <1>0, <2>1
  <2> QED BY <2>2 DEF Ended, Working
<1>8. ASSUME NEW h \in handles, Complete(h) PROVE Change
  <2>1. t = h.task /\ status'[t] = "completed"
    BY <1>0, <1>8 DEF Complete
  <2> QED BY <1>8, <2>1 DEF Complete, Working
<1>9. CASE \/ Stop \/ Crash \/ Tick
           \/ \E u \in Tasks : RequestCancel(u) \/ Finally(u)
           \/ \E w \in Workers, u \in Tasks : Acquire(w, u)
           \/ \E h \in handles : Renew(h) \/ Release(h)
  BY <1>9 DEF Stop, Crash, Tick, RequestCancel, Finally, Acquire, Renew, Release, rows
<1> QED BY <1>1, <1>2, <1>3, <1>4, <1>5, <1>6, <1>7, <1>8, <1>9 DEF Next

\* No failure of an execution, no watchdog and no recovery overtakes a
\* cancellation that was accepted (task-store.ts, task-leases.ts failExpired).
THEOREM CancellationWins == Spec => CancelWins
<1> DEFINE A == \A t \in Tasks :
       cancel[t] /\ status[t] = "working" /\ status'[t] = "failed" => ~ up
<1>1. ASSUME TasksInv, Next PROVE A
  <2> SUFFICES ASSUME NEW t \in Tasks, cancel[t], status[t] = "working", status'[t] = "failed"
               PROVE  ~ up
    OBVIOUS
  <2>1. TypeOK /\ status'[t] # status[t]
    BY <1>1 DEF TasksInv
  <2> QED BY <1>1, <2>1, RowChanges
<1>2. TasksInv /\ [Next]_vars => [A]_vars
  BY <1>1
<1>3. CancelWins <=> [][A]_vars
  BY DEF CancelWins
<1> QED BY <1>2, <1>3, Invariance, PTL DEF Spec

\* The runner, the workers and the restarts together implement what the clients
\* of tasks are promised (TaskLifecycle): a task is accepted once, ends once, is not
\* completed once it is cancelled, and is never revived.
THEOREM TasksImplementLifecycle == Spec => ImplementsTaskLifecycle
<1>1. Init => Lifecycle!Init
  BY DEF Init, Lifecycle!Init
<1>2. ASSUME TasksInv, TasksInv', Next PROVE Lifecycle!Next \/ UNCHANGED <<status, cancel>>
  <2>0. /\ TypeOK
        /\ status \in [Tasks -> {"none", "working", "completed", "failed", "cancelled", "gone"}]
        /\ status' \in [Tasks -> {"none", "working", "completed", "failed", "cancelled", "gone"}]
    BY <1>2 DEF TasksInv, TypeOK
  <2>1. ASSUME cancel' = cancel,
               \A t \in Tasks : status[t] = "none" => status'[t] # "working",
               \A t \in Tasks : status'[t] = "gone" => status[t] = "gone"
        PROVE  Lifecycle!End
    <3> SUFFICES ASSUME NEW t \in Tasks, status'[t] # status[t]
                 PROVE  /\ status[t] = "working"
                        /\ \/ status'[t] = "completed" /\ ~ cancel[t]
                           \/ status'[t] = "cancelled" /\ cancel[t]
                           \/ status'[t] = "failed"
      BY <2>0, <2>1 DEF Lifecycle!End
    <3> QED BY <1>2, <2>0, <2>1, RowChanges
  <2>2. CASE CleanupExpired
    <3> DEFINE gone == {t \in Tasks : status[t] # "none" /\ ~ Visible(t)}
    <3>1. status' = [t \in Tasks |-> IF t \in gone THEN "gone" ELSE status[t]]
      BY <2>2 DEF CleanupExpired
    <3>2. gone \in SUBSET {t \in Tasks : status[t] # "none"} /\ cancel' = cancel
      BY <2>2 DEF CleanupExpired
    <3> QED BY <3>1, <3>2 DEF Lifecycle!Forget, Lifecycle!Next
  <2>3. ASSUME NEW t \in Tasks, Submit(t) PROVE Lifecycle!Next
    BY <2>3 DEF Submit, Create, Lifecycle!Accept, Lifecycle!Next
  <2>4. ASSUME NEW t \in Tasks, CancelTask(t) \/ RequestCancel(t) PROVE Lifecycle!Next
    <3>1. status[t] = "working" /\ cancel' = [cancel EXCEPT ![t] = TRUE]
      BY <2>4 DEF CancelTask, RequestCancel, Working
    <3>2. status' \in {status, [status EXCEPT ![t] = "cancelled"]}
      BY <2>0, <2>4 DEF CancelTask, RequestCancel
    <3> QED BY <3>1, <3>2 DEF Lifecycle!AcceptCancel, Lifecycle!Next
  <2>5. CASE Dispatch \/ Restart \/ FailExpired
    <3>1. cancel' = cancel
      BY <2>5 DEF Dispatch, Restart, FailExpired
    <3>2. \A t \in Tasks : status'[t] \in {status[t], "cancelled", "failed"}
      <4>1. CASE Dispatch
        <5>1. \/ status' = status
              \/ status' = [status EXCEPT ![Head(queue)] = Ended(Head(queue), status[Head(queue)])]
          BY <2>0, <4>1 DEF Dispatch
        <5> QED BY <2>0, <5>1 DEF Ended
      <4>2. CASE Restart \/ FailExpired
        BY <2>0, <4>2 DEF Restart, FailExpired, Recovered
      <4> QED BY <2>5, <4>1, <4>2
    <3>3. Lifecycle!End
      BY <2>1, <3>1, <3>2
    <3> QED BY <3>3 DEF Lifecycle!Next
  <2>6. ASSUME NEW t \in Tasks, Settle(t) PROVE Lifecycle!Next
    <3>1. PICK how \in {"completed", "failed"} : status' = [status EXCEPT ![t] = Ended(t, how)]
      BY <2>6 DEF Settle
    <3>2. \A u \in Tasks : status'[u] \in {status[u], "cancelled", how}
      <4>1. Ended(t, how) \in {status[t], "cancelled", how}
        BY DEF Ended
      <4>2. \A u \in Tasks : status'[u] = IF u = t THEN Ended(t, how) ELSE status[u]
        BY <2>0, <3>1
      <4> QED BY <4>1, <4>2
    <3>3. cancel' = cancel
      BY <2>6 DEF Settle
    <3>4. Lifecycle!End
      BY <2>1, <3>2, <3>3
    <3> QED BY <3>4 DEF Lifecycle!Next
  <2>7. ASSUME NEW h \in handles, Complete(h) PROVE Lifecycle!Next
    <3>1. cancel' = cancel /\ status' = [status EXCEPT ![h.task] = "completed"]
      BY <2>7 DEF Complete
    <3>2. \A u \in Tasks : status'[u] \in {status[u], "completed"}
      BY <2>0, <3>1
    <3>3. Lifecycle!End
      BY <2>1, <3>1, <3>2
    <3> QED BY <3>3 DEF Lifecycle!Next
  <2>8. CASE \/ Stop \/ Crash \/ Tick \/ \E t \in Tasks : Finally(t)
             \/ \E w \in Workers, t \in Tasks : Acquire(w, t)
             \/ \E h \in handles : Renew(h) \/ Release(h)
    BY <2>8 DEF Stop, Crash, Tick, Finally, Acquire, Renew, Release, rows
  <2> QED BY <1>2, <2>2, <2>3, <2>4, <2>5, <2>6, <2>7, <2>8 DEF Next
<1>3. TasksInv /\ TasksInv' /\ [Next]_vars => [Lifecycle!Next]_<<status, cancel>>
  <2>1. UNCHANGED vars => UNCHANGED <<status, cancel>>
    BY DEF vars, rows
  <2> QED BY <1>2, <2>1
<1> QED BY <1>1, <1>3, Invariance, PTL DEF Spec, ImplementsTaskLifecycle, Lifecycle!Spec

-----------------------------------------------------------------------------
(***************************************************************************)
(* The slots.  While tasks wait, a dispatch is due or all slots are taken  *)
(* by executions, each of which ends and makes one due.                    *)
(***************************************************************************)

NoIdleSlot == up /\ ~ stopped /\ queue # << >> => due \/ Full

LEMMA NextNoIdleSlot ==
  ASSUME NoIdleSlot, Attended, [Next]_vars
  PROVE  NoIdleSlot'
<1> USE DEF NoIdleSlot, Attended, Full
<1>1. CASE Dispatch
  <2>1. CASE stopped \/ Full \/ queue = << >>
    BY <1>1, <2>1 DEF Dispatch, process
  <2>2. CASE ~ (stopped \/ Full \/ queue = << >>)
    <3>1. up' /\ due'
      <4>1. due /\ due' = due
        BY <1>1, <2>2 DEF Dispatch
      <4> QED  BY <1>1, <4>1 DEF Dispatch, process
    <3> QED  BY <3>1
  <2> QED  BY <2>1, <2>2
<1>2. CASE Stop \/ Crash \/ Restart
  BY <1>2 DEF Stop, Crash, Restart, slots
<1>3. ASSUME NEW t \in Tasks, Submit(t) \/ Finally(t) PROVE NoIdleSlot'
  BY <1>3 DEF Submit, Finally, process
<1>4. ASSUME UNCHANGED <<queue, active, due, process>>
      PROVE  NoIdleSlot'
  BY <1>4 DEF process
<1>5. CASE CleanupExpired \/ FailExpired \/ Tick \/ UNCHANGED vars
  BY <1>4, <1>5 DEF CleanupExpired, FailExpired, Tick, slots, vars
<1>6. ASSUME NEW t \in Tasks, CancelTask(t) \/ RequestCancel(t) \/ Settle(t)
      PROVE  NoIdleSlot'
  BY <1>4, <1>6 DEF CancelTask, RequestCancel, Settle, slots
<1>7. ASSUME NEW w \in Workers, NEW t \in Tasks, Acquire(w, t)
      PROVE  NoIdleSlot'
  BY <1>4, <1>7 DEF Acquire, slots
<1>8. ASSUME NEW h \in handles, Renew(h) \/ Complete(h) \/ Release(h)
      PROVE  NoIdleSlot'
  BY <1>4, <1>8 DEF Renew, Complete, Release, slots
<1> QED  BY <1>1, <1>2, <1>3, <1>5, <1>6, <1>7, <1>8 DEF Next

\* No task waits beside a free slot: whatever order tasks are submitted, cancelled,
\* end and are given up in, while one waits the loop of dispatch() is still to look
\* at the queue, or as many executions as may run at once do (task-runner.ts
\* dispatch and its finally()).
THEOREM SlotsAreUsed == Spec => []NoIdleSlot
<1>1. Init => NoIdleSlot
  BY DEF Init, NoIdleSlot
<1>2. TasksInv /\ NoIdleSlot /\ [Next]_vars => NoIdleSlot'
  BY NextNoIdleSlot DEF TasksInv
<1> QED  BY <1>1, <1>2, Invariance, PTL DEF Spec

=============================================================================
