---------------------------- MODULE DurableTasks ----------------------------
(***************************************************************************)
(* Durable read-only tasks (src/src/tasks): the SQLite rows, the runner of *)
(* one server process with its queue and slots, and the leases by which    *)
(* workers of other processes may take a task over.  The repository stages *)
(* these parts behind tests; no server composes them yet.                  *)
(*                                                                         *)
(* A statement or transaction of the store is one step.  The runner's code *)
(* between two awaits is one step too, except that dispatch() takes one    *)
(* turn of its loop at a time; the turns do not depend on each other.      *)
(***************************************************************************)
EXTENDS Integers, Sequences, FiniteSets

CONSTANTS
  Tasks, Workers,
  MaxConcurrent, MaxQueued,  \* MAX_CONCURRENT, MAX_QUEUED
  Quota,         \* MAX_TASKS_PER_OWNER
  TaskTtl, LeaseTtl,
  MaxNow, MaxTokens, MaxRestarts  \* bounds: of the clock, leases of a task, restarts

ASSUME TasksAssumption ==
  /\ IsFiniteSet(Tasks)
  /\ MaxConcurrent \in Nat \ {0} /\ MaxQueued \in Nat /\ Quota \in Nat
  /\ TaskTtl \in Nat \ {0} /\ LeaseTtl \in Nat \ {0}
  /\ MaxNow \in Nat /\ MaxTokens \in Nat /\ MaxRestarts \in Nat

VARIABLES
  now,         \* the clock of the store and of the leases
  status,      \* of each task: "none", as in the row, or "gone" once deleted
  cancel,      \* cancel_requested
  expires,     \* expires_ms of the row
  lease,       \* the row of mcp_task_lease_v1, or NoLease
  handles,     \* the leases that workers believe they have
  queue, controllers, active, stopped,   \* as the fields of the runner
  settled,     \* the executions whose finally() is still to run
  due,         \* a dispatch() is queued
  up,          \* the runner's process is alive
  restarts,    \* history: how often it has crashed
  issued,      \* history: how many leases of a task there were
  runs         \* history: how often the executor was called for a task

rows == <<status, cancel, expires>>
leases == <<lease, handles>>
slots == <<controllers, active, settled>>
process == <<stopped, up, restarts>>
vars == <<now, rows, leases, queue, slots, due, process, issued, runs>>

NoLease == [worker |-> "nobody", token |-> 0, until |-> 0]

Leases == [worker : Workers, token : 1..MaxTokens, until : 0..(MaxNow + LeaseTtl)]

TypeOK ==
  /\ now \in 0..MaxNow
  /\ status \in [Tasks -> {"none", "working", "completed", "failed", "cancelled", "gone"}]
  /\ cancel \in [Tasks -> BOOLEAN] /\ expires \in [Tasks -> 0..(MaxNow + TaskTtl)]
  /\ lease \in [Tasks -> Leases \cup {NoLease}]
  /\ handles \subseteq [task : Tasks, worker : Workers, token : 1..MaxTokens]
  /\ queue \in Seq(Tasks) /\ Len(queue) <= MaxQueued
  /\ settled \subseteq controllers /\ controllers \subseteq Tasks
  /\ active = Cardinality(controllers) /\ active <= MaxConcurrent
  /\ due \in BOOLEAN /\ up \in BOOLEAN /\ stopped \in BOOLEAN /\ restarts \in 0..MaxRestarts
  /\ issued \in [Tasks -> 0..MaxTokens]
  /\ runs \in [Tasks -> Nat]

Init ==
  /\ now = 0
  /\ status = [t \in Tasks |-> "none"] /\ cancel = [t \in Tasks |-> FALSE]
  /\ expires = [t \in Tasks |-> 0]
  /\ lease = [t \in Tasks |-> NoLease] /\ handles = {}
  /\ queue = <<>> /\ controllers = {} /\ active = 0 /\ settled = {}
  /\ due = FALSE /\ up = TRUE /\ stopped = FALSE /\ restarts = 0
  /\ issued = [t \in Tasks |-> 0] /\ runs = [t \in Tasks |-> 0]

-----------------------------------------------------------------------------
(***************************************************************************)
(* The rows.                                                               *)
(***************************************************************************)

\* what get() returns a record for
Visible(t) == status[t] \notin {"none", "gone"} /\ now < expires[t]

Working(t) == status[t] = "working" /\ Visible(t)

InQuota == Cardinality({t \in Tasks : Visible(t)}) < Quota

Create(t) ==
  /\ status[t] = "none" /\ InQuota
  /\ status' = [status EXCEPT ![t] = "working"]
  /\ expires' = [expires EXCEPT ![t] = now + TaskTtl]
  /\ UNCHANGED cancel

\* slip: the update does not ask whether the task was cancelled meanwhile
Ended_IgnoringCancel(t, how) == IF Working(t) THEN how ELSE status[t]

\* finish(), fail() or markCancelled(), after the runner's look at the row, in one
\* stretch of code (task-runner.ts:111-131).  Their updates ask for cancel_requested
\* again (task-store.ts:193, :212, :240); only a cancellation by another process
\* could come in between, and would leave the row working.  It is left out.
Ended(t, how) ==
  IF ~ Working(t) THEN status[t] ELSE IF cancel[t] THEN "cancelled" ELSE how

CleanupExpired ==
  /\ \E t \in Tasks : status[t] \notin {"none", "gone"} /\ ~ Visible(t)
  /\ status' = [t \in Tasks |->
                  IF status[t] = "none" \/ Visible(t) THEN status[t] ELSE "gone"]
  /\ UNCHANGED <<now, cancel, expires, leases, queue, slots, due, process, issued, runs>>

-----------------------------------------------------------------------------
(***************************************************************************)
(* The runner.                                                             *)
(***************************************************************************)

Submit(t) ==
  /\ up /\ ~ stopped /\ Len(queue) < MaxQueued
  /\ Create(t)
  /\ queue' = Append(queue, t) /\ due' = TRUE
  /\ UNCHANGED <<now, leases, slots, process, issued, runs>>

\* tasks/cancel by way of the runner
CancelTask(t) ==
  /\ up /\ Working(t)
  /\ cancel' = [cancel EXCEPT ![t] = TRUE]
  /\ status' = [status EXCEPT ![t] = IF t \in controllers THEN @ ELSE "cancelled"]
  /\ UNCHANGED <<now, expires, leases, queue, slots, due, process, issued, runs>>

\* tasks/cancel of a server that has no cancelTask
RequestCancel(t) ==
  /\ up /\ Working(t)
  /\ cancel' = [cancel EXCEPT ![t] = TRUE]
  /\ UNCHANGED <<now, status, expires, leases, queue, slots, due, process, issued, runs>>

\* slip: one too many
Full_OffByOne == active > MaxConcurrent

Full == active >= MaxConcurrent

\* one turn of the loop of dispatch(), or its end
Dispatch ==
  /\ up /\ due
  /\ IF stopped \/ Full \/ queue = <<>>
     THEN due' = FALSE /\ UNCHANGED <<status, queue, controllers, active, runs>>
     ELSE LET t == Head(queue)
          IN  /\ queue' = Tail(queue) /\ UNCHANGED due
              /\ IF Working(t) /\ ~ cancel[t]
                 THEN /\ controllers' = controllers \cup {t} /\ active' = active + 1
                      /\ runs' = [runs EXCEPT ![t] = @ + 1] /\ UNCHANGED status
                 ELSE /\ status' = [status EXCEPT ![t] = Ended(t, @)]
                      /\ UNCHANGED <<controllers, active, runs>>
  /\ UNCHANGED <<now, cancel, expires, leases, settled, process, issued>>

\* The execution of t ends: with a result, which may be too large to be stored,
\* or it fails, or the watchdog gives it up.  An abort only hastens this.
Settle(t) ==
  /\ t \in controllers \ settled
  /\ settled' = settled \cup {t}
  /\ \E how \in {"completed", "failed"} : status' = [status EXCEPT ![t] = Ended(t, how)]
  /\ UNCHANGED <<now, cancel, expires, leases, queue, controllers, active, due, process,
                 issued, runs>>

\* slip: the slot is given back, but nobody looks at the queue
Finally_NoDispatch(t) ==
  /\ t \in settled
  /\ settled' = settled \ {t} /\ controllers' = controllers \ {t}
  /\ active' = active - 1
  /\ UNCHANGED <<now, rows, leases, queue, due, process, issued, runs>>

\* the finally() of dispatch()
Finally(t) ==
  /\ t \in settled
  /\ settled' = settled \ {t} /\ controllers' = controllers \ {t}
  /\ active' = active - 1 /\ due' = TRUE
  /\ UNCHANGED <<now, rows, leases, queue, process, issued, runs>>

Stop ==
  /\ up /\ ~ stopped /\ stopped' = TRUE
  /\ UNCHANGED <<now, rows, leases, queue, slots, due, up, restarts, issued, runs>>

\* the process ends, at any time; only the store survives
Crash ==
  /\ up /\ restarts < MaxRestarts
  /\ up' = FALSE /\ restarts' = restarts + 1 /\ stopped' = FALSE
  /\ queue' = <<>> /\ controllers' = {} /\ active' = 0 /\ settled' = {}
  /\ due' = FALSE
  /\ UNCHANGED <<now, rows, leases, issued, runs>>

\* slip: what was interrupted is queued once more
Restart_Resumes ==
  /\ ~ up /\ up' = TRUE /\ due' = TRUE
  /\ \E t \in Tasks : Working(t) /\ queue' = <<t>>
  /\ UNCHANGED <<now, rows, leases, slots, stopped, restarts, issued, runs>>

\* a new process, which calls failInterruptedOnRestart() first
Restart ==
  /\ ~ up /\ up' = TRUE
  /\ status' = [t \in Tasks |-> IF Working(t) THEN "failed" ELSE status[t]]
  /\ UNCHANGED <<now, cancel, expires, leases, queue, slots, due, stopped, restarts, issued,
                 runs>>

-----------------------------------------------------------------------------
(***************************************************************************)
(* The leases.                                                             *)
(***************************************************************************)

Acquire(w, t) ==
  /\ Working(t) /\ ~ cancel[t] /\ lease[t].until <= now /\ issued[t] < MaxTokens
  /\ issued' = [issued EXCEPT ![t] = @ + 1]
  /\ lease' = [lease EXCEPT ![t] = [worker |-> w, token |-> issued'[t],
                                    until |-> now + LeaseTtl]]
  /\ handles' = handles \cup {[task |-> t, worker |-> w, token |-> issued'[t]]}
  /\ UNCHANGED <<now, rows, queue, slots, due, process, runs>>

\* slip: the worker is compared, not the token
Matches_Worker(h) == lease[h.task].worker = h.worker

\* the row of the lease is this one
Matches(h) == lease[h.task].worker = h.worker /\ lease[h.task].token = h.token

Renew(h) ==
  /\ h \in handles /\ Matches(h) /\ now < lease[h.task].until
  /\ Working(h.task) /\ ~ cancel[h.task]
  /\ lease' = [lease EXCEPT ![h.task].until = now + LeaseTtl]
  /\ UNCHANGED <<now, rows, handles, queue, slots, due, process, issued, runs>>

Complete(h) ==
  /\ h \in handles /\ Matches(h) /\ now < lease[h.task].until
  /\ Working(h.task) /\ ~ cancel[h.task]
  /\ status' = [status EXCEPT ![h.task] = "completed"]
  /\ lease' = [lease EXCEPT ![h.task] = NoLease]
  /\ handles' = handles \ {h}
  /\ UNCHANGED <<now, cancel, expires, queue, slots, due, process, issued, runs>>

Release(h) ==
  /\ h \in handles /\ handles' = handles \ {h}
  /\ lease' = IF Matches(h) THEN [lease EXCEPT ![h.task] = NoLease] ELSE lease
  /\ UNCHANGED <<now, rows, queue, slots, due, process, issued, runs>>

Abandoned(t) == lease[t] # NoLease /\ lease[t].until <= now

\* slip: the tasks of dead workers fail before anyone looks for cancellations
Recovered_FailsFirst(t) ==
  IF ~ (Working(t) /\ Abandoned(t)) THEN status[t] ELSE "failed"

\* what failExpired() makes of a task
Recovered(t) ==
  IF ~ (Working(t) /\ Abandoned(t)) THEN status[t]
  ELSE IF cancel[t] THEN "cancelled" ELSE "failed"

FailExpired ==
  /\ \E t \in Tasks : Abandoned(t)
  /\ status' = [t \in Tasks |-> Recovered(t)]
  /\ lease' = [t \in Tasks |->
                 IF Abandoned(t) \/ status[t] = "gone" THEN NoLease ELSE lease[t]]
  /\ UNCHANGED <<now, cancel, expires, handles, queue, slots, due, process, issued, runs>>

\* An hour, the tasks' time to live, does not pass while one waits for its turn
\* or runs: 64 wait at most, and the watchdog gives each 30 seconds.
Tick ==
  /\ now < MaxNow /\ now' = now + 1
  /\ up /\ ~ stopped =>
       \A t \in controllers \cup {queue[i] : i \in 1..Len(queue)} : now' < expires[t]
  /\ UNCHANGED <<rows, leases, queue, slots, due, process, issued, runs>>

Next ==
  \/ CleanupExpired \/ Dispatch \/ Stop \/ Crash \/ Restart \/ FailExpired \/ Tick
  \/ \E t \in Tasks : Submit(t) \/ CancelTask(t) \/ RequestCancel(t) \/ Settle(t)
                      \/ Finally(t)
  \/ \E w \in Workers, t \in Tasks : Acquire(w, t)
  \/ \E h \in handles : Renew(h) \/ Complete(h) \/ Release(h)

Spec == Init /\ [][Next]_vars

\* Microtasks run, executions end (the watchdog sees to it), and a process that
\* crashed is started again.
FairSpec ==
  /\ Spec
  /\ WF_vars(Dispatch) /\ WF_vars(Restart)
  /\ \A t \in Tasks : WF_vars(Settle(t)) /\ WF_vars(Finally(t))

-----------------------------------------------------------------------------
(***************************************************************************)
(* Properties.                                                             *)
(***************************************************************************)

\* A worker that completes a task holds its latest lease: one whose lease ran out
\* and was taken by another can no longer end the task, although it comes back
\* with a result (task-leases.ts, "Complete only if the latest, unexpired worker
\* token still owns the task").
LatestLeaseCompletes ==
  [][\A h \in handles :
       h \notin handles' /\ status[h.task] = "working" /\ status'[h.task] = "completed"
         => h.token = issued[h.task]]_vars

\* As long as the runner is not stopped, whatever it accepted and has not ended
\* is in its queue or runs: no order of cancellations, settlements, recoveries
\* and restarts leaves a task working with nobody to end it (task-runner.ts).
WorkingHasRunner ==
  up /\ ~ stopped => \A t \in Tasks :
    Working(t) => t \in controllers \/ \E i \in 1..Len(queue) : queue[i] = t

\* The executor is called at most once for a task, whatever crashes: an
\* interrupted task is not resumed (task-store.ts failInterruptedOnRestart).
RunsOnce == \A t \in Tasks : runs[t] <= 1

\* A task whose cancellation was accepted is only ever reported as failed by a
\* restart: neither the failure of its execution, nor the watchdog, nor the
\* recovery of a dead worker overtakes the cancellation (task-leases.ts, "An
\* accepted cancellation wins over abandoned worker recovery").
CancelWins ==
  [][\A t \in Tasks : cancel[t] /\ status[t] = "working" /\ status'[t] = "failed" => ~ up]_vars

\* A task ends once, completes only if it was not cancelled, and is never
\* revived, although a runner, workers and restarts all write its row.
Lifecycle == INSTANCE TaskLifecycle
ImplementsTaskLifecycle == Lifecycle!Spec

\* Every task that the runner accepted ends, also when the process crashes or
\* the execution hangs, unless the runner is stopped (task-runner.ts stop leaves
\* what is queued to the next start).
AcceptedTasksEnd == \A t \in Tasks : Working(t) ~> ~ Working(t) \/ stopped

=============================================================================
