# TLA+ models of easyeda-mcp-pro

easyeda-mcp-pro is an MCP server that lets AI assistants work on EasyEDA Pro
designs. Server processes are started by MCP clients; one of them owns a local
WebSocket listener that a bridge extension inside EasyEDA connects to, and every
read or write of a drawing is a call over that bridge. This directory holds
TLA+ modules of the parts whose correctness depends on order, failure or time,
TLC configurations that check them, and theorems about eight of the modules that
TLAPS checks. `PROJECT.json` lists the components, runs, mutants, the source
lines behind every definition, the findings, the hazards and the theorems.

To check: `tlc -config X.cfg M` for each run of the table below and each
configuration of "Disagreements shown by hand", and `tlapm M.tla` for each
module `*Proofs`.

## 1. Inventory

Paths are under `src/src/` unless they say otherwise.

### Parts with state of their own

| part | state | operations | hard behaviours |
|---|---|---|---|
| **Transaction manager** `transactions/manager.ts` | a record per transaction (state, operations, gate results, `expiresAt`, `rollbackComplete`) and the lock table `activeByDocument` | begin, runCreate, runModify, runDelete, validate, commit, rollback, get; each expires stale transactions first | hooks are awaited, so calls interleave; answers come after a transaction has ended; time to live; a rollback that fails half-way |
| **Atomic batch writes** `tools/L1_schematic_batch.ts`, hooks in `transactions/easyeda.ts`, tools in `tools/L1_transactions.ts` | none between calls; writes the drawing and the transaction's log | preflight, open session, run each operation, validate and commit, or roll back | the n-th write fails; a write landed but its answer is lost; retries of a rollback |
| **Bridge manager** `bridge/manager.ts` | connection state, session socket and its reported version, `requestMap`, pairing challenges, timers, role (owner or follower) | connect, disconnect, call; events of sockets, relay and timers | sockets replace each other; retries; calls that wait for a session; version drift |
| **Listener ownership** `bridge/listener-ownership.ts` | a lock directory in the file system, shared by all processes | acquire, update ports, release, reclaim | processes interleave at each file-system call and die at any of them |
| **Local relay** `bridge/local-bridge-relay.ts` | followers' connections and their outstanding calls | attach, forward a call, publish status | the owner goes while calls are outstanding |
| **Remote gateway** `remote/*.ts` | sessions, pairing codes, approvals, invocation grants, a dispatch queue per session | register, pair, approve, authorize, route a request, disconnect | what was checked before a request queued is stale when it is dispatched; time-outs of requests that go on running; late answers |
| **Durable tasks** `tasks/*.ts` | SQLite tables of tasks and leases; the queue and the slots of the runner | submit, cancel, stop, run; acquire, renew, complete, release, fail expired | restart; a worker that lost its lease; cancel against finish; a watchdog |
| **CDP bridge** `bridge/cdp-manager.ts` | its own request table | connect, call, disconnect | as the bridge manager, without roles |
| **Vendor clients** `vendors/*.ts` | time of the last request per host; a file cache | request; get, set | concurrent requests to one host |
| **Extension: loader** `easyeda-bridge-extension/src/index.ts` (beside `src/src`) | connection state, scan number, preferred port, session socket, timers, Auto-Connect setting, connection mode | activate, deactivate, the commands of the menu; callbacks of two socket APIs, timers | a scan that is overtaken by a command; callbacks that come late or never; a close event or none |
| **Extension: relay client** `easyeda-bridge-extension/src/remote-client.ts` | one socket, its session, the pairing code, a reconnect timer, the time of the last heartbeat | connect, disconnect, tool request, approval | reconnection into a new session while the editor still works for the old one |
| **Extension: dispatcher** `easyeda-bridge-extension/src/dispatcher.ts` | none; EasyEDA's own document | handlers of bridge methods | a handler goes on after its caller gave up |

### How they interact

A tool (`tools/*.ts`) calls the transaction manager with hooks; the hooks call
the bridge manager, directly when this process owns the listener and through
the local relay to the owner when it follows. The bridge manager asks listener
ownership for the lock in every `connect()`. In hosted mode, calls go through
the remote gateway to the extension's relay client instead. The transaction
manager is a process-wide object that any number of tool calls share; the bridge
manager is one per process; the lock directory and the extension are shared by
all processes of the machine.

### Parts without state that matters

The remaining directories (schematic model and engine, layout, PCB analysis,
net validation, design rules, BOM, power tree, simulation, export manifests,
production QA, workflows, catalog, release and live-test tooling,
configuration, observability, storage of verified devices) are pure functions,
single database statements, parsing or formatting. `PROJECT.json` lists each with
the reason it is not modelled. Outside `src/`, `scripts/`, `skills/` and
`apps/` are build tooling and prompt material.

### What makes each part correct

- *Transaction manager*: one unresolved transaction per document; what was
  validated is what is committed; nothing revives an ended transaction; a
  reported rollback left nothing; no document stays locked for ever.
- *Batch writes*: a batch is in the drawing as a whole or not at all; a
  transaction reported as rolled back left the drawing as it found it.
- *Bridge manager*: every request waits on the session's socket only, and ends;
  no write goes to an extension of another version; the matching extension
  keeps its session; a process gets back to listening or following.
- *Ownership*: one owner; its lock stays its own; a dead owner's lock is reclaimed.
- *Local relay*: a follower shows the state its owner is in; what it asks the owner
  to do ends.
- *Remote gateway*: a write stands on an approval that the user gave for that
  session, and an approval is spent once; calls of one session do not overlap in the
  extension; every call ends.
- *Tasks*: a task is run once and ends once; a worker without the latest lease
  cannot complete it; a cancelled task is not completed; no task is forgotten.
- *Extension loader*: silent when it is told to be; otherwise it finds the server.

## 2. Modules

| module | of | checked by |
|---|---|---|
| `TransactionManager` | `transactions/manager.ts` | `MCTransactionManager`, `TransactionManagerProofs` |
| `DocumentLock` | the promise the manager makes its clients | refinement in `tx_prompt` and `TransactionManagerProofs` |
| `BatchWrite` | the batch tool, its hooks and the rollback tool, over a drawing | `MCBatchWrite`, `BatchWriteProofs` |
| `BridgeManager` | `bridge/manager.ts`, with owner, relay and extensions as environment | `MCBridgeManager`, `BridgeManagerProofs` |
| `ListenerOwnership` | `bridge/listener-ownership.ts` | `MCListenerOwnership`, `ListenerOwnershipProofs` |
| `LocalRelay` | both ends of `bridge/local-bridge-relay.ts` | `MCLocalRelay`, `LocalRelayProofs` |
| `RemoteGateway` | `remote/*.ts` with the extension's `remote-client.ts` | `MCRemoteGateway`, `RemoteGatewayProofs` |
| `DurableTasks` | `tasks/*.ts`: store, runner, leases | `MCDurableTasks`, `DurableTasksProofs` |
| `TaskLifecycle` | what clients of tasks are promised | refinement in `tasks` and `DurableTasksProofs` |
| `ExtensionLoader` | the connection of `easyeda-bridge-extension/src/index.ts` | itself, `ExtensionLoaderProofs` |

A definition named `Action_Slip` is the action with a plausible programming slip
in it. No specification uses it: it shows that some property would notice.

### TransactionManager

Node runs the manager on one thread, so an action is a stretch of code between
two awaits. Every call first runs `expireStaleTransactions`; the operators
`stateX`, `rollbackCompleteX` and `lockX` are the three maps as it leaves them,
and a call's guard and assignments refer to those. A call that is refused has
done the expiry and nothing else: that is the action `Get`, whatever call it was.

| code | model |
|---|---|
| `TransactionRecord.state`, `.documentId`, `.rollbackComplete`, `.operations`, `.validations` | `state`, `docOf`, `rollbackComplete`, `ops`, `validations` (the log the gates were shown) |
| `activeByDocument` | `lock` |
| calls suspended in `await hooks.snapshotBefore` | `reading` (a count) |
| a `rollback()` in its loop | `loops[t][k]`: candidates left, and whether one failed |
| `expiresAt` passed | `t \in due`, set by `Lapse` |
| `runCreate`; `runModify`/`runDelete` | `RunCreate`; `RunAfterSnapshot` then `ReserveWithSnapshot` or `SnapshotRefused` |
| the write's answer and its compensation | `SettleApplied`, `SettleCancelled`, `SettleFailed` |
| `validate` | `Validate` then `GatesAnswered` |
| `commit` | `Commit` |
| `rollback` | `RollbackNothing`, or `Rollback`, `RollbackOperation` per candidate, `FinalizeRollback` |

Payloads, hashes and snapshots are left out: an operation is its state and how
its compensation ended. A write and its compensation are one await here;
`BatchWrite` takes them apart. Two constants describe the clients: transactions
in `Overlapping` have clients that start a call before the last one ended (two
tools may name one transaction), and those in `Lapsing` may outlive their time
to live. `DocumentLock` is the abstract specification: a transaction acquires a
free document, holds it, releases it. `TransactionManager` implements it (an
open transaction is one that `holdsDocumentLock`, the table is the owner
function) when clients await their calls and finish in time.

### BatchWrite

One client sends batches, possibly in a transaction it opened itself. The drawing
`doc` maps primitive ids to what they look like; `original` is the drawing when
the transaction began. A bridge call together with the reads that verify it is
one step that succeeds, is refused, or lands with its answer lost, within a
budget of `MaxFaults` failing calls. `FaultyRuns` and `FaultyUndos` say in which
kinds of write, and of compensation or restore, calls may fail. Time may run
out between any two steps. `before` of a log entry is the snapshot the hook
took; recreating a deleted primitive takes a fresh id. The transaction manager
is folded into what a single awaiting client sees of it (`txX` is its expiry).

### BridgeManager

A step is the event loop's: one event of a socket, the relay or a timer, or the
code between two awaits of `connect()` or `call()`. Everything outside the
process is a choice: what `acquire()` answers, whether ports are free, what the
owner's status says, when extensions open sockets, pair, shake hands, go. A
socket that the server closes is "closing" until the other side agrees and may
still deliver messages, as in `ws`. `Version` gives what each extension reports
of itself: the server's version, another, or none. The registry-mismatch gate
that stands before the version gate refuses in the same way and is not modelled
separately. `connecting` is the one `connect()` in flight; `ScheduleReconnect`
keeps the count of timers and whether `reconnectTimer` refers to one, because an
overwritten timer still fires.

### ListenerOwnership

All processes of the machine, one file-system call a step: `mkdir`, writing and
renaming the record, the snapshot (`lstat` and read, taken as one step), the
staleness check, the rename into quarantine, its verification and the way back,
and `rmSync` as two steps on release. A process may crash at each of them and
its files stay. `Age` lets the 5-second grace of a directory without a record
pass, but not while a live process is about to write or remove it. Tokens and
pids are the process's name. `raced` remembers that two live processes were both
between the check and the rename.

### LocalRelay

`BridgeManager` has the relay as its environment; here are both of its ends: the
owner with its clients, and followers that attach, receive, call and leave. `down`
holds what is on its way to a follower, in order; a socket that closes still delivers
what was sent. The owner's state changes with a broadcast to every client
(`broadcastFollowerSnapshot`), by the session's start, end and heartbeat. Three details of
the code matter. `attachFollowerRelay` listens for statuses only after its await
returns, so a status in the same read as the answer to the attach is emitted to
nobody: `Attached` takes over n such messages and `missed` remembers it. A relay that
closes without a port closes authenticated sockets only: `orphans` are the
others. And a follower that dies or leaves is forgotten by the owner while its calls
are still being made.

### RemoteGateway

The gateway, the network and the client of one extension. The client registers once on each
socket, so a session and its socket share a number; a reconnection is a new
session. A tool request travels to the extension (`wire`), is executed
(`executing`) and is answered (`answers`); any socket may be lost at any time, and an
answer that finds its socket gone is lost with it. `queue` is the dispatch queue of
each session, whose head alone is dispatched; `pending` is the socket's table of
requests. A call that passes its deadline is given up and its session
quarantined, while the editor may still be at it (`TimeOut`). Approvals are asked
for, answered by the user, lapse, are spent by a call or become the grant of a tool
invocation, and are deleted with their session; `yes` and `direct` are history
variables. Identity, scope and risk are abstracted to one user and to whether a call
writes. `CheckHeartbeatLiveness` is the client's sweep.

### DurableTasks and TaskLifecycle

A statement of the store is a step, and so is a turn of the runner's `dispatch()` loop.
Rows (`status`, `cancel`, `expires`) and leases survive a crash; queue, controllers and
slots do not. `Restart` begins with `failInterruptedOnRestart`. Workers of other
processes hold `handles`, what they believe to be leased to them, and may return
with any of them at any time. The clock is the store's; an hour, the time
to live of a task, does not pass while one waits for its turn or runs (64 wait at
most, 30 seconds each): that is the guard of `Tick`. `TaskLifecycle` is the abstract
specification: a task is accepted once, ends at most once, is not completed once its
cancellation was accepted, is never revived, and is forgotten in the end.

### ExtensionLoader

A scan tries each port, over `SYS_WebSocket.register`, which reports neither close nor
error and may never call back, or over a raw `WebSocket`, as first choice or as
fallback. A scan that was overtaken (its run number is not `connectRunId`)
changes nothing any more, so only the current one is in the state. Every
command of the menu may come at any time, the saving of the Auto-Connect setting is
awaited and may fail, and the server may come, go and move to another port. Three
history variables serve the properties. `off` is the user's last word: set by a
disconnect, cleared by the command to connect or to enable Auto-Connect when it is
given (not when its saving ends), and by starting the extension. `overtaken` says
that an older command or a repeated activation may still break it, and `refused`
that a server closed an accepted socket before its hello. No guard reads them.

## 3. Runs

| run | question | instance | distinct states |
|---|---|---|---|
| `tx_overlap` | do the properties that need no discipline of the clients hold, and can a document stay locked although its client asks for the rollback and restores succeed? | 1 document, 2 transactions of 2 and 1 operations, the first with overlapping calls, both may lapse | 108,000 |
| `tx_prompt` | with clients that await and finish in time, is the manager a `DocumentLock`? | 2 documents, 3 transactions of 1 operation, interleaved | 138,000 |
| `batch_restores` | rollback restores, commit is whole, an ended transaction is not touched | 2 primitives, every batch of up to 2 operations on an old and a new primitive, 2 batches, 2 faults, lapses | 98,600 |
| `batch_unawaited` | does any failure roll the batch back? *no* | 1 create, no fault, lapses | violation |
| `bridge_session` | sessions, calls and roles of one process | 3 extensions (2 matching, 1 stale), 1 write, 2 ports, 2 attempts, 2 timers | 67,500 |
| `bridge_stuck` | does the process never stop retrying? *no* | as above without calls, 1 timer | violation |
| `ownership_crash` | the owner keeps its lock; a dead lock is reclaimed | 3 processes, 2 attempts, 1 crash | 178,000 |
| `local_relay` | do followers show the owner's state, and do their calls end? | 2 followers, 1 call, 2 messages on their way to each | 173,000 |
| `remote_gateway` | approvals, overlap and the end of calls | 2 sessions, 1 approval, 2 writes of one input and 1 read | 275,000 |
| `remote_heartbeat` | does a healthy connection stay up? *no* | the same | violation |
| `tasks` | one run, one end, leases, cancellation, restart | 2 tasks, 1 slot, 1 place in the queue, 1 worker with 2 leases, 1 crash, a clock of 0..2 | 1,213,000 |
| `extension_loader` | silence when off, reconnection when not | 3 ports, both socket APIs | 52,100 |

### What the passing runs show

- `tx_overlap`. `LockEntryIsHolder`: the table never names a transaction that
  does not hold its lock. `CommittedAsValidated`, `ApprovedLogSettled`: what the
  gates were shown is what is committed, although calls with a snapshot in hand
  come back at any time. `RolledBackIsClean`: for clients that await, a reported
  rollback left no operation applied, failed or in flight. `EndedStaysEnded`: late
  answers never revive or change an ended transaction. `LocksAreReleased`: a transaction
  that holds its document for ever has a client that in the end no longer asks for a
  rollback the manager would begin, or restores that fail again and again; no order of
  late answers, lapses and other calls does it alone.
- `tx_prompt`. `ImplementsDocumentLock`: a document is taken when it is free, by one
  transaction, and given back by its holder; nothing else happens to the table.
- `batch_restores`. `RolledBackRestores`: the drawing is the original one (but for
  ids of recreated primitives) when no call failed, or when no primitive was
  written twice. `CommittedIsWhole`: the drawing is the original with exactly the
  log applied. `EndedIsUntouched`.
- `bridge_session`. `PendingIsOnSession`, `WritesAvoidStale`, `ExactKeepsSession`,
  `ConnectedHasSession`; under fairness `EveryCallSettles` and `RecoversListener`
  (which leaves out the case of `bridge_stuck`).
- `ownership_crash`. `OwnerKeepsLock` except after a race of two reclaims, and
  `DeadLockIsReclaimed` wherever in `acquire()` or `release()` the crash was.

- `local_relay`. `FollowersSeeOwner`: a follower that has received all that was sent
  to it shows its owner's state, but for a status it did not listen for yet, which
  the next heartbeat repairs (`MissedStatusIsRepaired`). `RelayedCallsEnd` without the
  help of the time-out, also when the owner shuts down or dies.
- `remote_gateway`. `NoOverlapInSession`, also after a time-out, a lost socket and a
  reconnection: the quarantine keeps later calls away from what the editor is still
  at. `WritesWereApproved` and `ApprovalsAreSpentOnce`. `EveryCallEnds` by its queue, its
  deadline or the end of its session.
- `tasks`. `RunsOnce`, `LatestLeaseCompletes`, `CancelWins`, the refinement of
  `TaskLifecycle`, and under fairness `AcceptedTasksEnd`.
- `extension_loader`. `OffIsOff`: while the remote relay is chosen, and after a
  disconnect, a deactivation or the end of the relay until the user asks again, no scan,
  session or timer of the loader is left, whatever was under way. Two cases are
  excepted, in which the code does reconnect (`ExtensionResumed`). `Reconnects`: with
  Auto-Connect on it finds a server that stays (which leaves out the case of
  `ExtensionStuck`, and a setting whose savings ended in another order than they
  began in and left `manualDisconnectRequested` set).

### What the violations show

Each refutes a sentence of the repository; `PROJECT.json` has the quotations.

1. *An unawaited promise* (`L1_schematic_batch.ts:772`, `batch_unawaited`): when
   validation or commit of an internal batch refuses, its writes stay and no
   rollback is tried.
2. *Stuck connecting* (`bridge/manager.ts:322`, `bridge_stuck`): after a failure of
   `acquire()` that is no conflict, every retry returns at once. Such failures are
   ordinary: in `ListenerOwnership` a second process that looks before the first has
   written its record ends in "threw".
3. *No first heartbeat* (`remote-client.ts:409`, `remote_heartbeat`): each side sends a
   heartbeat only in answer to the other's, so none is ever sent, and the client closes
   a healthy socket within a minute. The session that follows is not paired.

### Disagreements shown by hand

These configurations are not among the runs. Each checks one property that the code
does not have, and `tlc` prints a behaviour that violates it.

| configuration | module | property | what happens |
|---|---|---|---|
| `TxLapsedWrite.cfg` | `MCTransactionManager` | `SingleHolder` | a write in flight when its transaction expires is not counted as unresolved (`transactions/manager.ts:666`): the document is handed on and two transactions write to it |
| `TxExpiredRollback.cfg` | `MCTransactionManager` | `FailedKeepsLock` | rolling back an expired transaction deletes the lock entry of the one that follows it (`transactions/manager.ts:623`) |
| `BatchRecreatedTwice.cfg` | `MCBatchWrite` | `RollbackIsExact` | a recreation that was not confirmed is repeated by the next rollback (`easyeda.ts:238`) |
| `BatchRetriedOutOfOrder.cfg` | `MCBatchWrite` | `RollbackIsExact` | the retry of a half-failed rollback restores the newer modification over the older (`transactions/manager.ts:654`) |
| `OwnershipRace.cfg` | `MCListenerOwnership` | `OneOwner` | the staleness check and the rename of a reclaim are not atomic (`listener-ownership.ts:258`): two owners |
| `BridgeUntimed.cfg` | `MCBridgeManager` | `UnpairedIsTimed` | when the session closes, the pairing timers of all other sockets are cleared with it (`bridge/manager.ts:667`): a socket that never pairs stays open |
| `ExtensionStuck.cfg` | `ExtensionLoader` | `NeverIdle` | a socket that closes after it opened and before its hello leaves the loader disconnected with no timer (`index.ts:1250`) |
| `ExtensionResumed.cfg` | `ExtensionLoader` | `DisconnectIsFinal` | the user enables Auto-Connect and disconnects before the setting is saved: the saving ends, clears `manualDisconnectRequested` and connects (`index.ts:1524-1531`), although the toast said that only Connect resumes (`index.ts:1425`). A second activation does the same (`index.ts:1560`) |

### Bounds, and why they are enough

Every bound is a CONSTANT. Transactions interact in pairs, over one document's
entry and expiry's order of creation, so two with a third as successor cover the
cases; documents only interact by not doing so, hence two where it is checked.
Two operations are needed for a log with a settled and an open operation and for
rollback order. In `BatchWrite` two operations per batch, two batches and a
primitive that exists beside one that is created give every pair of kinds on one
target, within and across batches; two faults are a failed write and a
failed compensation or restore. `FaultyUndos` leaves out "delete" in
`batch_restores` because of `BatchRecreatedTwice`. The bridge needs two matching
extensions for a replacement and a stale one; one write, because calls share
nothing but the request table; two attempts and two ports, to fail and to fail
for the last time; two timers, for one that is overwritten (`MaxTimers` prevents
the scheduling of a third, and a step that would arm it waits until one has
fired). Three processes suffice for an owner that dies and two that race.
Two followers of the relay do not see each other but compete for its capacity and its
broadcasts; two messages on their way are an answer with a status behind it. Two
sessions of the gateway are one and its successor after a reconnection; two writes
with the same input contend for one approval, and a read shares their queue. Two tasks
contend for one slot, and the second waits in the queue's only place; one worker
with two leases is a worker and its own stale former self, and the clock reaches the end of
a lease and of a task. Three ports are a preferred one, one below and one above.
`TwoThenOne` and `OneEach` in the MC modules are `MaxOps` per transaction.

Where a configuration turns deadlock checking off, the system may really stop:
every socket is closed and the bridge disconnected, or every process is done.

## 4. Fairness

- `TransactionManager!FairSpec`. Hooks answer (every bridge call has a time-out),
  so the await in progress ends, in one way or another: weak fairness of each kind of
  answer. Nothing is assumed of clients or of EasyEDA. What the code does not promise is
  in the property instead: `LocksAreReleased` allows a document to stay locked when
  its client stops asking for a rollback, or when restores fail again and again, as
  that of a create without a known id does every time (`transactions/easyeda.ts:70`;
  `docs/architecture/production-schematic-engine.md:74`, "until rollback succeeds").
- `BridgeManager!FairSpec`. Timers fire and awaits return (weak); asked again and
  again, the lock's owner answers or goes and a port becomes free (strong). No
  fairness is assumed of extensions.
- `ListenerOwnership!FairSpec`. Live processes go on, time passes, and followers
  ask again when their owner is gone (weak).
- `LocalRelay!FairSpec`. Messages and close events arrive, and the owner's calls end
  (weak: its own calls have a time-out). An extension that stays connected sends its
  heartbeats (strong, because a follower's full socket may delay one).
- `RemoteGateway!FairSpec`. A waiting call's turn comes (a microtask) and the deadline
  of a running one passes (a timer); both weak. Nothing is assumed of network,
  client or user.
- `DurableTasks!FairSpec`. `dispatch()` and `finally()` run, executions end (the
  watchdog sees to it), a process that crashed is started again; all weak.
- `ExtensionLoader!FairSpec`. Timers run out and settings are saved, in one way or the
  other (weak); a listening server that is tried again and again is reached and answers
  in time (strong).

## 5. Proofs

`TransactionManagerProofs` proves, for all documents, any number of transactions,
operations, overlapping calls and rollbacks, and any choice of `Lapsing` and
`Overlapping`, from `ConstantsAssumption` alone (the bounds are naturals and `None`
is neither a document nor a transaction):

| theorem | states |
|---|---|
| `TypeCorrect` | `Spec => []TypeOK` |
| `LockEntriesAreLive` | `Spec => []LockEntryIsHolder` |
| `ApprovedIsCommitted` | `Spec => [](ApprovedLogSettled /\ CommittedAsValidated)` |
| `EndedIsFinal` | `Spec => EndedStaysEnded`, an action property |
| `RollbackLeavesNothing` | `Spec => []RolledBackIsClean` |

The argument. `TypeOK` is inductive, and so is `LockEntryIsHolder` together with it:
the one lemma that takes thought is that the table an expiry leaves, of several
stale transactions on one document, names the last only if it still holds the lock
(`ExpiryKeepsHolders`). `ApprovedLogSettled` is not inductive: a rollback in progress
could restore an operation of an approved transaction, and `validate()` does not look
for restored ones. `LogInv` adds what excludes it: a rollback in progress belongs to
a transaction that is rolling back, rolled back or failed, and a transaction that
is worked on has no restored operation. `EndedStaysEnded` follows from `LogInv` step by
step. `RolledBackIsClean` needs `RollbackInv`: for a client that awaits its calls, a
rollback runs alone, nothing is in flight beside it, and whatever is not undone is
still on its list or has been recorded as a failure. Each preservation proof has one
step per action.

`BridgeManagerProofs` proves, for any sockets and the versions they report, any
calls, and any number of attempts, ports and pending timers, from
`BridgeAssumption` alone (the three numbers are positive, the versions are of the three
kinds, writes are calls, `None` is not a socket):

| theorem | states |
|---|---|
| `TypeCorrect` | `Spec => []TypeOK` |
| `PendingOnSession` | `Spec => []PendingIsOnSession` |
| `ConnectedMeansSession` | `Spec => []ConnectedHasSession` |
| `ExactVersionKeepsSession` | `Spec => ExactKeepsSession`, an action property |
| `WritesAvoidStaleExtensions` | `Spec => []WritesAvoidStale` |
| `RetryingNeverStops` | `Spec => []NeverStranded` |

The argument. `PendingIsOnSession` becomes inductive once it says that there is a
session as soon as something is pending. The other three depend on which role
the process has, because a follower's `state` and `version` are its owner's:
`RoleInv` says that until `disconnect()` at most one of three things decides on the
role (a `connect()` in flight, a timer, the owner that is followed), that none of
them does once the process listens, and that a process that does not listen has
never seen a socket. So an owner's status can never overwrite the version of a session
of the process's own (`VersionOfSession`), which is what the version gate and
the refusal of stale handshakes read. After `disconnect()` none of this holds: a
`connect()` in flight or a timer that nothing refers to may make a follower of a
process that still has sockets; hence `~ stopped` in `ExactKeepsSession`.
`NeverStranded` is the safety half of `RecoversListener`: a process that has joined,
and neither listens nor follows, is at a `connect()` that retries when it fails or has
a timer that begins one. It is inductive with `RoleInv` and `LaterIsByTimer` (only the
first `connect()` was not begun by a timer), and it excludes the case of
`bridge_stuck`, a failure to take the lock that names no owner.

`TransactionManagerProofs` also proves three theorems about clients that await their
calls (`Overlapping` is empty):

| theorem | states | of clocks |
|---|---|---|
| `HoldersAreSingle` | `Spec /\ [][ExpiredIsFinal]_vars => []SingleHolder` | any may lapse |
| `FailedStaysLocked` | `Spec /\ [][ExpiredIsFinal]_vars => []FailedKeepsLock` | any may lapse |
| `ManagerImplementsDocumentLock` | `Spec => ImplementsDocumentLock` | none lapses (`Prompt`) |

That the table names holders only is half of it; the other half is that every holder
is in the table (`HolderIsLocked`). What breaks that half is a write that fails after its
transaction has expired, which takes the lock for it again, or the rollback of an
expired transaction: `TxLapsedWrite` and `TxExpiredRollback`. `ExpiredIsFinal`, no
transaction leaves the state expired, is the hypothesis that neither happens, and the
only one: clocks may lapse at any moment, in a write, a validation or a rollback.
`LapseInv` is inductive under it. Its facts are that a failed transaction demands a
rollback and writes are in flight only in one that is open or was until it failed or
expired (`Unsettled`), and that whoever still holds its document after an expiry held it
before and is in the table which the expiry leaves (`ExpiryHolds`). The refinement needs in addition that no clock lapses, because an
expiry may release several documents in one step and take them in the same one; it goes by
three kinds of step: those that keep the holders, take a free document, or give one back.
`CommitsWhatWasValidated` is the second half of `ApprovedIsCommitted` on its own.

| module | theorems | constants |
|---|---|---|
| `BatchWriteProofs` | `TypeCorrect`, `EndedDrawingStays`, `CommitsWholeBatches`, `RollbackRestores`, `FaultlessRollbackRestores`, `DrawingIsAccountedFor` | every drawing, batches, number of primitives and faults |
| `ListenerOwnershipProofs` | `TypeCorrect`, `OwnerKeeps`, `OwnersAreOne` | any processes and crashes |
| `LocalRelayProofs` | `TypeCorrect`, `FollowersSeeTheirOwner`, `PendingCallsAreCarried` | any followers, calls and messages |
| `RemoteGatewayProofs` | `TypeCorrect`, `CallsDoNotOverlap`, `WritesNeedApproval`, `ApprovalsSpentOnce`, `EndedSessionsAreForgotten`, `QueuesAreServed` | any calls, sessions, approvals |
| `DurableTasksProofs` | `TypeCorrect`, `ExecutedOnce`, `WorkingIsAttended`, `LatestCompletes`, `CancellationWins`, `TasksImplementLifecycle`, `SlotsAreUsed` | any tasks, workers, slots, places, crashes |
| `ExtensionLoaderProofs` | `TypeCorrect`, `SilentWhenOff`, `OnlyRefusalStopsRetrying` | any number of ports, either or both APIs |

Each rests on the module's own assumption (`BatchAssumption`, ... `LoaderAssumption`) and
nothing else, but for `RollbackRestores`, whose hypothesis is that recreations of
deleted primitives are confirmed (`"delete" \notin FaultyUndos`): the configuration
`BatchRecreatedTwice` shows what happens otherwise. `FaultlessRollbackRestores` is
without it. The arguments:

- *BatchWrite.* `Working` ties the tool's step to the state of its transaction: it
  compensates or restores only for one that has not ended. `AppliedSoFar` says that a
  batch in which an operation failed goes on to roll back, so that a commit
  finds applied operations only, and `WholeSoFar` that until then the last operation on
  each primitive says what it looks like: `CommittedIsWhole`, with no induction over the
  log. `RolledBackRestores` needs `DrawInv`, which says of every operation what it has
  left on its primitive: the first on each read the original (`Targets`), a primitive
  that no operation names is as it was (`Untouched`), a deleted one stays gone
  (`DeletedIsGone`), the first operation is undone only after the others
  (`Faultless`, `FirstIsUndone`), and whatever is not undone is on the rollback's list or
  recorded as missed (`Restoring`). Recreated primitives have new ids, so they are
  counted: of every value there are as many as deletions undone (`SameNumber`).
  `DrawingIsAccountedFor` follows from the same invariant: what a rollback leaves when it
  fails half way can be found from the transaction's log.
- *ListenerOwnership.* `OwnerKeepsLock` is not inductive: a process that reclaims acts on
  a snapshot. `OwnershipInv` says that, unless two reclaims raced, a directory is
  made by a process once (`MadeOnce`), a snapshot is never ahead of the directory it was
  taken of (`SnapshotsAreOld`), what is about to be moved aside is still a dead lock
  (`MovesAreStale`), and whoever is at work on a directory of its own still has it
  (`HoldersHaveLock`). `OwnersAreOne`, at most one owner, follows.
- *LocalRelay.* `FollowersSeeOwner` speaks of followers that have been told. `Told` is about
  all: the last state on its way to a client, or else the one it shows, is the owner's,
  unless it missed it and nothing has come since. It needs `Attaching`: the first message
  that an attaching follower reads is the answer to its attach, and an owner that is
  gone has no clients. `PendingIsCarried` is what `RelayedCallsEnd` needs besides
  fairness: whoever has a pending call has it at the owner, has its answer under way, or
  has a closing socket that will fail it.
- *RemoteGateway.* `GatewayInv` is `QueueOK` (a queue holds its session's unfinished calls
  once each, and only the first may run), `LinkOK` (whatever is on the wire or
  in the editor runs, or belongs to a session that is gone) and `NoOverlapInSession`
  itself. `ApprovalInv` says which records can stand behind a call: a record that was not
  spent stands behind none. `WaitingIsQueued` and `FirstMayLeave` are what
  `EveryCallEnds` needs besides fairness: nobody waits outside a queue, and no queue is
  headed by a call that neither waits for its turn nor has its request in the table.
- *DurableTasks.* `TasksInv` is `TypeOK`, `Queued` (no task is queued twice, or queued
  while it runs, counted by the calls of the executor), `Attended` (a working task waits or
  runs, and a settled execution has ended its task) and `LeaseIsLatest`. The refinement
  is step by step from `TasksInv`. `NoIdleSlot`, the safety half of `AcceptedTasksEnd`,
  says that no task waits beside a free slot unless `dispatch()` is still to look.
- *ExtensionLoader.* `TypeOK` is inductive, and `OffIsOff` with one more fact,
  `StaysOff`: once the user is off, and nothing older is to take effect,
  `manualDisconnectRequested` is set and no saving under way would clear it. Every other
  callback that could break the silence asks whether its scan is still the current one. `OnlyRefusalStopsRetrying` is about `NeverIdle`, which `ExtensionStuck`
  refutes: it fails only after a server closed a socket before the hello. Its invariant,
  `OnlyRefusedScansStop`, says that a scan that goes on in the state disconnected has had
  a socket closed in this way.

Every safety invariant, action property and refinement the passing runs check is stated
by one of these theorems: for all values of the constants, but for `RolledBackRestores`
under the hypothesis above and `ImplementsDocumentLock` for clients that await and clocks
that do not lapse. Only
model-checked is liveness, which TLAPS does not reach; five of the theorems are the
safety halves of such properties.

## 6. Not modelled

- *Restart of the server*: transactions are in memory and nothing is promised
  across a restart. Tasks, which are stored, do crash and restart.
- *A write that lands after its call was given up and compensated.* `BatchWrite`
  loses the answer, not the order.
- *Bridge*: reassembly of chunks, the contents of `hello`, requests sent by
  extensions (always refused), a `connect()` in flight across a
  `disconnect()` (it happens at shutdown only), heartbeats that cannot be sent.
- *Ownership*: a lock that is not a directory, invalid records, pids used again, and
  the gap inside a snapshot, which only makes the later check fail.
- *Gateway*: several users, scopes and tool profiles, the audit log; growing delays of
  the relay client's reconnections.
- *Tasks*: principals, arguments and results; every caller is authorised. The end of an
  execution, a look at the row and an update (`task-runner.ts:111-131`), is one step:
  within a process nothing comes in between, and a cancellation by another process
  there would leave the row working, with its cancellation noted, until it expires or
  the server starts again.
- *Loader*: the hot swap of its dispatcher (development only) and the content of frames.
- *The CDP bridge* is an alternative to the bridge manager with a request table like its
  own and no ownership, pairing or reconnection; *dispatcher hot swap* is for
  development. *Vendor clients* lose a rate limit when requests are concurrent, which
  `PROJECT.json` lists as a hazard.
- By far the largest part of the code, the tools, the schematic model, layout, review
  and workflow directories, is pure computation over unbounded geometry and text, or one
  bridge call and the formatting of its answer: it keeps no state between calls and
  nothing interleaves in it, so that unit tests reach what a model would. It is
  listed component by component in `PROJECT.json`.

## 7. Plan

Done: the transaction manager and its lock, batch writes, the bridge manager, listener
ownership, the local relay, the remote gateway with its client, durable tasks and the extension's
loader, each with its proofs. What would add most next:

1. Several processes that compose `BridgeManager` with `ListenerOwnership` and
   `LocalRelay` (each has the others as its environment now).
2. `BatchWrite` over a bridge that may carry a call out after it was given up.
3. Small modules: the assembly of chunks, the spacing of vendor requests.
4. Proofs: the safety halves of `LocksAreReleased` (whoever holds its lock, with no
   answer pending, is accepted by `rollback()`), `DeadLockIsReclaimed` and
   `MissedStatusIsRepaired`, and `UnpairedIsTimed` with the weakest condition under which
   it holds (`BridgeUntimed` refutes it).
