--------------------------- MODULE ListenerOwnership ---------------------------
(***************************************************************************)
(* BridgeListenerOwnership (src/src/bridge/listener-ownership.ts): how the *)
(* local server processes agree through a lock directory on which of them  *)
(* listens for the EasyEDA extension.                                      *)
(*                                                                         *)
(* The code is synchronous, but every call of the file system is a step    *)
(* that those of other processes may come between.  A snapshot (lstat of   *)
(* the directory, then reading the owner's record) is one step: whatever   *)
(* happens between the two only makes the check before a reclaim fail.     *)
(* A token stands for its process, which takes the lock once; a pid is     *)
(* never used again.                                                       *)
(***************************************************************************)
EXTENDS Integers, FiniteSets

CONSTANTS
  Procs,
  None,
  MaxTries,   \* MAX_ACQUIRE_ATTEMPTS
  MaxCrashes  \* bound: processes that crash

\* a directory: who made it, whose record it holds, who has a temporary file in
\* it, how often it has changed (its mtime), and whether that is 5 seconds ago
Dir == [by : Procs, owner : Procs \cup {None}, tmp : SUBSET Procs, rev : Nat, old : BOOLEAN]

ASSUME OwnershipAssumption ==
  /\ IsFiniteSet(Procs) /\ None \notin Procs /\ None \notin Dir
  /\ MaxTries \in Nat \ {0} /\ MaxCrashes \in Nat

VARIABLES
  lock,        \* the lock directory, or None
  at,          \* the next step of each process
  tries,       \* its acquire attempts left
  seen,        \* the snapshot it acts on
  quarantine,  \* the directory it has moved aside, or None
  alive,       \* the processes that have not crashed
  raced        \* history: two processes were reclaiming a lock at once

vars == <<lock, at, tries, seen, quarantine, alive, raced>>

TypeOK ==
  /\ lock \in Dir \cup {None} /\ quarantine \in [Procs -> Dir \cup {None}]
  /\ at \in [Procs -> {"idle", "mkdir", "write", "rename", "undo", "snapshot", "check",
                       "move", "verify", "restore", "putback", "own", "rewrite",
                       "rerename", "listen", "release", "remove", "rmdir",
                       "follow", "threw", "done"}]
  /\ tries \in [Procs -> 0..MaxTries] /\ seen \in [Procs -> Dir \cup {None}]
  /\ alive \subseteq Procs /\ raced \in BOOLEAN
  /\ Cardinality(Procs \ alive) <= MaxCrashes
  /\ \A p \in Procs : /\ at[p] \in {"check", "move"} => seen[p] # None
                      /\ at[p] \in {"verify", "restore", "putback"} => quarantine[p] # None

Init ==
  /\ lock = None /\ quarantine = [p \in Procs |-> None]
  /\ at = [p \in Procs |-> "idle"] /\ tries = [p \in Procs |-> 0]
  /\ seen = [p \in Procs |-> None]
  /\ alive = Procs /\ raced = FALSE

Goto(p, step) == at' = [at EXCEPT ![p] = step]

Changed(dir) == [dir EXCEPT !.rev = @ + 1, !.old = FALSE]

-----------------------------------------------------------------------------
(***************************************************************************)
(* acquire()                                                               *)
(***************************************************************************)

\* a process that has become a follower asks again when its owner is gone
Acquire(p) ==
  /\ at[p] \in {"idle", "follow"}
  /\ Goto(p, "mkdir") /\ tries' = [tries EXCEPT ![p] = MaxTries]
  /\ UNCHANGED <<lock, seen, quarantine, alive, raced>>

\* the end of an attempt: another, or an error after the last
Retry(p) ==
  /\ tries' = [tries EXCEPT ![p] = @ - 1]
  /\ Goto(p, IF tries[p] > 1 THEN "mkdir" ELSE "threw")

MakeLock(p) ==
  /\ at[p] = "mkdir"
  /\ IF lock = None
     THEN /\ lock' = [by |-> p, owner |-> None, tmp |-> {}, rev |-> 0, old |-> FALSE]
          /\ Goto(p, "write")
     ELSE Goto(p, "snapshot") /\ UNCHANGED lock
  /\ UNCHANGED <<tries, seen, quarantine, alive, raced>>

\* writeOwnerRecord: a temporary file in whatever directory is there ...
Write(p) ==
  /\ at[p] \in {"write", "rewrite"}
  /\ IF lock = None
     THEN Goto(p, IF at[p] = "write" THEN "undo" ELSE "release") /\ UNCHANGED lock
     ELSE /\ lock' = [Changed(lock) EXCEPT !.tmp = @ \cup {p}]
          /\ Goto(p, IF at[p] = "write" THEN "rename" ELSE "rerename")
  /\ UNCHANGED <<tries, seen, quarantine, alive, raced>>

\* ... is renamed to the owner's record, if it is there
Rename(p) ==
  /\ at[p] \in {"rename", "rerename"}
  /\ IF lock # None /\ p \in lock.tmp
     THEN /\ lock' = [Changed(lock) EXCEPT !.tmp = @ \ {p}, !.owner = p]
          /\ Goto(p, IF at[p] = "rename" THEN "own" ELSE "listen")
     ELSE Goto(p, IF at[p] = "rename" THEN "undo" ELSE "release") /\ UNCHANGED lock
  /\ UNCHANGED <<tries, seen, quarantine, alive, raced>>

\* the first record could not be written: the directory is removed, whose ever
Undo(p) ==
  /\ at[p] = "undo"
  /\ lock' = None /\ Goto(p, "threw")
  /\ UNCHANGED <<tries, seen, quarantine, alive, raced>>

Publish(p) ==   \* updateRelayPort, updatePort
  /\ at[p] = "own" /\ Goto(p, "rewrite")
  /\ UNCHANGED <<lock, tries, seen, quarantine, alive, raced>>

\* slip: a lock without a record is never taken for stale
ReadLock_NeedsRecord(p) ==
  /\ at[p] = "snapshot"
  /\ seen' = [seen EXCEPT ![p] = lock]
  /\ Goto(p, CASE lock = None -> "threw"
               [] lock # None /\ lock.owner \in alive -> "follow"
               [] lock # None /\ lock.owner = None -> "mkdir"
               [] OTHER -> "check")
  /\ UNCHANGED <<lock, tries, quarantine, alive, raced>>

ReadLock(p) ==
  /\ at[p] = "snapshot"
  /\ seen' = [seen EXCEPT ![p] = lock]
  /\ Goto(p, CASE lock = None -> "threw"
               [] lock # None /\ lock.owner \in alive -> "follow"
               [] lock # None /\ lock.owner = None /\ ~ lock.old -> "threw"
               [] OTHER -> "check")
  /\ UNCHANGED <<lock, tries, quarantine, alive, raced>>

-----------------------------------------------------------------------------
(***************************************************************************)
(* reclaimStaleLock()                                                      *)
(***************************************************************************)

\* slip: only the owner is compared
StillStale_OwnerOnly(p) == lock # None => lock.owner \notin alive

\* isStillStale: the same directory, unchanged, and the same owner
StillStale(p) ==
  /\ lock # None
  /\ <<lock.by, lock.rev>> = <<seen[p].by, seen[p].rev>>
  /\ lock.owner = seen[p].owner

Check(p) ==
  /\ at[p] = "check"
  /\ IF StillStale(p)
     THEN /\ Goto(p, "move") /\ UNCHANGED tries
          /\ raced' = (raced \/ \E q \in alive \ {p} : at[q] = "move")
     ELSE Retry(p) /\ UNCHANGED raced
  /\ UNCHANGED <<lock, seen, quarantine, alive>>

Move(p) ==
  /\ at[p] = "move"
  /\ IF lock = None THEN Retry(p) /\ UNCHANGED <<lock, quarantine>>
     ELSE /\ quarantine' = [quarantine EXCEPT ![p] = lock] /\ lock' = None
          /\ Goto(p, "verify") /\ UNCHANGED tries
  /\ UNCHANGED <<seen, alive, raced>>

\* assertMovedOwnerUnchanged: no record, or the one that was expected
MovedAsExpected(p) ==
  seen[p].owner = None \/ quarantine[p].owner \in {None, seen[p].owner}

\* slip: the directory is gone before it has been looked at
Verify_Late(p) ==
  /\ at[p] = "verify"
  /\ quarantine' = [quarantine EXCEPT ![p] = None]
  /\ IF MovedAsExpected(p) THEN Retry(p) ELSE Goto(p, "restore") /\ UNCHANGED tries
  /\ UNCHANGED <<lock, seen, alive, raced>>

Verify(p) ==
  /\ at[p] = "verify"
  /\ IF MovedAsExpected(p)
     THEN quarantine' = [quarantine EXCEPT ![p] = None] /\ Retry(p)
     ELSE Goto(p, "restore") /\ UNCHANGED <<quarantine, tries>>
  /\ UNCHANGED <<lock, seen, alive, raced>>

\* restoreQuarantine: if nothing is there, the directory is moved back
Restore(p) ==
  /\ at[p] = "restore"
  /\ Goto(p, IF lock = None THEN "putback" ELSE "threw")
  /\ UNCHANGED <<lock, tries, seen, quarantine, alive, raced>>

\* a directory may be renamed over an empty one
PutBack(p) ==
  /\ at[p] = "putback"
  /\ IF lock = None \/ (lock # None /\ lock.owner = None /\ lock.tmp = {})
     THEN lock' = quarantine[p] /\ quarantine' = [quarantine EXCEPT ![p] = None]
     ELSE UNCHANGED <<lock, quarantine>>
  /\ Goto(p, "threw")
  /\ UNCHANGED <<tries, seen, alive, raced>>

-----------------------------------------------------------------------------
(***************************************************************************)
(* release(), crashes, and time                                            *)
(***************************************************************************)

Release(p) ==
  /\ at[p] \in {"own", "listen"} /\ Goto(p, "release")
  /\ UNCHANGED <<lock, tries, seen, quarantine, alive, raced>>

ReadOwn(p) ==
  /\ at[p] = "release"
  /\ Goto(p, IF lock # None /\ lock.owner = p THEN "remove" ELSE "done")
  /\ UNCHANGED <<lock, tries, seen, quarantine, alive, raced>>

\* rmSync empties the directory first
Remove(p) ==
  /\ at[p] = "remove"
  /\ lock' = IF lock = None THEN None ELSE [Changed(lock) EXCEPT !.owner = None, !.tmp = {}]
  /\ Goto(p, "rmdir")
  /\ UNCHANGED <<tries, seen, quarantine, alive, raced>>

RemoveDir(p) ==
  /\ at[p] = "rmdir"
  /\ lock' = None /\ Goto(p, "done")
  /\ UNCHANGED <<tries, seen, quarantine, alive, raced>>

Crash(p) ==
  /\ Cardinality(Procs \ alive) < MaxCrashes
  /\ at[p] # "idle"
  /\ alive' = alive \ {p}
  /\ UNCHANGED <<lock, at, tries, seen, quarantine, raced>>

\* a directory without a record has not changed for INITIALIZATION_GRACE_MS; a
\* process that still writes its record, or removes it, takes less
Busy == {"write", "rename", "rmdir"}

Age ==
  /\ lock # None /\ lock.owner = None /\ ~ lock.old
  /\ \A p \in alive : at[p] \notin Busy
  /\ lock' = [lock EXCEPT !.old = TRUE]
  /\ UNCHANGED <<at, tries, seen, quarantine, alive, raced>>

\* what a process does once it has begun
Step(p) ==
  /\ p \in alive
  /\ \/ MakeLock(p) \/ Write(p) \/ Rename(p) \/ Undo(p) \/ Publish(p) \/ ReadLock(p)
     \/ Check(p) \/ Move(p) \/ Verify(p) \/ Restore(p) \/ PutBack(p)
     \/ ReadOwn(p) \/ Remove(p) \/ RemoveDir(p)

Next ==
  \/ Age
  \/ \E p \in alive : Acquire(p) \/ Step(p) \/ Release(p) \/ Crash(p)

Spec == Init /\ [][Next]_vars

\* Processes that run go on, time passes, and followers ask again.
FairSpec ==
  /\ Spec
  /\ WF_vars(Age)
  /\ \A p \in Procs : WF_vars(Step(p)) /\ WF_vars(p \in alive /\ at[p] = "follow" /\ Acquire(p))

-----------------------------------------------------------------------------
(***************************************************************************)
(* Properties.                                                             *)
(***************************************************************************)

Owners == {p \in alive : at[p] \in {"own", "rewrite", "rerename", "listen"}}

\* Only one process at a time owns the bridge listener (listener-ownership.ts
\* acquire, held; docs/guide/troubleshooting.md, 6).
OneOwner == Cardinality(Owners) <= 1

\* The lock directory stays the owner's: no other process's start, reclaim,
\* release or crash removes it or replaces its record, so there is one owner. The
\* exception is two processes that reclaimed one stale lock at the same time, both
\* between the check and the rename (listener-ownership.ts:252-259).
OwnerKeepsLock ==
  raced \/ \A p \in Owners : lock # None /\ lock.by = p /\ lock.owner = p

\* A lock left behind by a crash is reclaimed as long as some process follows
\* or tries (docs/TROUBLESHOOTING.md, "Dead ownership locks are reclaimed
\* automatically"), wherever in acquire() or release() the crash happened.
Orphaned == lock # None /\ lock.by \notin alive /\ lock.owner \notin alive
NobodyTries == \A p \in alive \ Owners : at[p] \in {"idle", "threw", "done"}
DeadLockIsReclaimed == Orphaned ~> (~ Orphaned \/ NobodyTries)

=============================================================================
