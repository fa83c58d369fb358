----------------------- MODULE ListenerOwnershipProofs -----------------------
(***************************************************************************)
(* Proofs about ListenerOwnership, for any number of processes and of      *)
(* crashes: without two reclaims of one stale lock at once, the directory  *)
(* stays the owner's.                                                      *)
(*                                                                         *)
(* OwnerKeepsLock is not inductive.  A process that reclaims acts on a     *)
(* snapshot, and nothing but the change count of the directory tells it    *)
(* that another process has made, left or taken a lock since.  The         *)
(* invariant says so: a directory is made by a process at most once        *)
(* (MadeOnce), a snapshot is never ahead of the directory it was taken of  *)
(* (SnapshotsAreOld), a directory that is about to be moved aside still is *)
(* a dead one (MovesAreStale), and whoever is at work on a directory of    *)
(* its own still has it (HoldersHaveLock).                                 *)
(***************************************************************************)
EXTENDS ListenerOwnership, FiniteSetTheorems, TLAPS

Steps == {"idle", "mkdir", "write", "rename", "undo", "snapshot", "check",
          "move", "verify", "restore", "putback", "own", "rewrite",
          "rerename", "listen", "release", "remove", "rmdir",
          "follow", "threw", "done"}

\* the steps of a process that has made a directory and not given it back
Holding == {"write", "rename", "own", "rewrite", "rerename", "listen", "release",
            "remove", "rmdir"}

\* the steps of a process that may have made one
Past == Holding \cup {"undo", "threw", "done"}

Typed ==
  /\ lock \in Dir \cup {None} /\ quarantine \in [Procs -> Dir \cup {None}]
  /\ at \in [Procs -> Steps] /\ seen \in [Procs -> Dir \cup {None}]
  /\ alive \subseteq Procs /\ raced \in BOOLEAN
  /\ \A p \in Procs : /\ at[p] \in {"check", "move"} => seen[p] # None
                      /\ at[p] \in {"verify", "restore", "putback"} => quarantine[p] # None

HoldersHaveLock ==
  \A p \in alive : at[p] \in Holding =>
    /\ lock # None /\ lock.by = p
    /\ at[p] \in Busy => lock.owner = None /\ lock.old = FALSE
    /\ at[p] \notin Busy => lock.owner = p
    /\ at[p] \in {"rename", "rerename"} => p \in lock.tmp

NothingIsUndone ==
  \A p \in alive : /\ at[p] \notin {"undo", "restore", "putback"}
                   /\ at[p] = "verify" => MovedAsExpected(p)

MovesAreStale ==
  /\ \A p \in alive : at[p] = "move" =>
       /\ lock # None /\ lock.owner = seen[p].owner /\ lock.owner \notin alive
       /\ lock.owner = None => lock.old # FALSE
  /\ \A p, q \in alive : at[p] = "move" /\ at[q] = "move" => p = q

MadeOnce ==
  /\ \A p \in Procs : lock # None /\ lock.by = p => at[p] \in Past
  /\ \A p, q \in Procs : seen[q] # None /\ seen[q].by = p => at[p] \in Past

SnapshotsAreOld ==
  /\ \A q \in Procs : seen[q] # None /\ lock # None /\ seen[q].by = lock.by =>
       /\ seen[q].rev <= lock.rev
       /\ seen[q].rev = lock.rev /\ lock.old = FALSE => seen[q].old = FALSE
  /\ \A q \in alive : at[q] = "check" =>
       /\ seen[q].owner \notin alive
       /\ seen[q].owner = None => seen[q].old # FALSE

Serial == /\ HoldersHaveLock /\ NothingIsUndone /\ MovesAreStale
          /\ MadeOnce /\ SnapshotsAreOld

OwnershipInv == Typed /\ (raced \/ Serial)

-----------------------------------------------------------------------------
(***************************************************************************)
(* Directories.                                                            *)
(***************************************************************************)

LEMMA DirFields ==
  ASSUME NEW d \in Dir
  PROVE  d # None /\ d.by \in Procs /\ d.owner \in Procs \cup {None} /\ d.tmp \subseteq Procs
         /\ d.rev \in Nat
BY OwnershipAssumption DEF Dir

\* What a step may make of a directory.
LEMMA DirChanges ==
  ASSUME NEW d \in Dir
  PROVE  /\ Changed(d) \in Dir /\ [d EXCEPT !.old = TRUE] \in Dir
         /\ Changed(d).by = d.by /\ Changed(d).owner = d.owner /\ Changed(d).tmp = d.tmp
         /\ Changed(d).rev = d.rev + 1 /\ Changed(d).old = FALSE
         /\ [d EXCEPT !.old = TRUE].by = d.by /\ [d EXCEPT !.old = TRUE].owner = d.owner
         /\ [d EXCEPT !.old = TRUE].tmp = d.tmp /\ [d EXCEPT !.old = TRUE].rev = d.rev
         /\ [d EXCEPT !.old = TRUE].old # FALSE
<1> DEFINE B == BOOLEAN
           F == FALSE
           W == TRUE
           D == [by : Procs, owner : Procs \cup {None}, tmp : SUBSET Procs, rev : Nat, old : B]
           n == d.rev + 1
           c == [d EXCEPT !.rev = n, !.old = F]
           a == [d EXCEPT !.old = W]
<1>1. d \in D /\ F \in B /\ W \in B /\ W # F
  BY DEF Dir
<1> HIDE DEF B, F, W
<1>n. n \in Nat
  BY <1>1
<1> HIDE DEF n
<1>c. c \in D /\ c.by = d.by /\ c.owner = d.owner /\ c.tmp = d.tmp /\ c.rev = n /\ c.old = F
  BY <1>1, <1>n
<1>a. a \in D /\ a.by = d.by /\ a.owner = d.owner /\ a.tmp = d.tmp /\ a.rev = d.rev /\ a.old = W
  BY <1>1
<1> HIDE DEF c, a
<1>2. /\ c \in D /\ a \in D
      /\ c.by = d.by /\ c.owner = d.owner /\ c.tmp = d.tmp /\ c.rev = d.rev + 1 /\ c.old = F
      /\ a.by = d.by /\ a.owner = d.owner /\ a.tmp = d.tmp /\ a.rev = d.rev /\ a.old = W
  BY <1>a, <1>c DEF n
<1>3. Changed(d) = c /\ [d EXCEPT !.old = TRUE] = a
  BY DEF Changed, c, a, F, W, n
<1>4. D = Dir
  BY DEF Dir, B
<1> HIDE DEF D
<1> QED BY <1>1, <1>2, <1>3, <1>4, Zenon DEF F

LEMMA NewDir ==
  ASSUME NEW p \in Procs
  PROVE  LET d == [by |-> p, owner |-> None, tmp |-> {}, rev |-> 0, old |-> FALSE]
         IN  d \in Dir /\ d.by = p /\ d.owner = None /\ d.tmp = {} /\ d.rev = 0 /\ d.old = FALSE
BY DEF Dir

\* What one step of a holder makes of the lock: its directory, with one change more.
Touched(d, o) ==
  /\ lock' \in Dir /\ lock'.by = d.by /\ lock'.owner = o
  /\ lock'.rev = d.rev + 1 /\ lock'.old = FALSE

LEMMA WriteTouches ==
  ASSUME Typed, NEW p \in Procs, Write(p), lock # None
  PROVE  Touched(lock, lock.owner) /\ p \in lock'.tmp
<1>1. lock \in Dir
  BY DEF Typed
<1> DEFINE c == Changed(lock)
           T == lock.tmp \cup {p}
<1>2. c \in Dir /\ c.by = lock.by /\ c.owner = lock.owner /\ c.tmp = lock.tmp
      /\ c.rev = lock.rev + 1 /\ c.old = FALSE /\ T \in SUBSET Procs
  BY <1>1, DirChanges, DirFields
<1>3. lock' = [c EXCEPT !.tmp = c.tmp \cup {p}]
  BY DEF Write
<1> HIDE DEF c
<1>4. lock' = [c EXCEPT !.tmp = T]
  BY <1>2, <1>3
<1> HIDE DEF T
<1>5. /\ lock' \in Dir /\ lock'.by = c.by /\ lock'.owner = c.owner /\ lock'.tmp = T
      /\ lock'.rev = c.rev /\ lock'.old = c.old
  <2> DEFINE B == BOOLEAN
             D == [by : Procs, owner : Procs \cup {None}, tmp : SUBSET Procs, rev : Nat, old : B]
  <2>1. D = Dir
    BY DEF Dir
  <2> HIDE DEF B
  <2>2. c \in D
    BY <1>2, <2>1
  <2>3. /\ lock' \in D /\ lock'.by = c.by /\ lock'.owner = c.owner /\ lock'.tmp = T
        /\ lock'.rev = c.rev /\ lock'.old = c.old
    BY <1>2, <1>4, <2>2
  <2> HIDE DEF D
  <2> QED BY <2>1, <2>3
<1> QED BY <1>2, <1>5 DEF Touched, T

LEMMA RenameTouches ==
  ASSUME Typed, NEW p \in Procs, Rename(p), lock # None, p \in lock.tmp
  PROVE  Touched(lock, p)
<1>1. lock \in Dir
  BY DEF Typed
<1> DEFINE c == Changed(lock)
           T == lock.tmp \ {p}
<1>2. c \in Dir /\ c.by = lock.by /\ c.tmp = lock.tmp
      /\ c.rev = lock.rev + 1 /\ c.old = FALSE /\ T \in SUBSET Procs
  BY <1>1, DirChanges, DirFields
<1>3. lock' = [c EXCEPT !.tmp = c.tmp \ {p}, !.owner = p]
  BY DEF Rename
<1> HIDE DEF c
<1>4. lock' = [c EXCEPT !.tmp = T, !.owner = p]
  BY <1>2, <1>3
<1> HIDE DEF T
<1>5. /\ lock' \in Dir /\ lock'.by = c.by /\ lock'.owner = p
      /\ lock'.rev = c.rev /\ lock'.old = c.old
  <2> DEFINE B == BOOLEAN
             D == [by : Procs, owner : Procs \cup {None}, tmp : SUBSET Procs, rev : Nat, old : B]
  <2>1. D = Dir
    BY DEF Dir
  <2> HIDE DEF B
  <2>2. c \in D
    BY <1>2, <2>1
  <2>3. /\ lock' \in D /\ lock'.by = c.by /\ lock'.owner = p
        /\ lock'.rev = c.rev /\ lock'.old = c.old
    BY <1>2, <1>4, <2>2
  <2> HIDE DEF D
  <2> QED BY <2>1, <2>3
<1> QED BY <1>2, <1>5 DEF Touched

LEMMA RemoveTouches ==
  ASSUME Typed, NEW p \in Procs, Remove(p), lock # None
  PROVE  Touched(lock, None)
<1>1. lock \in Dir
  BY DEF Typed
<1> DEFINE c == Changed(lock)
<1>2. c \in Dir /\ c.by = lock.by /\ c.rev = lock.rev + 1 /\ c.old = FALSE
  BY <1>1, DirChanges
<1>3. lock' = [c EXCEPT !.tmp = {}, !.owner = None]
  BY DEF Remove
<1> HIDE DEF c
<1>5. /\ lock' \in Dir /\ lock'.by = c.by /\ lock'.owner = None
      /\ lock'.rev = c.rev /\ lock'.old = c.old
  <2> DEFINE B == BOOLEAN
             D == [by : Procs, owner : Procs \cup {None}, tmp : SUBSET Procs, rev : Nat, old : B]
  <2>1. D = Dir
    BY DEF Dir
  <2> HIDE DEF B
  <2>2. c \in D
    BY <1>2, <2>1
  <2>3. /\ lock' \in D /\ lock'.by = c.by /\ lock'.owner = None
        /\ lock'.rev = c.rev /\ lock'.old = c.old
    BY <1>2, <1>3, <2>2
  <2> HIDE DEF D
  <2> QED BY <2>1, <2>3
<1> QED BY <1>2, <1>5 DEF Touched

LEMMA AgeAges ==
  ASSUME Typed, Age
  PROVE  lock \in Dir /\ lock' \in Dir /\ lock'.by = lock.by /\ lock'.owner = lock.owner
         /\ lock'.tmp = lock.tmp /\ lock'.rev = lock.rev /\ lock'.old # FALSE
<1> DEFINE a == [lock EXCEPT !.old = TRUE]
<1>1. lock \in Dir /\ lock' = a
  BY DEF Typed, Age
<1>2. a \in Dir /\ a.by = lock.by /\ a.owner = lock.owner /\ a.tmp = lock.tmp
      /\ a.rev = lock.rev /\ a.old # FALSE
  BY <1>1, DirChanges, Zenon
<1> HIDE DEF a
<1> QED BY <1>1, <1>2

-----------------------------------------------------------------------------
LEMMA NextTyped == ASSUME Typed, [Next]_vars PROVE Typed'
<1> USE DEF Steps
<1>1. CASE Age
  BY <1>1, AgeAges DEF Typed, Age
<1>2. ASSUME NEW p \in alive, Acquire(p) \/ Publish(p) \/ Release(p) \/ ReadOwn(p)
      PROVE  Typed'
  <2>1. CASE Acquire(p)
    BY <2>1 DEF Typed, Acquire, Goto
  <2>2. CASE Publish(p) \/ Release(p)
    BY <2>2 DEF Typed, Publish, Release, Goto
  <2>3. CASE ReadOwn(p)
    <3>1. at' \in {[at EXCEPT ![p] = "remove"], [at EXCEPT ![p] = "done"]}
      BY <2>3 DEF ReadOwn, Goto
    <3> QED BY <2>3, <3>1 DEF Typed, ReadOwn
  <2> QED BY <1>2, <2>1, <2>2, <2>3
<1>12. ASSUME NEW p \in alive, Restore(p) PROVE Typed'
  BY <1>12 DEF Typed, Restore, Goto
<1>13. ASSUME NEW p \in alive, Crash(p) PROVE Typed'
  BY <1>13 DEF Typed, Crash
<1>3. ASSUME NEW p \in alive, MakeLock(p) PROVE Typed'
  <2>1. lock' \in Dir \cup {None}
    BY <1>3, NewDir DEF Typed, MakeLock
  <2> QED BY <1>3, <2>1 DEF Typed, MakeLock, Goto
<1>4. ASSUME NEW p \in alive, Write(p) PROVE Typed'
  <2>1. lock' \in Dir \cup {None}
    BY <1>4, WriteTouches DEF Typed, Write, Touched
  <2> QED BY <1>4, <2>1 DEF Typed, Write, Goto
<1>5. ASSUME NEW p \in alive, Rename(p) PROVE Typed'
  <2>1. lock' \in Dir \cup {None}
    BY <1>5, RenameTouches DEF Typed, Rename, Touched
  <2> QED BY <1>5, <2>1 DEF Typed, Rename, Goto
<1>6. ASSUME NEW p \in alive, Remove(p) PROVE Typed'
  <2>1. lock' \in Dir \cup {None}
    BY <1>6, RemoveTouches DEF Typed, Remove, Touched
  <2> QED BY <1>6, <2>1 DEF Typed, Remove, Goto
<1>7. ASSUME NEW p \in alive, Undo(p) \/ RemoveDir(p) PROVE Typed'
  BY <1>7 DEF Typed, Undo, RemoveDir, Goto
<1>8. ASSUME NEW p \in alive, ReadLock(p) PROVE Typed'
  <2>1. at' = [at EXCEPT ![p] = at'[p]] /\ at'[p] \in {"threw", "follow", "check"}
        /\ (at'[p] = "check" => lock # None)
    <3>1. CASE lock = None
      BY <1>8, <3>1 DEF Typed, ReadLock, Goto
    <3>2. CASE lock # None
      <4>1. at' \in {[at EXCEPT ![p] = "follow"], [at EXCEPT ![p] = "threw"], [at EXCEPT ![p] = "check"]}
        BY <1>8, <3>2 DEF ReadLock, Goto
      <4> QED BY <3>2, <4>1 DEF Typed
    <3> QED BY <3>1, <3>2
  <2> QED BY <1>8, <2>1 DEF Typed, ReadLock
<1>9. ASSUME NEW p \in alive, Check(p) \/ Move(p) \/ Verify(p) PROVE Typed'
  BY <1>9 DEF Typed, Check, Move, Verify, Retry, Goto
<1>10. ASSUME NEW p \in alive, PutBack(p) PROVE Typed'
  BY <1>10 DEF Typed, PutBack, Goto
<1>11. CASE UNCHANGED vars
  BY <1>11 DEF Typed, vars
<1> QED
  BY <1>1, <1>2, <1>3, <1>4, <1>5, <1>6, <1>7, <1>8, <1>9, <1>10, <1>11,
     <1>12, <1>13 DEF Next, Step

-----------------------------------------------------------------------------
(***************************************************************************)
(* One process at a time.                                                  *)
(***************************************************************************)

\* A holder leaves nothing to reclaim, so nobody moves the lock aside meanwhile.
LEMMA HolderMeansNoMove ==
  ASSUME Typed, Serial, NEW p \in alive, at[p] \in Holding
  PROVE  \A q \in alive : at[q] # "move"
BY OwnershipAssumption DEF Typed, Serial, HoldersHaveLock, MovesAreStale

\* A step that changes nothing but where p is, and perhaps what p has moved aside.
LEMMA GoesOn ==
  ASSUME Typed, Serial, NEW p \in alive, NEW x \in Steps,
         at' = [at EXCEPT ![p] = x],
         lock' = lock, seen' = seen, alive' = alive,
         \A q \in Procs \ {p} : quarantine'[q] = quarantine[q],
         x \notin {"undo", "restore", "putback", "check", "move", "verify", "rename", "rerename"},
         x \in Holding => at[p] \in Holding /\ (x \in Busy <=> at[p] \in Busy),
         at[p] \in Past => x \in Past
  PROVE  Serial'
<1>1. p \in Procs /\ at'[p] = x /\ \A q \in Procs \ {p} : at'[q] = at[q]
  BY DEF Typed
<1>0. alive \subseteq Procs
  BY DEF Typed
<1>2. HoldersHaveLock'
  BY <1>0, <1>1 DEF Serial, HoldersHaveLock
<1>3. NothingIsUndone'
  BY <1>0, <1>1 DEF Serial, NothingIsUndone, MovedAsExpected
<1>4. MovesAreStale'
  <2>1. \A q \in alive : at'[q] = "move" => at[q] = "move"
    BY <1>0, <1>1
  <2> QED BY <2>1 DEF Serial, MovesAreStale
<1>5. MadeOnce'
  BY <1>1 DEF Serial, MadeOnce
<1>6. SnapshotsAreOld'
  BY <1>0, <1>1 DEF Serial, SnapshotsAreOld
<1> QED BY <1>2, <1>3, <1>4, <1>5, <1>6 DEF Serial

\* A step in which the holder p changes its lock.
LEMMA HolderWrites ==
  ASSUME Typed, Serial, NEW p \in alive, at[p] \in Holding, NEW x \in Holding,
         at' = [at EXCEPT ![p] = x], seen' = seen, alive' = alive, quarantine' = quarantine,
         Touched(lock, IF x \in Busy THEN None ELSE p),
         x \in {"rename", "rerename"} => p \in lock'.tmp
  PROVE  Serial'
<1>0. alive \subseteq Procs /\ x \in Past /\ x \notin {"undo", "restore", "putback", "check", "move", "verify"}
  BY DEF Typed, Past, Holding
<1>1. p \in Procs /\ at'[p] = x /\ \A q \in Procs \ {p} : at'[q] = at[q]
  BY DEF Typed
<1>2. lock # None /\ lock.by = p /\ lock \in Dir
  BY DEF Serial, HoldersHaveLock, Typed
<1>3. lock' # None /\ lock' \in Dir /\ lock'.by = p /\ lock'.old = FALSE /\ lock'.rev = lock.rev + 1
      /\ lock'.owner = IF x \in Busy THEN None ELSE p
  BY <1>2, OwnershipAssumption DEF Touched
<1>4. HoldersHaveLock'
  <2>1. \A q \in alive \ {p} : at'[q] \notin Holding
    BY <1>0, <1>1, <1>2 DEF Serial, HoldersHaveLock
  <2> QED BY <1>1, <1>3, <2>1 DEF HoldersHaveLock
<1>5. NothingIsUndone'
  BY <1>0, <1>1 DEF Serial, NothingIsUndone, MovedAsExpected
<1>6. MovesAreStale'
  BY <1>0, <1>1, HolderMeansNoMove DEF MovesAreStale
<1>7. MadeOnce'
  BY <1>0, <1>1, <1>2, <1>3 DEF Serial, MadeOnce
<1>8. SnapshotsAreOld'
  <2>1. ASSUME NEW q \in Procs, seen[q] # None, seen[q].by = p
        PROVE  seen[q].rev \in Nat /\ seen[q].rev <= lock.rev /\ lock.rev \in Nat
    <3>1. seen[q] \in Dir
      BY <2>1 DEF Typed
    <3> QED BY <1>2, <2>1, <3>1, DirFields DEF Serial, SnapshotsAreOld
  <2>2. \A q \in alive : at'[q] = "check" => at[q] = "check"
    BY <1>0, <1>1
  <2>3. ASSUME NEW q \in Procs, seen[q] # None, seen[q].by = p
        PROVE  seen[q].rev <= lock'.rev /\ seen[q].rev # lock'.rev
    BY <1>3, <2>1, <2>3
  <2>4. \A q \in alive : at[q] = "check" =>
          /\ seen[q].owner \notin alive
          /\ seen[q].owner = None => seen[q].old # FALSE
    BY DEF Serial, SnapshotsAreOld
  <2> QED BY <1>3, <2>2, <2>3, <2>4 DEF SnapshotsAreOld
<1> QED BY <1>4, <1>5, <1>6, <1>7, <1>8 DEF Serial

LEMMA HolderSteps ==
  ASSUME Typed, Serial, NEW p \in alive, Write(p) \/ Rename(p) \/ Remove(p)
  PROVE  Serial'
<1>0. p \in Procs
  BY DEF Typed
<1>1. CASE Write(p)
  <2>1. at[p] \in {"write", "rewrite"} /\ at[p] \in Holding
    BY <1>1 DEF Write, Holding
  <2>2. lock # None /\ lock.owner = IF at[p] = "write" THEN None ELSE p
    BY <2>1 DEF Serial, HoldersHaveLock, Busy
  <2>3. Touched(lock, lock.owner) /\ p \in lock'.tmp
    BY <1>0, <1>1, <2>2, WriteTouches
  <2>4. CASE at[p] = "write"
    <3>1. at' = [at EXCEPT ![p] = "rename"] /\ "rename" \in Holding /\ "rename" \in Busy
      BY <1>1, <2>2, <2>4 DEF Write, Goto, Holding, Busy
    <3>2. seen' = seen /\ alive' = alive /\ quarantine' = quarantine
      BY <1>1 DEF Write
    <3> QED BY <2>1, <2>2, <2>3, <2>4, <3>1, <3>2, HolderWrites
  <2>5. CASE at[p] = "rewrite"
    <3>1. at' = [at EXCEPT ![p] = "rerename"] /\ "rerename" \in Holding /\ "rerename" \notin Busy
      BY <1>1, <2>2, <2>5 DEF Write, Goto, Holding, Busy
    <3>2. seen' = seen /\ alive' = alive /\ quarantine' = quarantine
      BY <1>1 DEF Write
    <3> QED BY <2>1, <2>2, <2>3, <2>5, <3>1, <3>2, HolderWrites
  <2> QED BY <2>1, <2>4, <2>5
<1>2. CASE Rename(p)
  <2>1. at[p] \in {"rename", "rerename"} /\ at[p] \in Holding
    BY <1>2 DEF Rename, Holding
  <2>2. lock # None /\ p \in lock.tmp
    BY <2>1 DEF Serial, HoldersHaveLock
  <2>3. Touched(lock, p)
    BY <1>0, <1>2, <2>2, RenameTouches
  <2>4. PICK x \in {"own", "listen"} : at' = [at EXCEPT ![p] = x]
    BY <1>2, <2>2 DEF Rename, Goto
  <2>5. x \in Holding /\ x \notin Busy /\ x \notin {"rename", "rerename"}
    BY DEF Holding, Busy
  <2>6. seen' = seen /\ alive' = alive /\ quarantine' = quarantine
    BY <1>2 DEF Rename
  <2> QED BY <2>1, <2>3, <2>4, <2>5, <2>6, HolderWrites
<1>3. CASE Remove(p)
  <2>1. at[p] = "remove" /\ at[p] \in Holding
    BY <1>3 DEF Remove, Holding
  <2>2. lock # None
    BY <2>1 DEF Serial, HoldersHaveLock
  <2>3. Touched(lock, None)
    BY <1>0, <1>3, <2>2, RemoveTouches
  <2>4. at' = [at EXCEPT ![p] = "rmdir"] /\ "rmdir" \in Holding /\ "rmdir" \in Busy
        /\ "rmdir" \notin {"rename", "rerename"}
    BY <1>3 DEF Remove, Goto, Holding, Busy
  <2>6. seen' = seen /\ alive' = alive /\ quarantine' = quarantine
    BY <1>3 DEF Remove
  <2> QED BY <2>1, <2>3, <2>4, <2>6, HolderWrites
<1> QED BY <1>1, <1>2, <1>3

\* p makes the directory, when there is none.
LEMMA MakeLockKeeps ==
  ASSUME Typed, Serial, NEW p \in alive, MakeLock(p)
  PROVE  Serial'
<1>0. alive \subseteq Procs /\ p \in Procs
  BY DEF Typed
<1>1. CASE lock = None
  <2>1. at'[p] = "write" /\ \A q \in Procs \ {p} : at'[q] = at[q]
    BY <1>0, <1>1 DEF MakeLock, Goto, Typed
  <2>2. lock' \in Dir /\ lock' # None /\ lock'.by = p /\ lock'.owner = None /\ lock'.old = FALSE
    BY <1>0, <1>1, NewDir, DirFields DEF MakeLock
  <2>3. seen' = seen /\ alive' = alive /\ quarantine' = quarantine
    BY DEF MakeLock
  <2>4. at[p] \notin Past
    BY DEF MakeLock, Past, Holding
  <2>5. HoldersHaveLock'
    <3>1. \A q \in alive \ {p} : at'[q] \notin Holding
      BY <1>0, <1>1, <2>1 DEF Serial, HoldersHaveLock
    <3> QED BY <2>1, <2>2, <2>3, <3>1 DEF HoldersHaveLock, Busy
  <2>6. NothingIsUndone'
    BY <1>0, <2>1, <2>3 DEF Serial, NothingIsUndone, MovedAsExpected
  <2>7. MovesAreStale'
    <3>1. \A q \in alive : at'[q] # "move"
      BY <1>0, <1>1, <2>1 DEF Serial, MovesAreStale
    <3> QED BY <2>3, <3>1 DEF MovesAreStale
  <2>8. MadeOnce'
    BY <1>0, <2>1, <2>2, <2>3 DEF Serial, MadeOnce, Past, Holding
  <2>9. SnapshotsAreOld'
    <3>1. \A q \in Procs : ~ (seen[q] # None /\ seen[q].by = p)
      BY <1>0, <2>4 DEF Serial, MadeOnce
    <3>2. \A q \in alive : at'[q] = "check" => at[q] = "check"
      BY <1>0, <2>1
    <3> QED BY <2>2, <2>3, <3>1, <3>2 DEF Serial, SnapshotsAreOld
  <2> QED BY <2>5, <2>6, <2>7, <2>8, <2>9 DEF Serial
<1>2. CASE lock # None
  <2>1. at' = [at EXCEPT ![p] = "snapshot"] /\ at[p] = "mkdir"
    BY <1>2 DEF MakeLock, Goto
  <2>2. /\ lock' = lock /\ seen' = seen /\ alive' = alive
        /\ \A q \in Procs \ {p} : quarantine'[q] = quarantine[q]
    BY <1>2 DEF MakeLock
  <2>3. "snapshot" \in Steps /\ "snapshot" \notin Holding /\ at[p] \notin Past
    BY <2>1 DEF Steps, Holding, Past
  <2> QED BY <2>1, <2>2, <2>3, GoesOn
<1> QED BY <1>1, <1>2

\* p takes a snapshot: a lock it wants to reclaim is a dead one.
LEMMA ReadLockKeeps ==
  ASSUME Typed, Serial, NEW p \in alive, ReadLock(p)
  PROVE  Serial'
<1>0. alive \subseteq Procs /\ p \in Procs
  BY DEF Typed
<1>1. /\ lock' = lock /\ alive' = alive /\ quarantine' = quarantine
      /\ seen'[p] = lock /\ \A q \in Procs \ {p} : seen'[q] = seen[q]
  BY <1>0 DEF ReadLock, Typed
<1>2. PICK x \in {"threw", "follow", "check"} :
        /\ at' = [at EXCEPT ![p] = x]
        /\ x = "check" => /\ lock # None /\ lock.owner \notin alive
                          /\ lock.owner = None => lock.old # FALSE
  <2>1. CASE lock = None
    <3>1. at' = [at EXCEPT ![p] = "threw"]
      BY <2>1, Zenon DEF ReadLock, Goto
    <3> QED BY <3>1
  <2>2. CASE lock # None /\ lock.owner \in alive
    <3> DEFINE step == CASE lock = None -> "threw"
                         [] lock # None /\ lock.owner \in alive -> "follow"
                         [] lock # None /\ lock.owner = None /\ ~ lock.old -> "threw"
                         [] OTHER -> "check"
    <3>1. at' = [at EXCEPT ![p] = step]
      BY Zenon DEF ReadLock, Goto
    <3>2. lock.owner # None
      BY <1>0, <2>2, OwnershipAssumption
    <3>3. step = "follow"
      BY <2>2, <3>2
    <3> HIDE DEF step
    <3> QED BY <3>1, <3>3
  <2>3. CASE lock # None /\ lock.owner \notin alive /\ lock.owner = None /\ ~ lock.old
    <3>1. at' = [at EXCEPT ![p] = "threw"]
      BY <2>3 DEF ReadLock, Goto
    <3> QED BY <3>1
  <2>4. CASE lock # None /\ lock.owner \notin alive /\ ~ (lock.owner = None /\ ~ lock.old)
    <3>1. at' = [at EXCEPT ![p] = "check"]
      BY <2>4 DEF ReadLock, Goto
    <3>2. lock.owner = None => lock.old # FALSE
      BY <2>4
    <3> QED BY <2>4, <3>1, <3>2
  <2> QED BY <2>1, <2>2, <2>3, <2>4
<1>3. at'[p] = x /\ \A q \in Procs \ {p} : at'[q] = at[q]
  BY <1>0, <1>2 DEF Typed
<1>4. at[p] = "snapshot"
  BY DEF ReadLock
<1>5. HoldersHaveLock'
  BY <1>0, <1>1, <1>2, <1>3 DEF Serial, HoldersHaveLock, Holding
<1>6. NothingIsUndone'
  BY <1>0, <1>1, <1>2, <1>3 DEF Serial, NothingIsUndone, MovedAsExpected
<1>7. MovesAreStale'
  <2>1. \A q \in alive : at'[q] = "move" => at[q] = "move" /\ q # p
    BY <1>0, <1>2, <1>3
  <2> QED BY <1>0, <1>1, <2>1 DEF Serial, MovesAreStale
<1>8. MadeOnce'
  BY <1>0, <1>1, <1>2, <1>3, <1>4 DEF Serial, MadeOnce, Past, Holding
<1>9. SnapshotsAreOld'
  <2>1. lock # None => lock.rev \in Nat
    BY DirFields DEF Typed
  <2>2. ASSUME NEW q \in Procs, seen'[q] # None, lock # None, seen'[q].by = lock.by
        PROVE  /\ seen'[q].rev <= lock.rev
               /\ seen'[q].rev = lock.rev /\ lock.old = FALSE => seen'[q].old = FALSE
    <3>1. CASE q = p
      BY <1>1, <2>1, <2>2, <3>1
    <3>2. CASE q # p
      BY <1>1, <2>2, <3>2 DEF Serial, SnapshotsAreOld
    <3> QED BY <3>1, <3>2
  <2>3. ASSUME NEW q \in alive, at'[q] = "check"
        PROVE  /\ seen'[q].owner \notin alive
               /\ seen'[q].owner = None => seen'[q].old # FALSE
    <3>1. CASE q = p
      BY <1>1, <1>2, <1>3, <2>3, <3>1
    <3>2. CASE q # p
      BY <1>0, <1>1, <1>3, <2>3, <3>2 DEF Serial, SnapshotsAreOld
    <3> QED BY <3>1, <3>2
  <2> QED BY <1>1, <2>2, <2>3 DEF SnapshotsAreOld
<1> QED BY <1>5, <1>6, <1>7, <1>8, <1>9 DEF Serial

-----------------------------------------------------------------------------
(***************************************************************************)
(* Reclaiming.                                                             *)
(***************************************************************************)

\* The end of an attempt.
LEMMA RetryKeeps ==
  ASSUME Typed, Serial, NEW p \in alive, Retry(p), at[p] \in {"check", "move", "verify"},
         lock' = lock, seen' = seen, alive' = alive,
         \A q \in Procs \ {p} : quarantine'[q] = quarantine[q]
  PROVE  Serial'
<1>1. PICK x \in {"mkdir", "threw"} : at' = [at EXCEPT ![p] = x]
  BY DEF Retry, Goto
<1>2. /\ x \in Steps /\ x \notin Holding /\ at[p] \notin Past
      /\ x \notin {"undo", "restore", "putback", "check", "move", "verify", "rename", "rerename"}
  BY <1>1 DEF Steps, Holding, Past
<1> QED BY <1>1, <1>2, GoesOn

\* A directory that is the one of a snapshot still is a dead one.
LEMMA CheckKeeps ==
  ASSUME Typed, Serial, NEW p \in alive, Check(p), raced' = FALSE
  PROVE  Serial'
<1>0. alive \subseteq Procs /\ p \in Procs /\ at[p] = "check"
  BY DEF Typed, Check
<1>1. lock' = lock /\ seen' = seen /\ alive' = alive /\ quarantine' = quarantine
  BY DEF Check
<1>2. CASE ~ StillStale(p)
  <2>1. Retry(p)
    BY <1>2 DEF Check
  <2> QED BY <1>0, <1>1, <2>1, RetryKeeps
<1>3. CASE StillStale(p)
  <2>1. at'[p] = "move" /\ \A q \in Procs \ {p} : at'[q] = at[q]
    BY <1>0, <1>3 DEF Check, Goto, Typed
  <2>2. \A q \in alive \ {p} : at[q] # "move"
    BY <1>3 DEF Check
  <2>3. /\ lock # None /\ seen[p] # None /\ lock.owner = seen[p].owner
        /\ lock.by = seen[p].by /\ lock.rev = seen[p].rev
    BY <1>0, <1>3 DEF StillStale, Typed
  <2>4. lock.owner \notin alive /\ (lock.owner = None => lock.old # FALSE)
    BY <1>0, <2>3 DEF Serial, SnapshotsAreOld
  <2>5. HoldersHaveLock'
    BY <1>0, <1>1, <2>1 DEF Serial, HoldersHaveLock, Holding
  <2>6. NothingIsUndone'
    BY <1>0, <1>1, <2>1 DEF Serial, NothingIsUndone, MovedAsExpected
  <2>7. MovesAreStale'
    <3>1. \A q \in alive : at'[q] = "move" => q = p
      BY <1>0, <2>1, <2>2
    <3> QED BY <1>1, <2>3, <2>4, <3>1 DEF MovesAreStale
  <2>8. MadeOnce'
    BY <1>0, <1>1, <2>1 DEF Serial, MadeOnce, Past, Holding
  <2>9. SnapshotsAreOld'
    <3>1. \A q \in alive : at'[q] = "check" => at[q] = "check"
      BY <1>0, <2>1
    <3> QED BY <1>1, <3>1 DEF Serial, SnapshotsAreOld
  <2> QED BY <2>5, <2>6, <2>7, <2>8, <2>9 DEF Serial
<1> QED BY <1>2, <1>3

\* p moves the directory aside: nobody else is at it.
LEMMA MoveKeeps ==
  ASSUME Typed, Serial, NEW p \in alive, Move(p)
  PROVE  Serial'
<1>0. alive \subseteq Procs /\ p \in Procs /\ at[p] = "move"
  BY DEF Typed, Move
<1>1. lock # None /\ lock.owner = seen[p].owner
  BY <1>0 DEF Serial, MovesAreStale
<1>2. /\ lock' = None /\ seen' = seen /\ alive' = alive
      /\ quarantine'[p] = lock /\ \A q \in Procs \ {p} : quarantine'[q] = quarantine[q]
  BY <1>0, <1>1 DEF Move, Typed
<1>3. at'[p] = "verify" /\ \A q \in Procs \ {p} : at'[q] = at[q]
  BY <1>0, <1>1 DEF Move, Goto, Typed
<1>4. HoldersHaveLock'
  <2>1. \A q \in alive : at[q] \notin Holding
    BY <1>0, HolderMeansNoMove
  <2> QED BY <1>0, <1>2, <1>3, <2>1 DEF HoldersHaveLock, Holding
<1>5. NothingIsUndone'
  BY <1>0, <1>1, <1>2, <1>3 DEF Serial, NothingIsUndone, MovedAsExpected
<1>6. MovesAreStale'
  <2>1. \A q \in alive : at'[q] # "move"
    BY <1>0, <1>3 DEF Serial, MovesAreStale
  <2> QED BY <1>2, <2>1 DEF MovesAreStale
<1>7. MadeOnce'
  BY <1>0, <1>2, <1>3 DEF Serial, MadeOnce, Past, Holding
<1>8. SnapshotsAreOld'
  <2>1. \A q \in alive : at'[q] = "check" => at[q] = "check"
    BY <1>0, <1>3
  <2> QED BY <1>2, <2>1 DEF Serial, SnapshotsAreOld
<1> QED BY <1>4, <1>5, <1>6, <1>7, <1>8 DEF Serial

LEMMA VerifyKeeps ==
  ASSUME Typed, Serial, NEW p \in alive, Verify(p)
  PROVE  Serial'
<1>1. MovedAsExpected(p) /\ at[p] = "verify"
  BY DEF Verify, Serial, NothingIsUndone
<1>2. /\ Retry(p) /\ lock' = lock /\ seen' = seen /\ alive' = alive
      /\ \A q \in Procs \ {p} : quarantine'[q] = quarantine[q]
  BY <1>1 DEF Verify, Typed
<1> QED BY <1>1, <1>2, RetryKeeps

-----------------------------------------------------------------------------
(***************************************************************************)
(* Release, crashes and time.                                              *)
(***************************************************************************)

\* p, at its end, takes its directory away.
LEMMA RemoveDirKeeps ==
  ASSUME Typed, Serial, NEW p \in alive, RemoveDir(p)
  PROVE  Serial'
<1>0. alive \subseteq Procs /\ p \in Procs /\ at[p] = "rmdir" /\ at[p] \in Holding
  BY DEF Typed, RemoveDir, Holding
<1>1. lock' = None /\ seen' = seen /\ alive' = alive /\ quarantine' = quarantine
  BY DEF RemoveDir
<1>2. at'[p] = "done" /\ \A q \in Procs \ {p} : at'[q] = at[q]
  BY <1>0 DEF RemoveDir, Goto, Typed
<1>3. lock.by = p
  BY <1>0 DEF Serial, HoldersHaveLock
<1>4. HoldersHaveLock'
  <2>1. \A q \in alive \ {p} : at[q] \notin Holding
    BY <1>3 DEF Serial, HoldersHaveLock
  <2> QED BY <1>0, <1>1, <1>2, <2>1 DEF HoldersHaveLock, Holding
<1>5. NothingIsUndone'
  BY <1>0, <1>1, <1>2 DEF Serial, NothingIsUndone, MovedAsExpected
<1>6. MovesAreStale'
  <2>1. \A q \in alive : at'[q] # "move"
    BY <1>0, <1>2, HolderMeansNoMove
  <2> QED BY <1>1, <2>1 DEF MovesAreStale
<1>7. MadeOnce'
  BY <1>0, <1>1, <1>2 DEF Serial, MadeOnce, Past, Holding
<1>8. SnapshotsAreOld'
  <2>1. \A q \in alive : at'[q] = "check" => at[q] = "check"
    BY <1>0, <1>2
  <2> QED BY <1>1, <2>1 DEF Serial, SnapshotsAreOld
<1> QED BY <1>4, <1>5, <1>6, <1>7, <1>8 DEF Serial

\* Time makes a directory without a record old, and nobody is at work on one.
LEMMA AgeKeeps ==
  ASSUME Typed, Serial, Age
  PROVE  Serial'
<1>0. /\ alive \subseteq Procs /\ at' = at /\ seen' = seen /\ alive' = alive
      /\ quarantine' = quarantine
  BY DEF Typed, Age
<1>1. lock \in Dir /\ lock' \in Dir /\ lock'.by = lock.by /\ lock'.owner = lock.owner
      /\ lock'.tmp = lock.tmp /\ lock'.rev = lock.rev /\ lock'.old # FALSE
  BY AgeAges
<1>2. lock # None /\ lock' # None /\ lock.owner = None
  BY <1>1, DirFields DEF Age
<1>3. HoldersHaveLock'
  <2>1. \A q \in alive : at[q] \notin Holding
    BY <1>0, <1>2, OwnershipAssumption DEF Age, Serial, HoldersHaveLock
  <2> QED BY <1>0, <2>1 DEF HoldersHaveLock
<1>4. NothingIsUndone'
  BY <1>0 DEF Serial, NothingIsUndone, MovedAsExpected
<1>5. MovesAreStale'
  BY <1>0, <1>1, <1>2 DEF Serial, MovesAreStale
<1>6. MadeOnce'
  BY <1>0, <1>1, <1>2 DEF Serial, MadeOnce
<1>7. SnapshotsAreOld'
  BY <1>0, <1>1, <1>2 DEF Serial, SnapshotsAreOld
<1> QED BY <1>3, <1>4, <1>5, <1>6, <1>7 DEF Serial

LEMMA CrashKeeps ==
  ASSUME Typed, Serial, NEW p \in alive, Crash(p)
  PROVE  Serial'
<1>1. /\ lock' = lock /\ at' = at /\ seen' = seen /\ quarantine' = quarantine
      /\ alive' = alive \ {p}
  BY DEF Crash
<1>2. HoldersHaveLock' /\ NothingIsUndone'
  BY <1>1 DEF Serial, HoldersHaveLock, NothingIsUndone, MovedAsExpected
<1>3. MovesAreStale' /\ MadeOnce'
  BY <1>1 DEF Serial, MovesAreStale, MadeOnce
<1>4. SnapshotsAreOld'
  BY <1>1 DEF Serial, SnapshotsAreOld
<1> QED BY <1>2, <1>3, <1>4 DEF Serial

\* The steps that only move on.
LEMMA MovesOnKeeps ==
  ASSUME Typed, Serial, NEW p \in alive,
         Acquire(p) \/ Publish(p) \/ Release(p) \/ ReadOwn(p)
  PROVE  Serial'
<1>0. /\ lock' = lock /\ seen' = seen /\ alive' = alive
      /\ \A q \in Procs \ {p} : quarantine'[q] = quarantine[q]
  BY DEF Acquire, Publish, Release, ReadOwn
<1>1. CASE Acquire(p)
  <2>1. at' = [at EXCEPT ![p] = "mkdir"] /\ at[p] \notin Past
        /\ "mkdir" \in Steps /\ "mkdir" \notin Holding
    BY <1>1 DEF Acquire, Goto, Past, Holding, Steps
  <2> QED BY <1>0, <2>1, GoesOn
<1>2. CASE Publish(p)
  <2>1. at' = [at EXCEPT ![p] = "rewrite"] /\ at[p] \in Holding /\ at[p] \notin Busy
        /\ "rewrite" \in Steps /\ "rewrite" \in Holding /\ "rewrite" \notin Busy
        /\ "rewrite" \in Past
    BY <1>2 DEF Publish, Goto, Past, Holding, Steps, Busy
  <2> QED BY <1>0, <2>1, GoesOn
<1>3. CASE Release(p)
  <2>1. at' = [at EXCEPT ![p] = "release"] /\ at[p] \in Holding /\ at[p] \notin Busy
        /\ "release" \in Steps /\ "release" \in Holding /\ "release" \notin Busy
        /\ "release" \in Past
    BY <1>3 DEF Release, Goto, Past, Holding, Steps, Busy
  <2> QED BY <1>0, <2>1, GoesOn
<1>4. CASE ReadOwn(p)
  <2>1. at[p] = "release" /\ at[p] \in Holding /\ at[p] \notin Busy
    BY <1>4 DEF ReadOwn, Holding, Busy
  <2>2. lock # None /\ lock.owner = p
    BY <2>1 DEF Serial, HoldersHaveLock
  <2>3. at' = [at EXCEPT ![p] = "remove"] /\ "remove" \in Steps /\ "remove" \in Holding
        /\ "remove" \notin Busy /\ "remove" \in Past
    BY <1>4, <2>2 DEF ReadOwn, Goto, Steps, Past, Holding, Busy
  <2> QED BY <1>0, <2>1, <2>3, GoesOn
<1> QED BY <1>1, <1>2, <1>3, <1>4

-----------------------------------------------------------------------------
(***************************************************************************)
(* The theorems.                                                           *)
(***************************************************************************)

LEMMA InitInv == Init => OwnershipInv
<1> SUFFICES ASSUME Init PROVE OwnershipInv
  OBVIOUS
<1>1. /\ lock = None /\ alive = Procs
      /\ \A p \in Procs : at[p] = "idle" /\ seen[p] = None /\ quarantine[p] = None
  BY DEF Init
<1>2. Typed
  BY <1>1 DEF Init, Typed, Steps
<1>3. Serial
  BY <1>1 DEF Serial, HoldersHaveLock, NothingIsUndone, MovesAreStale, MadeOnce,
              SnapshotsAreOld, Holding
<1> QED BY <1>2, <1>3 DEF OwnershipInv

LEMMA NextSerial == ASSUME Typed, Serial, [Next]_vars, ~ raced' PROVE Serial'
<1>1. CASE Age
  BY <1>1, AgeKeeps
<1>2. ASSUME NEW p \in alive, Acquire(p) \/ Step(p) \/ Release(p) \/ Crash(p)
      PROVE  Serial'
  <2>1. CASE Acquire(p) \/ Publish(p) \/ Release(p) \/ ReadOwn(p)
    BY <2>1, MovesOnKeeps
  <2>2. CASE Crash(p)
    BY <2>2, CrashKeeps
  <2>3. CASE MakeLock(p) \/ ReadLock(p)
    BY <2>3, MakeLockKeeps, ReadLockKeeps
  <2>4. CASE Write(p) \/ Rename(p) \/ Remove(p)
    BY <2>4, HolderSteps
  <2>5. CASE Check(p)
    <3>1. raced' = FALSE
      BY <2>5 DEF Check, Typed
    <3> QED BY <2>5, <3>1, CheckKeeps
  <2>6. CASE Move(p) \/ Verify(p) \/ RemoveDir(p)
    BY <2>6, MoveKeeps, VerifyKeeps, RemoveDirKeeps
  <2>7. ~ (Undo(p) \/ Restore(p) \/ PutBack(p))
    BY DEF Serial, NothingIsUndone, Undo, Restore, PutBack
  <2> QED BY <1>2, <2>1, <2>2, <2>3, <2>4, <2>5, <2>6, <2>7 DEF Step
<1>3. CASE UNCHANGED vars
  BY <1>3 DEF vars, Serial, HoldersHaveLock, NothingIsUndone, MovesAreStale, MadeOnce,
              SnapshotsAreOld, MovedAsExpected
<1> QED BY <1>1, <1>2, <1>3 DEF Next

\* That two processes reclaimed at once is never forgotten.
LEMMA RacedStays == ASSUME Typed, raced, [Next]_vars PROVE raced'
BY DEF Next, Step, vars, Age, Acquire, Release, Crash, MakeLock, Write, Rename, Undo, Publish,
       ReadLock, Check, Move, Verify, Restore, PutBack, ReadOwn, Remove, RemoveDir

LEMMA SpecInv == Spec => []OwnershipInv
<1>1. Init => OwnershipInv
  BY InitInv
<1>2. OwnershipInv /\ [Next]_vars => OwnershipInv'
  <2> SUFFICES ASSUME OwnershipInv, [Next]_vars PROVE OwnershipInv'
    OBVIOUS
  <2>1. Typed'
    BY NextTyped DEF OwnershipInv
  <2>2. raced' \/ Serial'
    BY NextSerial, RacedStays DEF OwnershipInv
  <2> QED BY <2>1, <2>2 DEF OwnershipInv
<1> QED BY <1>1, <1>2, PTL DEF Spec

\* The lock directory stays the owner's whatever other processes start, crash,
\* release or reclaim, for any number of them (listener-ownership.ts acquire,
\* release, reclaimStaleLock); unless two reclaimed the same stale lock at once.
THEOREM OwnerKeeps == Spec => []OwnerKeepsLock
<1>1. OwnershipInv => OwnerKeepsLock
  BY DEF OwnershipInv, OwnerKeepsLock, Serial, HoldersHaveLock, Owners, Holding, Busy
<1> QED BY <1>1, SpecInv, PTL

\* There are never two owners of the bridge listener, unless two processes
\* reclaimed the same stale lock at once (listener-ownership.ts acquire).
THEOREM OwnersAreOne == Spec => [](raced \/ \A p, q \in Owners : p = q)
<1>1. OwnershipInv => (raced \/ \A p, q \in Owners : p = q)
  BY DEF OwnershipInv, Serial, HoldersHaveLock, Owners, Holding
<1> QED BY <1>1, SpecInv, PTL

-----------------------------------------------------------------------------
(***************************************************************************)
(* Type correctness: an attempt that is under way was still left, and no   *)
(* more processes crash than may.                                          *)
(***************************************************************************)

Attempting == {"mkdir", "snapshot", "check", "move", "verify"}

TriesLeft ==
  /\ tries \in [Procs -> 0..MaxTries]
  /\ \A p \in Procs : at[p] \in Attempting => tries[p] >= 1

Crashed == Cardinality(Procs \ alive) <= MaxCrashes

LEMMA NextTries == ASSUME Typed, TriesLeft, [Next]_vars PROVE TriesLeft'
<1> USE OwnershipAssumption
<1>1. ASSUME NEW p \in alive, NEW x \in Steps, at' = [at EXCEPT ![p] = x],
             tries' = tries, x \in Attempting => at[p] \in Attempting
      PROVE  TriesLeft'
  BY <1>1 DEF Typed, TriesLeft
<1>2. ASSUME NEW p \in alive, Acquire(p) PROVE TriesLeft'
  <2>1. tries' = [tries EXCEPT ![p] = MaxTries] /\ at' = [at EXCEPT ![p] = "mkdir"]
    BY <1>2 DEF Acquire, Goto
  <2> QED BY <2>1 DEF Typed, TriesLeft
<1>3. ASSUME NEW p \in alive, Retry(p), at[p] \in Attempting PROVE TriesLeft'
  <2>1. p \in Procs /\ tries[p] \in 1..MaxTries
    BY <1>3 DEF Typed, TriesLeft
  <2>2. tries' = [tries EXCEPT ![p] = tries[p] - 1]
        /\ at' = [at EXCEPT ![p] = IF tries[p] > 1 THEN "mkdir" ELSE "threw"]
    BY <1>3 DEF Retry, Goto
  <2>3. "threw" \notin Attempting
    BY DEF Attempting
  <2> QED BY <2>1, <2>2, <2>3 DEF Typed, TriesLeft
<1>4. ASSUME NEW p \in alive,
             \/ MakeLock(p) \/ Write(p) \/ Rename(p) \/ Undo(p) \/ Publish(p) \/ ReadLock(p)
             \/ Restore(p) \/ PutBack(p) \/ Release(p) \/ ReadOwn(p) \/ Remove(p)
             \/ RemoveDir(p)
      PROVE  TriesLeft'
  <2>1. tries' = tries
    BY <1>4 DEF MakeLock, Write, Rename, Undo, Publish, ReadLock, Restore, PutBack, Release,
                ReadOwn, Remove, RemoveDir
  <2>2. CASE ReadLock(p)
    <3>1. PICK x : at' = [at EXCEPT ![p] = x]
      BY <2>2, Zenon DEF ReadLock, Goto
    <3>2. at[p] \in Attempting
      BY <2>2 DEF ReadLock, Attempting
    <3>3. p \in Procs /\ \A q \in Procs \ {p} : at'[q] = at[q]
      BY <3>1 DEF Typed
    <3> QED BY <2>1, <3>2, <3>3 DEF TriesLeft
  <2>3. CASE MakeLock(p)
    <3>1. PICK x \in {"write", "snapshot"} : at' = [at EXCEPT ![p] = x]
      BY <2>3 DEF MakeLock, Goto
    <3>2. x \in Steps /\ at[p] \in Attempting
      BY <2>3 DEF MakeLock, Steps, Attempting
    <3> QED BY <1>1, <2>1, <3>1, <3>2
  <2>4. CASE ~ ReadLock(p) /\ ~ MakeLock(p)
    <3>1. PICK x \in Steps \ Attempting : at' = [at EXCEPT ![p] = x]
      BY <1>4, <2>4 DEF Write, Rename, Undo, Publish, Restore, PutBack, Release, ReadOwn, Remove,
                        RemoveDir, Goto, Steps, Attempting
    <3> QED BY <1>1, <2>1, <3>1
  <2> QED BY <2>2, <2>3, <2>4
<1>5. ASSUME NEW p \in alive, Check(p) \/ Move(p) \/ Verify(p) PROVE TriesLeft'
  <2>1. at[p] \in Attempting
    BY <1>5 DEF Check, Move, Verify, Attempting
  <2>2. CASE Retry(p)
    BY <1>3, <2>1, <2>2
  <2>3. CASE ~ Retry(p)
    <3>1. PICK x \in {"move", "verify", "restore"} : at' = [at EXCEPT ![p] = x]
      BY <1>5, <2>3 DEF Check, Move, Verify, Goto
    <3>2. x \in Steps /\ tries' = tries
      BY <1>5, <2>3 DEF Check, Move, Verify, Steps
    <3> QED BY <1>1, <2>1, <3>1, <3>2
  <2> QED BY <2>2, <2>3
<1>6. ASSUME at' = at, tries' = tries PROVE TriesLeft'
  BY <1>6 DEF TriesLeft
<1>7. CASE Age \/ (\E p \in alive : Crash(p)) \/ UNCHANGED vars
  BY <1>6, <1>7 DEF Age, Crash, vars
<1> QED BY <1>2, <1>4, <1>5, <1>7 DEF Next, Step

LEMMA NextCrashed == ASSUME Typed, Crashed, [Next]_vars PROVE Crashed'
<1>1. ASSUME NEW p \in alive, Crash(p) PROVE Crashed'
  <2>1. IsFiniteSet(Procs \ alive)
    BY OwnershipAssumption, FS_Difference
  <2>2. alive' = alive \ {p} /\ Cardinality(Procs \ alive) < MaxCrashes
    BY <1>1 DEF Crash
  <2>3. Procs \ alive' = (Procs \ alive) \cup {p} /\ p \notin Procs \ alive
    BY <2>2 DEF Typed
  <2>4. Cardinality(Procs \ alive') = Cardinality(Procs \ alive) + 1
    BY <2>1, <2>3, FS_AddElement
  <2>5. Cardinality(Procs \ alive) \in Nat
    BY <2>1, FS_CardinalityType
  <2> QED BY <2>2, <2>4, <2>5, OwnershipAssumption DEF Crashed
<1>2. ASSUME alive' = alive PROVE Crashed'
  BY <1>2 DEF Crashed
<1>3. CASE ~ \E p \in alive : Crash(p)
  BY <1>2, <1>3 DEF Next, Step, vars, Age, Acquire, Release, MakeLock, Write, Rename, Undo, Publish,
       ReadLock, Check, Move, Verify, Restore, PutBack, ReadOwn, Remove, RemoveDir
<1> QED BY <1>1, <1>3

\* Every process is at a step of acquire() or release() with the snapshot or the
\* directory that step reads, and with an attempt left while it still makes them.
THEOREM TypeCorrect == Spec => []TypeOK
<1> DEFINE TInv == Typed /\ TriesLeft /\ Crashed
<1>1. Init => TInv
  <2> SUFFICES ASSUME Init PROVE TInv
    OBVIOUS
  <2>1. Typed
    BY InitInv DEF OwnershipInv
  <2>2. TriesLeft
    <3>1. tries \in [Procs -> 0..MaxTries] /\ \A p \in Procs : at[p] = "idle"
      BY OwnershipAssumption DEF Init
    <3> QED BY <3>1 DEF TriesLeft, Attempting
  <2>3. Crashed
    <3>1. Procs \ alive = {}
      BY DEF Init
    <3> QED BY <3>1, FS_EmptySet, OwnershipAssumption DEF Crashed
  <2> QED BY <2>1, <2>2, <2>3
<1>2. TInv /\ [Next]_vars => TInv'
  BY NextTyped, NextTries, NextCrashed
<1>3. TInv => TypeOK
  BY DEF Typed, TriesLeft, Crashed, TypeOK, Steps
<1> QED BY <1>1, <1>2, <1>3, PTL DEF Spec

=============================================================================
