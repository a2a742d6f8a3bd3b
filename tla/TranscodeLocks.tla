--------------------------- MODULE TranscodeLocks ---------------------------
(***************************************************************************)
(* The table of per-path mutexes, transcodeLocks.  Locking is three steps  *)
(* of the code (LoadOrStore, refCount.Add(1), mu.Lock) and so is unlocking *)
(* (mu.Unlock, refCount.Add(-1), Delete): each is an operator here and     *)
(* other requests may run between any two of them.                         *)
(*                                                                         *)
(* A request stores at most one lock in the table, so a lock object is     *)
(* named after the request that allocated it.                              *)
(***************************************************************************)
EXTENDS TranscodeFormats

CONSTANT Requests    \* the stream requests of a behaviour, each made once

ASSUME LockAssumption == None \notin Requests

VARIABLES table,   \* transcodeLocks: the lock stored for a path, or None
          refs,    \* refCount of each lock
          owner,   \* the request that holds the mutex of each lock, or None
          lock     \* the lock each request got from LoadOrStore

lockVars == <<table, refs, owner, lock>>

LocksTypeOK ==
  /\ table \in [Paths -> Requests \cup {None}]
  /\ refs \in [Requests -> Nat]
  /\ owner \in [Requests -> Requests \cup {None}]
  /\ lock \in [Requests -> Requests \cup {None}]

LocksInit ==
  /\ table = [p \in Paths |-> None]
  /\ refs = [l \in Requests |-> 0]
  /\ owner = [l \in Requests |-> None]
  /\ lock = [r \in Requests |-> None]

\* mutant: Store instead of LoadOrStore
StoreNew(r, p) ==
  /\ table' = [table EXCEPT ![p] = r]
  /\ lock' = [lock EXCEPT ![r] = r]
  /\ UNCHANGED <<refs, owner>>

LoadOrStore(r, p) ==
  LET l == IF table[p] = None THEN r ELSE table[p]
  IN  /\ table' = [table EXCEPT ![p] = l]
      /\ lock' = [lock EXCEPT ![r] = l]
      /\ UNCHANGED <<refs, owner>>

\* mutant: only a request that found the lock in the table counts itself
AddRefIfLoaded(r) ==
  /\ refs' = [refs EXCEPT ![lock[r]] = IF lock[r] = r THEN @ ELSE @ + 1]
  /\ UNCHANGED <<table, owner, lock>>

AddRef(r) ==
  /\ refs' = [refs EXCEPT ![lock[r]] = @ + 1]
  /\ UNCHANGED <<table, owner, lock>>

LockMutex(r) ==
  /\ owner[lock[r]] = None
  /\ owner' = [owner EXCEPT ![lock[r]] = r]
  /\ UNCHANGED <<table, refs, lock>>

UnlockMutex(r) ==
  /\ owner' = [owner EXCEPT ![lock[r]] = None]
  /\ UNCHANGED <<table, refs, lock>>

DropRef(r) ==
  /\ refs' = [refs EXCEPT ![lock[r]] = @ - 1]
  /\ UNCHANGED <<table, owner, lock>>

\* whatever lock the table holds for p by then goes, not only the caller's
DeleteLock(p) ==
  /\ table' = [table EXCEPT ![p] = None]
  /\ UNCHANGED <<refs, owner, lock>>

\* the table and its locks are process memory
LocksCrash ==
  /\ table' = [p \in Paths |-> None]
  /\ refs' = [l \in Requests |-> 0]
  /\ owner' = [l \in Requests |-> None]
  /\ lock' = [r \in Requests |-> None]
=============================================================================
