--------------------------- MODULE StreamingProofs ---------------------------
(***************************************************************************)
(* Theorems of Streaming for any number of requests, tracks and workers,   *)
(* with failures, crashes and the sweep allowed or not.                    *)
(***************************************************************************)
EXTENDS Streaming, FiniteSetTheorems, TLAPS

LEMMA PathType ==
  ASSUME NEW r \in Requests, want[r] \in Tracks \X Requested
  PROVE  /\ Path(r) \in Paths
         /\ <<Track(r), Format(r)>> \in Tracks \X Extensions
BY DEF Path, Track, Format, CachePath, Paths, ResolveFormat, transcodeFormats, Extensions

LEMMA EntryType ==
  /\ \A p \in Paths : <<p, "tmp">> \in Entries /\ <<p, "dest">> \in Entries
  /\ \A e \in Entries : e[1] \in Paths /\ e[2] \in {"dest", "tmp"}
BY DEF Entries

-----------------------------------------------------------------------------
(* The types, with integers for the two counters, and which fields of a    *)
(* request are set at which labels.                                        *)

Shape ==
  /\ pc \in [Requests -> Labels]
  /\ want \in [Requests -> (Tracks \X Requested) \cup {None}]
  /\ err \in [Requests -> BOOLEAN]
  /\ sem \in Int
  /\ out \in [Requests -> Requests \cup {None}]
  /\ file \in [Requests -> Requests \cup {None}]
  /\ answer \in [Requests -> {0, 200, 400, 404, 500}]
  /\ table \in [Paths -> Requests \cup {None}]
  /\ refs \in [Requests -> Int]
  /\ owner \in [Requests -> Requests \cup {None}]
  /\ lock \in [Requests -> Requests \cup {None}]
  /\ CacheTypeOK

Fields ==
  \A r \in Requests :
    /\ pc[r] \notin {"idle", "done", "dead"} => want[r] \in Tracks \X Requested
    /\ pc[r] \in Locked => lock[r] \in Requests
    /\ pc[r] \in {"run", "orphan"} => out[r] \in Requests

ShapeInv ==
  /\ Shape
  /\ Fields
  /\ sweep = "remove" => cur \in Entries

LEMMA ShapeInit == Init => ShapeInv
BY LockAssumption DEF Init, LocksInit, CacheInit, ShapeInv, Shape, Fields, CacheTypeOK, Labels, Locked, UserLabels, SlotLabels

LEMMA ShapeNext == ShapeInv /\ [Next]_vars => ShapeInv'
<1>. SUFFICES ASSUME ShapeInv, [Next]_vars PROVE ShapeInv'
  OBVIOUS
<1>. USE LockAssumption
<1>. USE DEF ShapeInv, Shape, Fields, CacheTypeOK, Labels, Locked, UserLabels, SlotLabels, Goto, requestVars, lockVars,
          cacheVars, fileVars, sweepVars
<1>1. ASSUME NEW r \in Requests, Reject(r) PROVE ShapeInv'
  BY <1>1 DEF Reject
<1>2. ASSUME NEW r \in Requests, Receive(r) PROVE ShapeInv'
  BY <1>2 DEF Receive
<1>3. ASSUME NEW r \in Requests, Load(r) PROVE ShapeInv'
  <2>1. Path(r) \in Paths
    BY <1>3, PathType DEF Load
  <2>. QED
    BY <1>3, <2>1 DEF Load, LoadOrStore
<1>4. ASSUME NEW r \in Requests, Ref(r) \/ Lock(r) \/ Unlock(r) \/ Unref(r) PROVE ShapeInv'
  BY <1>4 DEF Ref, AddRef, Lock, LockMutex, Unlock, UnlockMutex, Unref, DropRef, AfterUnlock
<1>5. ASSUME NEW r \in Requests, CheckCache(r) \/ AcquireSem(r) \/ ReleaseSem(r) PROVE ShapeInv'
  BY <1>5 DEF CheckCache, AcquireSem, ReleaseSem
<1>6. ASSUME NEW r \in Requests, Spawn(r) PROVE ShapeInv'
  <2>1. Path(r) \in Paths /\ <<Track(r), Format(r)>> \in Tracks \X Extensions
    BY <1>6, PathType DEF Spawn
  <2>. QED
    BY <1>6, <2>1 DEF Spawn, OpenOutput
<1>7. ASSUME NEW r \in Requests, SpawnFails(r) \/ EncoderFails(r) \/ RenameFails(r)
      PROVE ShapeInv'
  <2>1. CASE SpawnFails(r)
    BY <2>1 DEF SpawnFails
  <2>2. CASE EncoderFails(r)
    BY <2>2 DEF EncoderFails
  <2>3. CASE RenameFails(r)
    BY <2>3 DEF RenameFails
  <2>. QED
    BY <1>7, <2>1, <2>2, <2>3
<1>14. ASSUME NEW r \in Requests, Fail(r) \/ Serve(r) \/ StatFails(r) \/ OpenFails(r)
      PROVE ShapeInv'
  BY <1>14 DEF Fail, Serve, StatFails, OpenFails
<1>8. ASSUME NEW r \in Requests, EncoderDone(r) \/ OrphanDone(r) PROVE ShapeInv'
  BY <1>8 DEF EncoderDone, OrphanDone, CloseOutput
<1>9. ASSUME NEW r \in Requests, Remove(r) \/ Rename(r) \/ Open(r) \/ Delete(r) PROVE ShapeInv'
  <2>1. Path(r) \in Paths
    BY <1>9, PathType DEF Remove, Rename, Open, Delete
  <2>2. CASE Remove(r)
    BY <2>1, <2>2 DEF Remove, RemoveTmp
  <2>3. CASE Rename(r)
    BY <2>1, <2>3 DEF Rename, RenameTmp
  <2>4. CASE Open(r)
    BY <2>1, <2>4 DEF Open
  <2>5. CASE Delete(r)
    BY <2>1, <2>5 DEF Delete, DeleteLock, AfterUnlock
  <2>. QED
    BY <1>9, <2>2, <2>3, <2>4, <2>5
<1>10. CASE Crash
  BY <1>10 DEF Crash, LocksCrash, CacheCrash, SweepIdle, InFlight, At
<1>11. CASE Sweep
  BY <1>11, EntryType DEF Sweep, SweepStart, SweepInfo, SweepRemove, SweepRemoveFails, SweepEnd, SweepIdle
<1>12. CASE Age
  BY <1>12 DEF Age, MonthPasses
<1>13. CASE UNCHANGED vars
  BY <1>13 DEF vars
<1>. QED
  BY <1>1, <1>2, <1>3, <1>4, <1>5, <1>6, <1>7, <1>8, <1>9, <1>10, <1>11, <1>12, <1>13, <1>14
  DEF Next, Handle, Finished

-----------------------------------------------------------------------------
(* The semaphore and the reference counts count what they are meant to.    *)

SlotsExact == sem = Cardinality(Slots)

CountInv == SlotsExact /\ RefsExact

LEMMA FiniteRequests ==
  ASSUME NEW S \in SUBSET Requests
  PROVE  IsFiniteSet(S) /\ Cardinality(S) \in Nat
BY StreamingAssumption, FS_Subset, FS_CardinalityType

\* How the two sets change when request r goes to label x holding lock y.
LEMMA SlotsStep ==
  ASSUME NEW r \in Requests, NEW x, pc \in [Requests -> Labels], pc' = [pc EXCEPT ![r] = x]
  PROVE  Slots' = IF x \in SlotLabels THEN Slots \cup {r} ELSE Slots \ {r}
BY DEF Slots, At

LEMMA UsersStep ==
  ASSUME NEW r \in Requests, NEW x, NEW y,
         pc \in [Requests -> Labels], pc' = [pc EXCEPT ![r] = x],
         lock \in [Requests -> Requests \cup {None}], lock' = [lock EXCEPT ![r] = y],
         NEW l \in Requests
  PROVE  Users(l)' = IF x \in UserLabels /\ y = l THEN Users(l) \cup {r} ELSE Users(l) \ {r}
BY DEF Users, At

LEMMA CountInit == Init => CountInv
<1>1. ASSUME Init PROVE Slots = {} /\ \A l \in Requests : Users(l) = {}
  BY <1>1 DEF Init, Slots, Users, At, SlotLabels, UserLabels
<1>. QED
  BY <1>1, FS_EmptySet DEF Init, LocksInit, CountInv, SlotsExact, RefsExact

\* A step of one request that neither acquires nor releases anything.
LEMMA CountSame ==
  ASSUME ShapeInv, CountInv, NEW r \in Requests, NEW x, NEW y,
         pc' = [pc EXCEPT ![r] = x], lock' = [lock EXCEPT ![r] = y],
         pc[r] \in SlotLabels <=> x \in SlotLabels,
         pc[r] \in UserLabels <=> x \in UserLabels,
         pc[r] \in UserLabels => y = lock[r],
         UNCHANGED <<sem, refs>>
  PROVE  CountInv'
<1>1. Slots' = Slots
  BY SlotsStep DEF ShapeInv, Shape, Slots, At
<1>2. \A l \in Requests : Users(l)' = Users(l)
  BY UsersStep DEF ShapeInv, Shape, Users, At
<1>. QED
  BY <1>1, <1>2 DEF CountInv, SlotsExact, RefsExact

LEMMA CountNext == ShapeInv /\ CountInv /\ [Next]_vars => CountInv'
<1>. SUFFICES ASSUME ShapeInv, CountInv, [Next]_vars PROVE CountInv'
  OBVIOUS
<1>. USE DEF Goto, SlotLabels, UserLabels
<1>0. /\ pc \in [Requests -> Labels]
      /\ lock \in [Requests -> Requests \cup {None}]
      /\ refs \in [Requests -> Int]
      /\ sem \in Int
      /\ \A r \in Requests : lock = [lock EXCEPT ![r] = lock[r]]
  BY DEF ShapeInv, Shape
<1>1. ASSUME NEW r \in Requests, Reject(r) \/ Receive(r) PROVE CountInv'
  BY <1>0, <1>1, CountSame DEF Reject, Receive, lockVars
<1>2. ASSUME NEW r \in Requests, Load(r) PROVE CountInv'
  BY <1>0, <1>2, CountSame DEF Load, LoadOrStore, requestVars
<1>3. ASSUME NEW r \in Requests, Ref(r) PROVE CountInv'
  <2>1. Slots' = Slots
    BY <1>0, <1>3, SlotsStep DEF Ref, Slots, At
  <2>2. \A l \in Requests : Users(l)' = IF l = lock[r] THEN Users(l) \cup {r} ELSE Users(l)
    BY <1>0, <1>3, UsersStep DEF Ref, AddRef, Users, At
  <2>3. r \notin Users(lock[r]) /\ lock[r] \in Requests
    BY <1>3 DEF Ref, Users, At, ShapeInv, Fields, Locked, UserLabels, SlotLabels
  <2>4. \A l \in Requests : IsFiniteSet(Users(l))
    BY FiniteRequests DEF Users, At
  <2>5. RefsExact'
    BY <1>0, <1>3, <2>2, <2>3, <2>4, FS_AddElement DEF Ref, AddRef, CountInv, RefsExact
  <2>. QED
    BY <1>3, <2>1, <2>5 DEF Ref, CountInv, SlotsExact
<1>4. ASSUME NEW r \in Requests, Unref(r) PROVE CountInv'
  <2>1. Slots' = Slots
    BY <1>0, <1>4, SlotsStep DEF Unref, AfterUnlock, Slots, At
  <2>2. \A l \in Requests : Users(l)' = IF l = lock[r] THEN Users(l) \ {r} ELSE Users(l)
    BY <1>0, <1>4, UsersStep DEF Unref, DropRef, AfterUnlock, Users, At
  <2>3. r \in Users(lock[r]) /\ lock[r] \in Requests
    BY <1>4 DEF Unref, Users, At, ShapeInv, Fields, Locked, UserLabels, SlotLabels
  <2>4. \A l \in Requests : IsFiniteSet(Users(l))
    BY FiniteRequests DEF Users, At
  <2>5. RefsExact'
    BY <1>0, <1>4, <2>2, <2>3, <2>4, FS_RemoveElement DEF Unref, DropRef, CountInv, RefsExact
  <2>. QED
    BY <1>4, <2>1, <2>5 DEF Unref, CountInv, SlotsExact
<1>5. ASSUME NEW r \in Requests, AcquireSem(r) PROVE CountInv'
  <2>1. Slots' = Slots \cup {r} /\ r \notin Slots
    BY <1>0, <1>5, SlotsStep DEF AcquireSem, Slots, At
  <2>2. \A l \in Requests : Users(l)' = Users(l)
    BY <1>0, <1>5, UsersStep DEF AcquireSem, Users, At, lockVars
  <2>3. IsFiniteSet(Slots)
    BY FiniteRequests DEF Slots, At
  <2>4. SlotsExact'
    BY <1>5, <2>1, <2>3, FS_AddElement DEF AcquireSem, CountInv, SlotsExact
  <2>. QED
    BY <1>5, <2>2, <2>4 DEF AcquireSem, lockVars, CountInv, RefsExact
<1>6. ASSUME NEW r \in Requests, ReleaseSem(r) PROVE CountInv'
  <2>1. Slots' = Slots \ {r} /\ r \in Slots
    BY <1>0, <1>6, SlotsStep DEF ReleaseSem, Slots, At
  <2>2. \A l \in Requests : Users(l)' = Users(l)
    BY <1>0, <1>6, UsersStep DEF ReleaseSem, Users, At, lockVars
  <2>3. IsFiniteSet(Slots)
    BY FiniteRequests DEF Slots, At
  <2>4. SlotsExact'
    BY <1>6, <2>1, <2>3, FS_RemoveElement DEF ReleaseSem, CountInv, SlotsExact
  <2>. QED
    BY <1>6, <2>2, <2>4 DEF ReleaseSem, lockVars, CountInv, RefsExact
<1>7. ASSUME NEW r \in Requests, Lock(r) \/ CheckCache(r) \/ Unlock(r) \/ Delete(r)
      PROVE CountInv'
  BY <1>0, <1>7, CountSame
  DEF Lock, LockMutex, CheckCache, Unlock, UnlockMutex, Delete, DeleteLock, AfterUnlock,
      requestVars, lockVars
<1>8. ASSUME NEW r \in Requests, Spawn(r) \/ SpawnFails(r) \/ EncoderDone(r) \/ EncoderFails(r)
                              \/ OrphanDone(r)
      PROVE CountInv'
  BY <1>0, <1>8, CountSame
  DEF Spawn, SpawnFails, EncoderDone, EncoderFails, OrphanDone, lockVars
<1>9. ASSUME NEW r \in Requests, Remove(r) \/ Rename(r) \/ RenameFails(r) PROVE CountInv'
  BY <1>0, <1>9, CountSame DEF Remove, Rename, RenameFails, lockVars
<1>10. ASSUME NEW r \in Requests, Fail(r) \/ Open(r) \/ OpenFails(r) \/ Serve(r) \/ StatFails(r)
      PROVE CountInv'
  BY <1>0, <1>10, CountSame DEF Fail, Open, OpenFails, Serve, StatFails, lockVars
<1>11. CASE Crash
  <2>1. Slots' = {} /\ \A l \in Requests : Users(l)' = {}
    BY <1>0, <1>11 DEF Crash, Slots, Users, At, InFlight
  <2>. QED
    BY <1>11, <2>1, FS_EmptySet DEF Crash, LocksCrash, CountInv, SlotsExact, RefsExact
<1>12. CASE Sweep \/ Age \/ UNCHANGED vars
  <2>1. UNCHANGED <<pc, sem, refs, lock>>
    BY <1>12 DEF Sweep, Age, vars, lockVars
  <2>. QED
    BY <2>1 DEF CountInv, SlotsExact, RefsExact, Slots, Users, At
<1>. QED
  BY <1>1, <1>2, <1>3, <1>4, <1>5, <1>6, <1>7, <1>8, <1>9, <1>10, <1>11, <1>12
  DEF Next, Handle, Finished

-----------------------------------------------------------------------------
(* The table holds no lock without a request that will give it back.       *)

\* A lock serves one path, the one its allocator asked for.
LockPaths ==
  /\ \A p \in Paths : table[p] # None =>
       pc[table[p]] \notin {"idle", "load"} /\ Path(table[p]) = p
  /\ \A r \in Requests : pc[r] \in Locked =>
       pc[lock[r]] \notin {"idle", "load"} /\ Path(lock[r]) = Path(r)

TableInv == LockPaths /\ NoLeakedLock

LEMMA PathStable ==
  ASSUME UNCHANGED want
  PROVE  \A r : Path(r)' = Path(r)
BY DEF Path, Track, Format

LEMMA TableInit == Init => TableInv
BY DEF NoLeakedLock, Init, LocksInit, TableInv, LockPaths, Locked, UserLabels, SlotLabels

\* A step of one request that leaves the table and its lock alone.
LEMMA TableSame ==
  ASSUME ShapeInv, TableInv, NEW r \in Requests, NEW x,
         pc' = [pc EXCEPT ![r] = x], UNCHANGED <<want, table, lock>>,
         pc[r] \notin {"idle", "load"}, x \notin {"idle", "load"},
         pc[r] \in Locked <=> x \in Locked
  PROVE  TableInv'
<1>1. \A s : Path(s)' = Path(s)
  BY PathStable
<1>2. LockPaths'
  BY <1>1 DEF ShapeInv, Shape, TableInv, LockPaths
<1>3. NoLeakedLock'
  BY <1>1 DEF NoLeakedLock, ShapeInv, Shape, TableInv
<1>. QED
  BY <1>2, <1>3 DEF TableInv

LEMMA TableNext == ShapeInv /\ CountInv /\ TableInv /\ [Next]_vars => TableInv'
<1>. SUFFICES ASSUME ShapeInv, CountInv, TableInv, [Next]_vars PROVE TableInv'
  OBVIOUS
<1>. USE DEF Goto
<1>0. /\ pc \in [Requests -> Labels]
      /\ lock \in [Requests -> Requests \cup {None}]
      /\ table \in [Paths -> Requests \cup {None}]
      /\ \A r \in Requests : pc[r] \in Locked => lock[r] \in Requests
  BY DEF ShapeInv, Shape, Fields
<1>1. ASSUME NEW r \in Requests, Reject(r) \/ Receive(r) PROVE TableInv'
  <2>1. \A s \in Requests \ {r} : Path(s)' = Path(s) /\ pc'[s] = pc[s]
    BY <1>0, <1>1 DEF Reject, Receive, Path, Track, Format, Shape, ShapeInv
  <2>2. pc[r] = "idle" /\ pc'[r] \notin Locked /\ UNCHANGED <<table, lock>>
    BY <1>0, <1>1 DEF Reject, Receive, Locked, UserLabels, SlotLabels, lockVars
  <2>3. LockPaths'
    BY <1>0, <2>1, <2>2 DEF TableInv, LockPaths
  <2>4. NoLeakedLock'
    BY <1>0, <2>1, <2>2 DEF NoLeakedLock, TableInv, Locked, UserLabels, SlotLabels
  <2>. QED
    BY <2>3, <2>4 DEF TableInv
<1>2. ASSUME NEW r \in Requests, Load(r) PROVE TableInv'
  <2>1. Path(r) \in Paths
    BY <1>2, PathType DEF Load, ShapeInv, Fields
  <2>2. \A s : Path(s)' = Path(s)
    BY <1>2, PathStable DEF Load, requestVars
  <2>3. LockPaths'
    BY <1>0, <1>2, <2>1, <2>2, LockAssumption DEF Load, LoadOrStore, TableInv, LockPaths, Locked, UserLabels, SlotLabels
  <2>4. NoLeakedLock'
    BY <1>0, <1>2, <2>1, <2>2 DEF NoLeakedLock, Load, LoadOrStore, TableInv, Locked, UserLabels, SlotLabels
  <2>. QED
    BY <2>3, <2>4 DEF TableInv
<1>3. ASSUME NEW r \in Requests, Unref(r) PROVE TableInv'
  <2>1. \A s : Path(s)' = Path(s)
    BY <1>3, PathStable DEF Unref, requestVars
  <2>2. LockPaths'
    BY <1>0, <1>3, <2>1 DEF Unref, DropRef, AfterUnlock, TableInv, LockPaths, Locked, UserLabels, SlotLabels
  <2>3. CASE refs[lock[r]] = 1
    BY <1>0, <1>3, <2>1, <2>3 DEF NoLeakedLock, Unref, DropRef, TableInv, Locked, UserLabels, SlotLabels, LockPaths
  <2>4. CASE refs[lock[r]] # 1
    <3>1. PICK u \in Users(lock[r]) : u # r
      <4>1. Cardinality(Users(lock[r])) # 1 /\ r \in Users(lock[r])
        BY <1>0, <1>3, <2>4
        DEF Unref, CountInv, RefsExact, Users, At, Locked, UserLabels, SlotLabels
      <4>. QED
        BY <4>1, FS_Singleton
    <3>2. u \in Requests /\ lock[u] = lock[r] /\ pc[u] \in Locked
      BY <3>1 DEF Users, At, Locked, UserLabels, SlotLabels
    <3>3. Path(u) = Path(r)
      BY <1>3, <3>2 DEF Unref, TableInv, LockPaths, Locked, UserLabels, SlotLabels
    <3>4. NoLeakedLock'
      BY <1>0, <1>3, <2>1, <3>1, <3>2, <3>3 DEF NoLeakedLock, Unref, DropRef, TableInv
    <3>. QED
      BY <2>2, <3>4 DEF TableInv
  <2>. QED
    BY <2>3, <2>4
<1>4. ASSUME NEW r \in Requests, Delete(r) PROVE TableInv'
  <2>1. \A s : Path(s)' = Path(s)
    BY <1>4, PathStable DEF Delete, requestVars
  <2>2. LockPaths'
    BY <1>0, <1>4, <2>1 DEF Delete, DeleteLock, AfterUnlock, TableInv, LockPaths, Locked, UserLabels, SlotLabels
  <2>3. NoLeakedLock'
    BY <1>0, <1>4, <2>1 DEF NoLeakedLock, Delete, DeleteLock, TableInv
  <2>. QED
    BY <2>2, <2>3 DEF TableInv
<1>5. ASSUME NEW r \in Requests,
             Ref(r) \/ Lock(r) \/ CheckCache(r) \/ AcquireSem(r) \/ ReleaseSem(r) \/ Unlock(r)
      PROVE TableInv'
  BY <1>5, TableSame
  DEF Ref, AddRef, Lock, LockMutex, CheckCache, AcquireSem, ReleaseSem, Unlock, UnlockMutex,
      requestVars, lockVars, Locked, UserLabels, SlotLabels
<1>6. ASSUME NEW r \in Requests, Spawn(r) \/ SpawnFails(r) \/ EncoderDone(r) \/ EncoderFails(r)
                              \/ OrphanDone(r)
      PROVE TableInv'
  BY <1>6, TableSame
  DEF Spawn, SpawnFails, EncoderDone, EncoderFails, OrphanDone, requestVars, lockVars, Locked, UserLabels, SlotLabels
<1>7. ASSUME NEW r \in Requests, Remove(r) \/ Rename(r) \/ RenameFails(r) PROVE TableInv'
  BY <1>7, TableSame DEF Remove, Rename, RenameFails, requestVars, lockVars, Locked, UserLabels, SlotLabels
<1>8. ASSUME NEW r \in Requests, Fail(r) \/ Open(r) \/ OpenFails(r) \/ Serve(r) \/ StatFails(r)
      PROVE TableInv'
  BY <1>8, TableSame DEF Fail, Open, OpenFails, Serve, StatFails, lockVars, Locked, UserLabels, SlotLabels
<1>9. CASE Crash
  <2>1. \A r \in Requests : pc'[r] \notin Locked
    BY <1>0, <1>9 DEF Crash, InFlight, At, Locked, UserLabels, SlotLabels
  <2>. QED
    BY <1>9, <2>1 DEF NoLeakedLock, Crash, LocksCrash, TableInv, LockPaths
<1>10. CASE Sweep \/ Age \/ UNCHANGED vars
  <2>1. UNCHANGED <<pc, want, table, lock>>
    BY <1>10 DEF Sweep, Age, vars, lockVars, requestVars
  <2>2. \A s : Path(s)' = Path(s)
    BY <2>1, PathStable
  <2>. QED
    BY <2>1, <2>2 DEF NoLeakedLock, TableInv, LockPaths
<1>. QED
  BY <1>1, <1>2, <1>3, <1>4, <1>5, <1>6, <1>7, <1>8, <1>9, <1>10 DEF Next, Handle, Finished

-----------------------------------------------------------------------------
(* The names in the cache directory: which rendition an inode is, and what *)
(* may be old.                                                             *)

NotSpawned == {"idle", "load", "ref", "lock", "stat", "sem", "spawn"}

\* No name points to the inode of a request that has created none yet.
Unborn ==
  \A r \in Requests : pc[r] \in NotSpawned =>
    /\ \A p \in Paths : tmp[p] # r /\ dest[p] # r
    /\ \A s \in Requests : file[s] # r

\* An inode is of the path it has a name in, and has one name there.
Named ==
  \A p \in Paths :
    /\ tmp[p] # None => made[tmp[p]] = p /\ tmp[p] # dest[p]
    /\ dest[p] # None => made[dest[p]] = p

\* A request has the rendition of its path open, or the original.
Opened ==
  \A r \in Requests :
    /\ file[r] # None => pc[r] \in {"serve", "done", "dead"} /\ made[file[r]] = Path(r)
    /\ pc[r] = "serve" => (file[r] = None <=> ~Transcoded(r))

\* Nobody makes a rendition beside an expired one, nor out of an expired file.
NoneOlder ==
  \A r \in Requests :
    /\ pc[r] \in {"sem", "spawn", "run", "rename"} => dest[Path(r)] \notin old
    /\ pc[r] \in {"run", "rename"} => tmp[Path(r)] \notin old

\* What the sweep is about to remove has still expired.
StillExpired ==
  sweep = "remove" /\ cur[2] = "dest" => dest[cur[1]] \in old

FileInv == Unborn /\ Named /\ Opened /\ NoneOlder /\ StillExpired

LEMMA FileInit == Init => FileInv
BY LockAssumption
DEF Init, CacheInit, FileInv, Unborn, Named, Opened, NoneOlder, StillExpired

\* A step of one request that touches no name and no file.
LEMMA FileSame ==
  ASSUME ShapeInv, FileInv, NEW r \in Requests, NEW x,
         pc' = [pc EXCEPT ![r] = x], UNCHANGED <<want, file, cacheVars>>,
         x \in NotSpawned => pc[r] \in NotSpawned,
         x \in {"sem", "spawn", "run", "rename"} =>
           pc[r] \in {"sem", "spawn", "run", "rename"} \/ dest[Path(r)] = None,
         x \in {"run", "rename"} => pc[r] \in {"run", "rename"},
         x # "serve", pc[r] \notin {"done", "dead"}, pc[r] = "serve" => x = "done"
  PROVE  FileInv'
<1>1. UNCHANGED <<tmp, dest, made, old, sweep, cur>>
  BY DEF cacheVars, fileVars, sweepVars
<1>2. \A s : Path(s)' = Path(s) /\ Transcoded(s)' = Transcoded(s)
  BY DEF Path, Track, Format, Transcoded
<1>3. pc' \in [Requests -> {x} \cup Labels] /\ pc'[r] = x /\ \A s \in Requests \ {r} : pc'[s] = pc[s]
  BY DEF ShapeInv, Shape
<1>4. None \notin old
  BY LockAssumption DEF ShapeInv, Shape, CacheTypeOK
<1>5. Unborn' /\ Named' /\ StillExpired'
  BY <1>1, <1>3 DEF FileInv, Unborn, Named, StillExpired
<1>6. Opened'
  BY <1>1, <1>2, <1>3 DEF FileInv, Opened
<1>7. NoneOlder'
  BY <1>1, <1>2, <1>3, <1>4 DEF FileInv, NoneOlder
<1>. QED
  BY <1>5, <1>6, <1>7 DEF FileInv

LEMMA FileNext == ShapeInv /\ FileInv /\ [Next]_vars => FileInv'
<1>. SUFFICES ASSUME ShapeInv, FileInv, [Next]_vars PROVE FileInv'
  OBVIOUS
<1>. USE LockAssumption
<1>0. /\ pc \in [Requests -> Labels]
      /\ file \in [Requests -> Requests \cup {None}]
      /\ CacheTypeOK
      /\ None \notin old
      /\ \A r \in Requests :
           pc[r] \notin {"idle", "done", "dead"} =>
             Path(r) \in Paths /\ <<Track(r), Format(r)>> = Path(r)
  BY PathType DEF ShapeInv, Shape, Fields, CacheTypeOK, Path, CachePath
<1>1. ASSUME NEW r \in Requests, Reject(r) \/ Receive(r) PROVE FileInv'
  <2>1. /\ pc[r] = "idle" /\ pc'[r] \in {"done", "load", "open"}
        /\ \A s \in Requests \ {r} :
             pc'[s] = pc[s] /\ Path(s)' = Path(s) /\ Transcoded(s)' = Transcoded(s)
        /\ UNCHANGED <<file, tmp, dest, made, old, sweep, cur>>
    BY <1>0, <1>1
    DEF Reject, Receive, Goto, Path, Track, Format, Transcoded, cacheVars, fileVars, sweepVars,
        ShapeInv, Shape
  <2>2. Unborn' /\ Named' /\ StillExpired'
    BY <1>0, <2>1 DEF FileInv, Unborn, Named, StillExpired, NotSpawned
  <2>3. Opened'
    BY <1>0, <2>1 DEF FileInv, Opened
  <2>4. NoneOlder'
    BY <1>0, <2>1 DEF FileInv, NoneOlder
  <2>. QED
    BY <2>2, <2>3, <2>4 DEF FileInv
<1>2. ASSUME NEW r \in Requests,
             Load(r) \/ Ref(r) \/ Lock(r) \/ CheckCache(r) \/ AcquireSem(r) \/ ReleaseSem(r)
      PROVE FileInv'
  BY <1>2, FileSame
  DEF Load, Ref, Lock, CheckCache, CacheExists, AcquireSem, ReleaseSem, Goto, requestVars, NotSpawned
<1>3. ASSUME NEW r \in Requests,
             Unlock(r) \/ Unref(r) \/ Delete(r) \/ SpawnFails(r) \/ EncoderFails(r) \/ RenameFails(r)
      PROVE FileInv'
  BY <1>3, FileSame
  DEF Unlock, Unref, Delete, AfterUnlock, SpawnFails, EncoderFails, RenameFails, Goto, requestVars,
      NotSpawned
<1>4. ASSUME NEW r \in Requests, Fail(r) \/ OpenFails(r) \/ Serve(r) \/ StatFails(r) PROVE FileInv'
  BY <1>4, FileSame DEF Fail, OpenFails, Serve, StatFails, Goto, NotSpawned
<1>5. ASSUME NEW r \in Requests, Spawn(r) PROVE FileInv'
  <2>. DEFINE p == Path(r)
              i == IF tmp[p] = None THEN r ELSE tmp[p]
  <2>1. /\ p \in Paths /\ pc[r] = "spawn" /\ i \in Requests
        /\ pc' = [pc EXCEPT ![r] = "run"]
        /\ tmp' = [tmp EXCEPT ![p] = i]
        /\ made' = [made EXCEPT ![i] = p]
        /\ old' = old \ {i}
        /\ UNCHANGED <<dest, file, want, sweep, cur>>
    BY <1>0, <1>5 DEF Spawn, OpenOutput, Goto, sweepVars, CacheTypeOK
  <2>2. \A s : Path(s)' = Path(s) /\ Transcoded(s)' = Transcoded(s)
    BY <2>1 DEF Path, Track, Format, Transcoded
  <2>3. \A q \in Paths : dest[q] # i
    BY <1>0, <2>1 DEF FileInv, Unborn, NotSpawned, Named, CacheTypeOK
  <2>4. /\ \A q \in Paths : tmp[q] = i => q = p
        /\ \A s \in Requests : file[s] = i => p = Path(s)
    BY <1>0, <2>1 DEF FileInv, Unborn, NotSpawned, Named, Opened, CacheTypeOK
  <2>5. \A s \in Requests \ {r} : pc[s] \in NotSpawned => i # s
    BY <1>0, <2>1 DEF FileInv, Unborn, CacheTypeOK
  <2>6. Unborn'
    BY <1>0, <2>1, <2>5 DEF FileInv, Unborn, CacheTypeOK, NotSpawned
  <2>7. Named'
    BY <1>0, <2>1, <2>3, <2>4 DEF FileInv, Named, CacheTypeOK
  <2>8. Opened'
    BY <1>0, <2>1, <2>2, <2>4 DEF FileInv, Opened, CacheTypeOK
  <2>9. NoneOlder'
    BY <1>0, <2>1, <2>2 DEF FileInv, NoneOlder, CacheTypeOK
  <2>10. StillExpired'
    BY <1>0, <2>1, <2>3, EntryType DEF FileInv, StillExpired, ShapeInv
  <2>. QED
    BY <2>6, <2>7, <2>8, <2>9, <2>10 DEF FileInv
<1>6. ASSUME NEW r \in Requests, EncoderDone(r) \/ OrphanDone(r) PROVE FileInv'
  <2>1. \/ pc[r] = "run" /\ pc' = [pc EXCEPT ![r] = "rename"]
        \/ pc[r] = "orphan" /\ pc' = [pc EXCEPT ![r] = "dead"]
    BY <1>6 DEF EncoderDone, OrphanDone, Goto
  <2>2. UNCHANGED <<want, file, tmp, dest, made, old, sweep, cur>>
    BY <1>6 DEF EncoderDone, OrphanDone, CloseOutput, sweepVars, requestVars
  <2>3. \A s : Path(s)' = Path(s) /\ Transcoded(s)' = Transcoded(s)
    BY <2>2 DEF Path, Track, Format, Transcoded
  <2>4. Unborn' /\ Named' /\ StillExpired'
    BY <1>0, <2>1, <2>2 DEF FileInv, Unborn, Named, StillExpired, NotSpawned
  <2>5. Opened'
    BY <1>0, <2>1, <2>2, <2>3 DEF FileInv, Opened
  <2>6. NoneOlder'
    BY <1>0, <2>1, <2>2, <2>3 DEF FileInv, NoneOlder
  <2>. QED
    BY <2>4, <2>5, <2>6 DEF FileInv
<1>7. ASSUME NEW r \in Requests, Remove(r) \/ Rename(r) PROVE FileInv'
  <2>. DEFINE p == Path(r)
  <2>1. /\ p \in Paths
        /\ \/ pc' = [pc EXCEPT ![r] = "release"] /\ UNCHANGED dest
           \/ /\ pc[r] = "rename" /\ pc' = [pc EXCEPT ![r] = "release"]
              /\ tmp[p] # None /\ dest' = [dest EXCEPT ![p] = tmp[p]]
        /\ tmp' = [tmp EXCEPT ![p] = None]
        /\ pc[r] \in {"remove", "rename"}
        /\ UNCHANGED <<want, file, made, old, sweep, cur>>
    BY <1>0, <1>7 DEF Remove, RemoveTmp, Rename, RenameTmp, Goto, sweepVars, requestVars
  <2>2. \A s : Path(s)' = Path(s) /\ Transcoded(s)' = Transcoded(s)
    BY <2>1 DEF Path, Track, Format, Transcoded
  <2>3. Unborn'
    BY <1>0, <2>1 DEF FileInv, Unborn, NotSpawned, CacheTypeOK
  <2>4. Named'
    BY <1>0, <2>1 DEF FileInv, Named, CacheTypeOK
  <2>5. Opened'
    BY <1>0, <2>1, <2>2 DEF FileInv, Opened
  <2>6. NoneOlder'
    BY <1>0, <2>1, <2>2 DEF FileInv, NoneOlder, CacheTypeOK
  <2>7. StillExpired'
    BY <1>0, <2>1, EntryType DEF FileInv, StillExpired, NoneOlder, CacheTypeOK, ShapeInv
  <2>. QED
    BY <2>3, <2>4, <2>5, <2>6, <2>7 DEF FileInv
<1>8. ASSUME NEW r \in Requests, Open(r) PROVE FileInv'
  <2>1. /\ pc[r] = "open" /\ pc' = [pc EXCEPT ![r] = "serve"] /\ Path(r) \in Paths
        /\ Transcoded(r) => dest[Path(r)] # None
        /\ file' = [file EXCEPT ![r] = IF Transcoded(r) THEN dest[Path(r)] ELSE None]
        /\ UNCHANGED <<want, tmp, dest, made, old, sweep, cur>>
    BY <1>0, <1>8 DEF Open, Goto, CacheExists, cacheVars, fileVars, sweepVars
  <2>2. \A s : Path(s)' = Path(s) /\ Transcoded(s)' = Transcoded(s)
    BY <2>1 DEF Path, Track, Format, Transcoded
  <2>3. Unborn' /\ Named' /\ StillExpired'
    BY <1>0, <2>1 DEF FileInv, Unborn, Named, StillExpired, NotSpawned
  <2>4. Opened'
    BY <1>0, <2>1, <2>2 DEF FileInv, Opened, Named
  <2>5. NoneOlder'
    BY <1>0, <2>1, <2>2 DEF FileInv, NoneOlder
  <2>. QED
    BY <2>3, <2>4, <2>5 DEF FileInv
<1>9. CASE Crash
  <2>1. /\ \A s \in Requests :
             \/ pc'[s] = pc[s] /\ pc[s] \in {"idle", "done", "dead", "orphan"}
             \/ pc'[s] \in {"dead", "orphan"} /\ pc[s] \notin {"idle", "done"}
        /\ sweep' = "idle"
        /\ UNCHANGED <<want, file, tmp, dest, made, old>>
    BY <1>0, <1>9
    DEF Crash, InFlight, At, CacheCrash, SweepIdle, fileVars, requestVars
  <2>2. \A s \in Requests : file[s] # None => pc'[s] \in {"done", "dead"}
    BY <1>0, <1>9 DEF Crash, InFlight, At, FileInv, Opened
  <2>3. \A s : Path(s)' = Path(s) /\ Transcoded(s)' = Transcoded(s)
    BY <2>1 DEF Path, Track, Format, Transcoded
  <2>4. Unborn' /\ Named' /\ StillExpired'
    BY <1>0, <2>1 DEF FileInv, Unborn, Named, StillExpired, NotSpawned
  <2>5. Opened' /\ NoneOlder'
    BY <1>0, <2>1, <2>2, <2>3 DEF FileInv, Opened, NoneOlder
  <2>. QED
    BY <2>4, <2>5 DEF FileInv
<1>10. CASE Sweep
  <2>1. UNCHANGED <<pc, want, file, made, old>>
    BY <1>10
    DEF Sweep, SweepStart, SweepInfo, SweepRemove, SweepRemoveFails, SweepEnd, requestVars, fileVars
  <2>2. \A p \in Paths : tmp'[p] \in {tmp[p], None} /\ dest'[p] \in {dest[p], None}
    BY <1>0, <1>10
    DEF Sweep, SweepStart, SweepInfo, SweepRemove, SweepRemoveFails, SweepEnd, fileVars, CacheTypeOK
  <2>3. \A s : Path(s)' = Path(s) /\ Transcoded(s)' = Transcoded(s)
    BY <2>1 DEF Path, Track, Format, Transcoded
  <2>4. Unborn'
    BY <1>0, <2>1, <2>2 DEF FileInv, Unborn, NotSpawned
  <2>5. Named'
    BY <1>0, <2>1, <2>2 DEF FileInv, Named
  <2>6. Opened'
    BY <1>0, <2>1, <2>3 DEF FileInv, Opened
  <2>7. NoneOlder'
    BY <1>0, <2>1, <2>2, <2>3 DEF FileInv, NoneOlder
  <2>8. StillExpired'
    BY <1>0, <1>10, EntryType
    DEF Sweep, SweepStart, SweepInfo, SweepRemove, SweepRemoveFails, SweepEnd, SweepIdle, Inode, fileVars,
        FileInv, StillExpired, ShapeInv
  <2>. QED
    BY <2>4, <2>5, <2>6, <2>7, <2>8 DEF FileInv
<1>11. CASE Age
  <2>1. /\ \A s \in Requests : pc[s] \in {"idle", "done", "dead"}
        /\ sweep' = "idle"
        /\ UNCHANGED <<pc, want, file, tmp, dest, made>>
    BY <1>0, <1>11
    DEF Age, MonthPasses, InFlight, At, requestVars, sweepVars
  <2>2. \A s : Path(s)' = Path(s) /\ Transcoded(s)' = Transcoded(s)
    BY <2>1 DEF Path, Track, Format, Transcoded
  <2>. QED
    BY <1>0, <2>1, <2>2
    DEF FileInv, Unborn, Named, Opened, NoneOlder, StillExpired, NotSpawned
<1>12. CASE UNCHANGED vars
  <2>1. UNCHANGED <<pc, want, file, tmp, dest, made, old, sweep, cur>>
    BY <1>12 DEF vars, requestVars, cacheVars, fileVars, sweepVars
  <2>2. \A s : Path(s)' = Path(s) /\ Transcoded(s)' = Transcoded(s)
    BY <2>1 DEF Path, Track, Format, Transcoded
  <2>. QED
    BY <2>1, <2>2 DEF FileInv, Unborn, Named, Opened, NoneOlder, StillExpired, NotSpawned
<1>. QED
  BY <1>1, <1>2, <1>3, <1>4, <1>5, <1>6, <1>7, <1>8, <1>9, <1>10, <1>11, <1>12
  DEF Next, Handle, Finished

LEMMA FilesInductive == Spec => [](ShapeInv /\ FileInv)
<1>. QED
  BY ShapeInit, FileInit, ShapeNext, FileNext, PTL DEF Spec

-----------------------------------------------------------------------------
(* From the lock to the file: what a request made or found stays until it  *)
(* has opened it.                                                          *)

Leaving == {"unlock", "unref", "delete", "open"}

RequestInv ==
  \A r \in Requests :
    /\ pc[r] \in NotSpawned => out[r] = None
    /\ pc[r] \in Locked \cup {"load"} => Transcoded(r)
    /\ pc[r] # "done" => answer[r] = 0
    /\ pc[r] \in Leaving \cup {"release"} /\ ~err[r] /\ out[r] # None =>
         dest[Path(r)] \notin old \cup {None}

\* Request r has a fresh rendition to open, or was not answered 404.
Kept(r) ==
  \/ /\ pc[r] \in Leaving /\ ~err[r] /\ Transcoded(r) /\ answer[r] = 0
     /\ dest[Path(r)] \notin old \cup {None}
  \/ pc[r] \in {"serve", "done", "dead"} /\ answer[r] # 404

\* A step is one of the request's own, or a crash, or leaves its fields alone.
LEMMA OwnStep ==
  ASSUME ShapeInv, [Next]_vars, NEW r \in Requests
  PROVE  \/ Reject(r) \/ Receive(r) \/ Handle(r) \/ OrphanDone(r)
         \/ /\ UNCHANGED <<pc[r], want[r], err[r], out[r], answer[r]>>
            /\ Path(r)' = Path(r) /\ Transcoded(r)' = Transcoded(r)
         \/ /\ UNCHANGED <<want[r], err[r], out[r], answer[r], dest, old>>
            /\ Path(r)' = Path(r) /\ Transcoded(r)' = Transcoded(r)
            /\ pc[r] # "done"
            /\ pc'[r] = "dead" \/ (pc[r] = "run" /\ pc'[r] = "orphan")
<1>. USE DEF Goto, requestVars, lockVars, cacheVars, fileVars, sweepVars
<1>1. ASSUME NEW s \in Requests, s # r, Reject(s) \/ Receive(s) \/ Handle(s) \/ OrphanDone(s)
      PROVE  UNCHANGED <<pc[r], want[r], err[r], out[r], answer[r]>>
  <2>1. CASE Reject(s) \/ Receive(s) \/ OrphanDone(s)
    BY <1>1, <2>1 DEF Reject, Receive, OrphanDone, CloseOutput, ShapeInv, Shape
  <2>2. CASE Load(s) \/ Ref(s) \/ Lock(s) \/ CheckCache(s) \/ AcquireSem(s) \/ ReleaseSem(s)
    BY <1>1, <2>2 DEF Load, Ref, Lock, CheckCache, AcquireSem, ReleaseSem, ShapeInv, Shape
  <2>3. CASE Spawn(s) \/ SpawnFails(s) \/ EncoderDone(s) \/ EncoderFails(s)
    BY <1>1, <2>3 DEF Spawn, SpawnFails, EncoderDone, EncoderFails, ShapeInv, Shape
  <2>4. CASE Remove(s) \/ Rename(s) \/ RenameFails(s)
    BY <1>1, <2>4 DEF Remove, Rename, RenameFails, ShapeInv, Shape
  <2>5. CASE Unlock(s) \/ Unref(s) \/ Delete(s) \/ Fail(s)
    BY <1>1, <2>5 DEF Unlock, Unref, Delete, Fail, ShapeInv, Shape
  <2>6. CASE Open(s) \/ OpenFails(s) \/ Serve(s) \/ StatFails(s)
    BY <1>1, <2>6 DEF Open, OpenFails, Serve, StatFails, ShapeInv, Shape
  <2>. QED
    BY <1>1, <2>1, <2>2, <2>3, <2>4, <2>5, <2>6 DEF Handle
<1>2. CASE Crash
  <2>1. \/ UNCHANGED pc[r]
        \/ /\ pc[r] # "done"
           /\ pc'[r] = "dead" \/ (pc[r] = "run" /\ pc'[r] = "orphan")
    <3>1. r \in InFlight => pc[r] # "done"
      BY DEF InFlight, At
    <3>2. \/ r \notin InFlight /\ pc'[r] = pc[r]
          \/ r \in InFlight /\ pc[r] = "run" /\ pc'[r] = "orphan"
          \/ r \in InFlight /\ pc'[r] = "dead"
      BY <1>2 DEF Crash
    <3>. QED
      BY <3>1, <3>2
  <2>2. UNCHANGED <<want, err, out, answer, dest, old>>
    BY <1>2 DEF Crash, CacheCrash
  <2>. QED
    BY <2>1, <2>2 DEF Path, Track, Format, Transcoded
<1>3. CASE Sweep \/ Age \/ UNCHANGED vars
  <2>1. UNCHANGED <<pc, want, err, out, answer>>
    BY <1>3 DEF Sweep, Age, vars
  <2>. QED
    BY <2>1 DEF Path, Track, Format, Transcoded
<1>4. ASSUME UNCHANGED want[r]
      PROVE  Path(r)' = Path(r) /\ Transcoded(r)' = Transcoded(r)
  BY <1>4 DEF Path, Track, Format, Transcoded
<1>. QED
  BY <1>1, <1>2, <1>3, <1>4 DEF Next, Finished

\* While a request is in flight a fresh rendition of its path stays.
LEMMA FreshStays ==
  ASSUME ShapeInv, FileInv, [Next]_vars, NEW r \in InFlight,
         dest[Path(r)] \notin old \cup {None}
  PROVE  dest'[Path(r)] \notin old' \cup {None}
<1>. USE DEF Goto, requestVars, lockVars, cacheVars, fileVars, sweepVars
<1>. DEFINE p == Path(r)
<1>0. r \in Requests /\ p \in Paths /\ dest \in [Paths -> Requests \cup {None}]
  BY PathType DEF InFlight, At, ShapeInv, Shape, Fields, CacheTypeOK
<1>1. ASSUME NEW s \in Requests, Rename(s)
      PROVE  /\ old' = old
             /\ dest' = [dest EXCEPT ![Path(s)] = tmp[Path(s)]]
             /\ tmp[Path(s)] \notin old \cup {None}
  BY <1>1 DEF Rename, RenameTmp, FileInv, NoneOlder
<1>2. CASE SweepRemove /\ UNCHANGED old
  <2>1. dest' = dest \/ (cur[2] = "dest" /\ dest' = [dest EXCEPT ![cur[1]] = None])
    BY <1>2 DEF SweepRemove
  <2>2. cur[2] = "dest" => dest[cur[1]] \in old
    BY <1>2 DEF SweepRemove, FileInv, StillExpired
  <2>. QED
    BY <1>0, <1>2, <2>1, <2>2
<1>3. ASSUME NEW s \in Requests, Spawn(s)
      PROVE  dest' = dest /\ old' \subseteq old
  BY <1>3 DEF Spawn, OpenOutput
<1>4. ~Age
  BY DEF Age
<1>5. CASE UNCHANGED <<dest, old>>
  BY <1>5
<1>6. \/ \E s \in Requests : Rename(s) \/ Spawn(s)
      \/ SweepRemove /\ UNCHANGED old
      \/ UNCHANGED <<dest, old>>
  BY <1>4
  DEF Next, Handle, Finished, Reject, Receive, Load, Ref, Lock, CheckCache, AcquireSem,
      SpawnFails, EncoderDone, EncoderFails, Remove, RemoveTmp, RenameFails, ReleaseSem, Unlock,
      Unref, Delete, Fail, Open, OpenFails, Serve, StatFails, OrphanDone, CloseOutput, Crash,
      CacheCrash, Sweep, SweepStart, SweepInfo, SweepRemove, SweepRemoveFails, SweepEnd, vars
<1>. QED
  BY <1>0, <1>1, <1>2, <1>3, <1>5, <1>6

LEMMA RequestInit == Init => RequestInv
BY DEF Init, RequestInv, Leaving, Locked, UserLabels, SlotLabels

LEMMA RequestNext == ShapeInv /\ FileInv /\ RequestInv /\ [Next]_vars => RequestInv'
<1>. SUFFICES ASSUME ShapeInv, FileInv, RequestInv, [Next]_vars, NEW r \in Requests
              PROVE  /\ pc'[r] \in NotSpawned => out'[r] = None
                     /\ pc'[r] \in Locked \cup {"load"} => Transcoded(r)'
                     /\ pc'[r] # "done" => answer'[r] = 0
                     /\ pc'[r] \in Leaving \cup {"release"} /\ ~err'[r] /\ out'[r] # None =>
                          dest'[Path(r)'] \notin old' \cup {None}
  BY DEF RequestInv
<1>. USE DEF RequestInv, Leaving, NotSpawned, Locked, UserLabels, SlotLabels
<1>0. /\ pc \in [Requests -> Labels] /\ out \in [Requests -> Requests \cup {None}]
      /\ err \in [Requests -> BOOLEAN] /\ answer \in [Requests -> {0, 200, 400, 404, 500}]
      /\ want \in [Requests -> (Tracks \X Requested) \cup {None}]
      /\ dest \in [Paths -> Requests \cup {None}]
  BY DEF ShapeInv, Shape, CacheTypeOK
<1>1. pc[r] \in Leaving \cup {"release"} => r \in InFlight
  BY DEF InFlight, At
<1>2. CASE Reject(r) \/ Receive(r)
  BY <1>0, <1>2 DEF Reject, Receive, Goto, Transcoded
<1>3. CASE OrphanDone(r)
  BY <1>0, <1>3 DEF OrphanDone, Goto, requestVars
<1>4. ASSUME UNCHANGED want[r]
      PROVE  Path(r)' = Path(r) /\ Transcoded(r)' = Transcoded(r)
  BY <1>4 DEF Path, Track, Format, Transcoded
<1>5. CASE Handle(r)
  <2>. USE <1>0 DEF Goto, requestVars
  <2>1. CASE Load(r) \/ Ref(r) \/ Lock(r) \/ CheckCache(r) \/ AcquireSem(r)
    BY <1>4, <2>1 DEF Load, Ref, Lock, CheckCache, AcquireSem
  <2>2. CASE Spawn(r) \/ SpawnFails(r) \/ EncoderDone(r) \/ EncoderFails(r)
    BY <1>4, <2>2 DEF Spawn, SpawnFails, EncoderDone, EncoderFails
  <2>3. CASE Remove(r) \/ RenameFails(r)
    BY <1>4, <2>3 DEF Remove, RenameFails
  <2>4. CASE Rename(r)
    <3>1. /\ pc'[r] = "release" /\ old' = old /\ Path(r) \in Paths
          /\ dest'[Path(r)] = tmp[Path(r)] /\ tmp[Path(r)] \notin old \cup {None}
      BY <2>4, PathType DEF Rename, RenameTmp, FileInv, NoneOlder, ShapeInv, Fields
    <3>. QED
      BY <1>4, <2>4, <3>1 DEF Rename
  <2>5. CASE ReleaseSem(r) \/ Unlock(r) \/ Unref(r) \/ Delete(r)
    <3>1. pc[r] \in Leaving \cup {"release"} /\ UNCHANGED <<want, err, out, answer>>
      BY <2>5 DEF ReleaseSem, Unlock, Unref, Delete
    <3>2. pc'[r] \in Leaving \cup {"fail"}
      BY <2>5 DEF ReleaseSem, Unlock, Unref, Delete, AfterUnlock
    <3>3. pc[r] = "delete" \/ pc[r] = "unref" \/ pc[r] \in Locked
      BY <3>1, <2>5 DEF ReleaseSem, Unlock, Unref, Delete
    <3>. QED
      BY <1>1, <1>4, <3>1, <3>2, <3>3, FreshStays
  <2>6. CASE Fail(r) \/ Open(r) \/ OpenFails(r) \/ Serve(r) \/ StatFails(r)
    BY <1>4, <2>6 DEF Fail, Open, OpenFails, Serve, StatFails
  <2>. QED
    BY <1>5, <2>1, <2>2, <2>3, <2>4, <2>5, <2>6 DEF Handle
<1>6. CASE /\ UNCHANGED <<pc[r], want[r], err[r], out[r], answer[r]>>
           /\ Path(r)' = Path(r) /\ Transcoded(r)' = Transcoded(r)
  BY <1>1, <1>6, FreshStays
<1>7. CASE /\ UNCHANGED <<want[r], err[r], out[r], answer[r], dest, old>>
           /\ pc[r] # "done" /\ pc'[r] \in {"dead", "orphan"}
  BY <1>7
<1>. QED
  BY <1>2, <1>3, <1>5, <1>6, <1>7, OwnStep

LEMMA KeptNext ==
  ASSUME ShapeInv, FileInv, NEW r \in Requests, Kept(r), [Next]_vars
  PROVE  Kept(r)'
<1>. USE DEF Kept, Leaving, Goto, requestVars
<1>0. /\ pc \in [Requests -> Labels] /\ err \in [Requests -> BOOLEAN]
      /\ answer \in [Requests -> {0, 200, 400, 404, 500}]
  BY DEF ShapeInv, Shape
<1>1. pc[r] \in Leaving => r \in InFlight
  BY DEF InFlight, At
<1>2. ~(Reject(r) \/ Receive(r) \/ OrphanDone(r))
  BY DEF Reject, Receive, OrphanDone
<1>3. ASSUME UNCHANGED want[r]
      PROVE  Path(r)' = Path(r) /\ Transcoded(r)' = Transcoded(r)
  BY <1>3 DEF Path, Track, Format, Transcoded
<1>4. CASE Handle(r)
  <2>1. CASE Unlock(r) \/ Unref(r) \/ Delete(r)
    <3>1. pc[r] \in Leaving /\ UNCHANGED <<want, err, answer>> /\ pc'[r] \in Leaving
      BY <1>0, <2>1 DEF Unlock, Unref, Delete, AfterUnlock
    <3>. QED
      BY <1>1, <1>3, <3>1, FreshStays
  <2>2. CASE Open(r) \/ OpenFails(r) \/ Serve(r) \/ StatFails(r)
    BY <1>0, <2>2 DEF Open, OpenFails, CacheExists, Serve, StatFails
  <2>. QED
    BY <1>4, <2>1, <2>2
    DEF Handle, Load, Ref, Lock, CheckCache, AcquireSem, Spawn, SpawnFails, EncoderDone,
        EncoderFails, Remove, Rename, RenameFails, ReleaseSem, Fail
<1>5. CASE /\ UNCHANGED <<pc[r], want[r], err[r], out[r], answer[r]>>
           /\ Path(r)' = Path(r) /\ Transcoded(r)' = Transcoded(r)
  BY <1>1, <1>5, FreshStays
<1>6. CASE /\ UNCHANGED <<want[r], err[r], out[r], answer[r], dest, old>>
           /\ Path(r)' = Path(r) /\ Transcoded(r)' = Transcoded(r)
           /\ pc[r] # "done"
           /\ pc'[r] = "dead" \/ (pc[r] = "run" /\ pc'[r] = "orphan")
  BY <1>6
<1>. QED
  BY <1>2, <1>4, <1>5, <1>6, OwnStep

-----------------------------------------------------------------------------
(* The theorems.                                                           *)

SafetyInv == ShapeInv /\ CountInv /\ TableInv /\ sem <= Workers

LEMMA SafetyInductive == Spec => []SafetyInv
<1>1. Init => SafetyInv
  BY ShapeInit, CountInit, TableInit, StreamingAssumption DEF SafetyInv, Init
<1>2. SafetyInv /\ [Next]_vars => SafetyInv'
  <2>. SUFFICES ASSUME SafetyInv, [Next]_vars PROVE SafetyInv'
    OBVIOUS
  <2>1. ShapeInv' /\ CountInv' /\ TableInv'
    BY ShapeNext, CountNext, TableNext DEF SafetyInv
  <2>2. sem' \in {sem, sem - 1, 0} \/ (sem < Workers /\ sem' = sem + 1)
    BY DEF Next, Handle, Finished, Reject, Receive, Load, Ref, Lock, CheckCache, AcquireSem,
           Spawn, SpawnFails, EncoderDone, EncoderFails, Remove, Rename, RenameFails, ReleaseSem,
           Unlock, Unref, Delete, Fail, Open, OpenFails, Serve, StatFails, OrphanDone, Crash, Sweep, Age, vars
  <2>3. sem' <= Workers
    BY <2>2, StreamingAssumption DEF SafetyInv, ShapeInv, Shape
  <2>. QED
    BY <2>1, <2>3 DEF SafetyInv
<1>. QED
  BY <1>1, <1>2, PTL DEF Spec

\* Every variable keeps its type; in particular refCount and the number of
\* elements in the semaphore's channel never go below zero.
THEOREM Typing == Spec => []TypeOK
<1>1. SafetyInv => TypeOK
  <2>. SUFFICES ASSUME SafetyInv PROVE TypeOK
    OBVIOUS
  <2>1. sem \in Nat
    BY FiniteRequests DEF SafetyInv, CountInv, SlotsExact, Slots, At
  <2>2. \A l \in Requests : refs[l] \in Nat
    BY FiniteRequests DEF SafetyInv, CountInv, RefsExact, Users, At
  <2>. QED
    BY <2>1, <2>2 DEF SafetyInv, ShapeInv, Shape, TypeOK, LocksTypeOK
<1>. QED
  BY <1>1, SafetyInductive, PTL

\* A semaphore of TRANSCODE_WORKERS elements bounds the ffmpeg processes of
\* the server, for any number of requests and any mix of outcomes: the channel
\* holds exactly one element per request between acquire and release.
THEOREM BoundedEncoders == Spec => []EncodersBounded
<1>1. SafetyInv => EncodersBounded
  <2>. SUFFICES ASSUME SafetyInv PROVE EncodersBounded
    OBVIOUS
  <2>1. At({"run"}) \subseteq Slots /\ Slots \subseteq Requests
    BY DEF At, Slots, SlotLabels
  <2>2. Cardinality(At({"run"})) <= Cardinality(Slots)
    BY <2>1, FiniteRequests, FS_Subset
  <2>3. Cardinality(At({"run"})) \in Nat /\ Cardinality(Slots) \in Nat
    BY <2>1, FiniteRequests
  <2>. QED
    BY <2>2, <2>3, StreamingAssumption
    DEF SafetyInv, CountInv, SlotsExact, EncodersBounded
<1>. QED
  BY <1>1, SafetyInductive, PTL

\* refCount is the number of requests that use the lock.
THEOREM ExactRefs == Spec => []RefsExact
<1>1. SafetyInv => RefsExact
  BY DEF SafetyInv, CountInv
<1>. QED
  BY <1>1, SafetyInductive, PTL

\* unlockForPath leaks no entry of transcodeLocks, in spite of requests that
\* delete the entry of a lock other than theirs.
THEOREM NoLeak == Spec => []NoLeakedLock
<1>1. SafetyInv => NoLeakedLock
  BY DEF SafetyInv, TableInv
<1>. QED
  BY <1>1, SafetyInductive, PTL
\* A client gets its own track in its own format, or the original, whatever
\* encoders failed, crashed or shared a temporary file.
THEOREM OwnFiles == Spec => []OwnRendition
<1>1. ShapeInv /\ FileInv => OwnRendition
  <2>. SUFFICES ASSUME ShapeInv, FileInv, NEW r \in Requests, pc[r] = "serve"
                PROVE  IF Transcoded(r)
                       THEN file[r] # None /\ made[file[r]] = <<Track(r), Format(r)>>
                       ELSE file[r] = None
    BY DEF OwnRendition
  <2>. QED
    BY DEF FileInv, Opened, Path, CachePath
<1>. QED
  BY <1>1, FilesInductive, PTL

\* The sweep takes no lock, and yet nothing but an expired rendition goes: who
\* could put a fresh one in its place would have had to miss the expired one
\* under the path's lock.
THEOREM NothingFreshSwept == Spec => SweepOnlyExpired
<1>1. ShapeInv /\ FileInv /\ [Next]_vars =>
        [\A p \in Paths : dest[p] # None /\ dest'[p] = None => dest[p] \in old]_vars
  <2>. SUFFICES ASSUME ShapeInv, FileInv, [Next]_vars,
                       NEW p \in Paths, dest[p] # None, dest'[p] = None
                PROVE  dest[p] \in old
    OBVIOUS
  <2>1. dest' # dest
    OBVIOUS
  <2>2. ASSUME NEW r \in Requests, Rename(r) PROVE FALSE
    <3>1. Path(r) \in Paths /\ tmp[Path(r)] # None /\ dest' = [dest EXCEPT ![Path(r)] = tmp[Path(r)]]
      BY <2>2, PathType DEF Rename, RenameTmp, Goto, ShapeInv, Fields
    <3>. QED
      BY <3>1 DEF ShapeInv, Shape, CacheTypeOK
  <2>3. SweepRemove
    BY <2>1, <2>2
    DEF Next, Handle, Finished, Reject, Receive, Load, Ref, Lock, CheckCache, AcquireSem, Spawn,
        OpenOutput, SpawnFails, EncoderDone, EncoderFails, Remove, RemoveTmp, RenameFails,
        ReleaseSem, Unlock, Unref, Delete, Fail, Open, OpenFails, Serve, StatFails, OrphanDone, CloseOutput,
        Crash, CacheCrash, Sweep, SweepStart, SweepInfo, SweepRemoveFails, SweepEnd, Age, MonthPasses, vars,
        cacheVars, fileVars
  <2>. QED
    BY <2>3, EntryType DEF SweepRemove, Inode, FileInv, StillExpired, ShapeInv, Shape, CacheTypeOK
<1>. QED
  BY <1>1, FilesInductive, PTL DEF Spec, SweepOnlyExpired

\* Whatever fails, crashes or is swept, a request that made its rendition, or
\* found one that had not expired, is not answered 404: Kept holds from the
\* moment it gives the lock back.
THEOREM FreshFound == Spec => FreshServed
<1>1. Spec => [](ShapeInv /\ FileInv /\ RequestInv)
  BY ShapeInit, FileInit, RequestInit, ShapeNext, FileNext, RequestNext, PTL DEF Spec
<1>. SUFFICES ASSUME NEW r \in Requests
              PROVE  Spec => []( /\ pc[r] = "unlock" /\ ~err[r]
                                 /\ out[r] # None \/ dest[Path(r)] \notin old \cup {None}
                                 => [](answer[r] # 404) )
  BY DEF FreshServed
<1>2. RequestInv =>
        ( /\ pc[r] = "unlock" /\ ~err[r]
          /\ out[r] # None \/ dest[Path(r)] \notin old \cup {None}
          => Kept(r) )
  BY DEF RequestInv, Kept, Leaving, Locked, UserLabels
<1>3. ShapeInv /\ FileInv /\ Kept(r) /\ [Next]_vars => Kept(r)'
  BY KeptNext
<1>4. Kept(r) => answer[r] # 404
  BY DEF Kept
<1>. QED
  BY <1>1, <1>2, <1>3, <1>4, PTL DEF Spec
=============================================================================
