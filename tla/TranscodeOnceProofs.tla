------------------------- MODULE TranscodeOnceProofs -------------------------
(***************************************************************************)
(* When ffmpeg and the file system do not fail, ffmpeg dies with the       *)
(* server and the sweep does not run, the handlers of Streaming implement  *)
(* TranscodeOnce: the lock table may hand two requests different locks for *)
(* a path, but only once the rendition of that path is in the cache.       *)
(***************************************************************************)
EXTENDS StreamingProofs

\* the conditions of the theorems below
Reliable ==
  /\ MayFail = FALSE
  /\ MaySweep = FALSE
  /\ EncoderSurvivesCrash = FALSE

\* holds the mutex; building; has left the critical section successfully
Holding == {"stat", "sem", "spawn", "run", "rename", "release", "unlock"}
Building == {"sem", "spawn", "run", "rename"}
Built == {"release", "unlock", "unref", "delete"}

NothingFails ==
  /\ sweep = "idle"
  /\ \A r \in Requests : pc[r] \notin {"remove", "fail", "orphan"} /\ ~err[r]

\* Until the rendition is there the table keeps the lock everybody has.
OneLock ==
  \A r \in Requests : pc[r] \in Locked /\ dest[Path(r)] = None => lock[r] = table[Path(r)]

Owned == \A r \in Requests : pc[r] \in Holding => owner[lock[r]] = r

Progress ==
  \A r \in Requests :
    /\ pc[r] \in Building => dest[Path(r)] = None
    /\ pc[r] \in Built => dest[Path(r)] # None
    /\ pc[r] = "open" /\ Transcoded(r) => dest[Path(r)] # None
    /\ pc[r] \in Locked \cup {"load"} => Transcoded(r)
    /\ file[r] # None => dest[Path(r)] # None /\ pc[r] \in {"serve", "done", "dead"}

\* An encoder writes the temporary file of its path, alone.
OwnTmp ==
  \A r \in Requests :
    /\ pc[r] \in {"run", "rename"} => out[r] \in Requests /\ tmp[Path(r)] = out[r]
    /\ pc[r] = "run" => content[out[r]] = "partial"
    /\ pc[r] = "rename" => content[out[r]] = "complete"

\* An inode is in one place, under the path it was created for.
Inodes ==
  \A p \in Paths :
    /\ tmp[p] # None => Path(tmp[p]) = p /\ pc[tmp[p]] \notin NotSpawned
    /\ dest[p] # None => /\ Path(dest[p]) = p /\ pc[dest[p]] \notin NotSpawned
                         /\ tmp[p] = None
                         /\ content[dest[p]] = "complete"

OnceInv == NothingFails /\ OneLock /\ Owned /\ Progress /\ OwnTmp /\ Inodes

Inv == ShapeInv /\ TableInv /\ OnceInv

\* Two requests that build the rendition of one path are the same request.
LEMMA OneBuilder ==
  ASSUME Inv, NEW r \in Requests, NEW s \in Requests,
         pc[r] \in Building, pc[s] \in Building, Path(r) = Path(s)
  PROVE  r = s
BY DEF Inv, OnceInv, OneLock, Owned, Progress, Building, Holding, Locked, UserLabels, SlotLabels

LEMMA Stable ==
  ASSUME UNCHANGED want
  PROVE  \A r : Path(r)' = Path(r) /\ Transcoded(r)' = Transcoded(r)
BY DEF Path, Track, Format, Transcoded

LEMMA OnceInit == Init => OnceInv
BY DEF Init, LocksInit, CacheInit, OnceInv, NothingFails, OneLock, Owned, Progress, OwnTmp, Inodes,
       Holding, Building, Built, NotSpawned, Locked, UserLabels, SlotLabels

LEMMA OnceNext ==
  ASSUME Reliable, Inv, [Next]_vars
  PROVE  OnceInv'
<1>. USE DEF Goto, OnceInv, Inv
<1>0. /\ pc \in [Requests -> Labels]
      /\ want \in [Requests -> (Tracks \X Requested) \cup {None}]
      /\ err \in [Requests -> BOOLEAN]
      /\ out \in [Requests -> Requests \cup {None}]
      /\ file \in [Requests -> Requests \cup {None}]
      /\ table \in [Paths -> Requests \cup {None}]
      /\ owner \in [Requests -> Requests \cup {None}]
      /\ lock \in [Requests -> Requests \cup {None}]
      /\ tmp \in [Paths -> Requests \cup {None}]
      /\ dest \in [Paths -> Requests \cup {None}]
      /\ content \in [Requests -> {"partial", "complete", "mixed"}]
      /\ None \notin Requests
  BY LockAssumption DEF ShapeInv, Shape, CacheTypeOK
<1>1. \A r \in Requests : pc[r] \notin {"idle", "done", "dead"} => Path(r) \in Paths
  BY PathType DEF ShapeInv, Fields
<1>2. \A r \in Requests : pc[r] \in Locked => lock[r] \in Requests
  BY DEF ShapeInv, Fields
<1>3. ASSUME NEW r \in Requests, Reject(r) \/ Receive(r) PROVE OnceInv'
  <2>1. \A s \in Requests \ {r} : /\ Path(s)' = Path(s) /\ Transcoded(s)' = Transcoded(s)
                                  /\ pc'[s] = pc[s]
    BY <1>0, <1>3 DEF Reject, Receive, Path, Track, Format, Transcoded
  <2>2. /\ pc[r] = "idle" /\ pc'[r] \in {"load", "open", "done"}
        /\ pc'[r] = "load" => Transcoded(r)'
        /\ pc'[r] = "open" => ~Transcoded(r)'
        /\ UNCHANGED <<err, out, file, lockVars, cacheVars>>
    BY <1>0, <1>3 DEF Reject, Receive, Transcoded
  <2>. USE <1>0, <1>1, <2>1, <2>2 DEF lockVars, cacheVars, fileVars, sweepVars,
         Holding, Building, Built, NotSpawned, Locked, UserLabels, SlotLabels
  <2>3. NothingFails' /\ OneLock' /\ Owned'
    BY DEF NothingFails, OneLock, Owned
  <2>4. Progress' /\ OwnTmp'
    BY DEF Progress, OwnTmp
  <2>5. Inodes'
    BY DEF Inodes
  <2>. QED
    BY <2>3, <2>4, <2>5
<1>4. ASSUME NEW r \in Requests, Load(r) PROVE OnceInv'
  <2>1. \A s : Path(s)' = Path(s) /\ Transcoded(s)' = Transcoded(s)
    BY <1>4, Stable DEF Load, LoadOrStore, requestVars
  <2>. USE <1>0, <1>1, <1>2, <1>4, <2>1 DEF Load, LoadOrStore, requestVars, lockVars, cacheVars,
         fileVars, sweepVars, Holding, Building, Built, NotSpawned, Locked, UserLabels, SlotLabels
  <2>3. NothingFails'
    BY DEF NothingFails, Reliable
  <2>4. OneLock'
    BY DEF OneLock, Progress
  <2>5. Owned'
    BY DEF Owned
  <2>6. Progress'
    BY DEF Progress
  <2>7. OwnTmp'
    BY DEF OwnTmp
  <2>8. Inodes'
    BY DEF Inodes
  <2>. QED
    BY <2>3, <2>4, <2>5, <2>6, <2>7, <2>8

<1>5. ASSUME NEW r \in Requests, Ref(r) PROVE OnceInv'
  <2>1. \A s : Path(s)' = Path(s) /\ Transcoded(s)' = Transcoded(s)
    BY <1>5, Stable DEF Ref, AddRef, requestVars
  <2>. USE <1>0, <1>1, <1>2, <1>5, <2>1 DEF Ref, AddRef, requestVars, lockVars, cacheVars,
         fileVars, sweepVars, Holding, Building, Built, NotSpawned, Locked, UserLabels, SlotLabels
  <2>3. NothingFails'
    BY DEF NothingFails, Reliable
  <2>4. OneLock'
    BY DEF OneLock, Progress
  <2>5. Owned'
    BY DEF Owned
  <2>6. Progress'
    BY DEF Progress
  <2>7. OwnTmp'
    BY DEF OwnTmp
  <2>8. Inodes'
    BY DEF Inodes
  <2>. QED
    BY <2>3, <2>4, <2>5, <2>6, <2>7, <2>8

<1>6. ASSUME NEW r \in Requests, Lock(r) PROVE OnceInv'
  <2>1. \A s : Path(s)' = Path(s) /\ Transcoded(s)' = Transcoded(s)
    BY <1>6, Stable DEF Lock, LockMutex, requestVars
  <2>. USE <1>0, <1>1, <1>2, <1>6, <2>1 DEF Lock, LockMutex, requestVars, lockVars, cacheVars,
         fileVars, sweepVars, Holding, Building, Built, NotSpawned, Locked, UserLabels, SlotLabels
  <2>3. NothingFails'
    BY DEF NothingFails, Reliable
  <2>4. OneLock'
    BY DEF OneLock, Progress
  <2>5. Owned'
    BY DEF Owned
  <2>6. Progress'
    BY DEF Progress
  <2>7. OwnTmp'
    BY DEF OwnTmp
  <2>8. Inodes'
    BY DEF Inodes
  <2>. QED
    BY <2>3, <2>4, <2>5, <2>6, <2>7, <2>8

<1>7. ASSUME NEW r \in Requests, CheckCache(r) PROVE OnceInv'
  <2>1. \A s : Path(s)' = Path(s) /\ Transcoded(s)' = Transcoded(s)
    BY <1>7, Stable DEF CheckCache, CacheExists, requestVars
  <2>. USE <1>0, <1>1, <1>2, <1>7, <2>1 DEF CheckCache, CacheExists, requestVars, lockVars, cacheVars,
         fileVars, sweepVars, Holding, Building, Built, NotSpawned, Locked, UserLabels, SlotLabels
  <2>3. NothingFails'
    BY DEF NothingFails, Reliable
  <2>4. OneLock'
    BY DEF OneLock, Progress
  <2>5. Owned'
    BY DEF Owned
  <2>6. Progress'
    BY DEF Progress
  <2>7. OwnTmp'
    BY DEF OwnTmp
  <2>8. Inodes'
    BY DEF Inodes
  <2>. QED
    BY <2>3, <2>4, <2>5, <2>6, <2>7, <2>8

<1>8. ASSUME NEW r \in Requests, AcquireSem(r) PROVE OnceInv'
  <2>1. \A s : Path(s)' = Path(s) /\ Transcoded(s)' = Transcoded(s)
    BY <1>8, Stable DEF AcquireSem, requestVars
  <2>. USE <1>0, <1>1, <1>2, <1>8, <2>1 DEF AcquireSem, requestVars, lockVars, cacheVars,
         fileVars, sweepVars, Holding, Building, Built, NotSpawned, Locked, UserLabels, SlotLabels
  <2>3. NothingFails'
    BY DEF NothingFails, Reliable
  <2>4. OneLock'
    BY DEF OneLock, Progress
  <2>5. Owned'
    BY DEF Owned
  <2>6. Progress'
    BY DEF Progress
  <2>7. OwnTmp'
    BY DEF OwnTmp
  <2>8. Inodes'
    BY DEF Inodes
  <2>. QED
    BY <2>3, <2>4, <2>5, <2>6, <2>7, <2>8

<1>9. ASSUME NEW r \in Requests, Spawn(r) PROVE OnceInv'
  <2>1. \A s : Path(s)' = Path(s) /\ Transcoded(s)' = Transcoded(s)
    BY <1>9, Stable DEF Spawn, OpenOutput, requestVars
  <2>2. \A t \in Requests \ {r} : pc[t] \in Building => Path(t) # Path(r)
    BY <1>9, OneBuilder DEF Spawn, Building
  <2>. DEFINE i == IF tmp[Path(r)] = None THEN r ELSE tmp[Path(r)]
  <2>9. i \in Requests /\ Path(i) = Path(r)
    BY <1>0, <1>1, <1>9 DEF Spawn, Inodes
  <2>10. \A t \in Requests : pc[t] \in {"run", "rename"} => out[t] # i
    BY <1>0, <1>1, <1>9, <2>2 DEF Spawn, Inodes, OwnTmp, Building, NotSpawned
  <2>11. Writers(i) = {}
    BY <2>10 DEF Writers, Encoders, At, NothingFails
  <2>12. \A p \in Paths : dest[p] # i /\ (p # Path(r) => tmp[p] # i)
    BY <1>0, <1>1, <1>9 DEF Spawn, Inodes, NotSpawned
  <2>13. /\ tmp' = [tmp EXCEPT ![Path(r)] = i]
         /\ content' = [content EXCEPT ![i] = "partial"]
         /\ out' = [out EXCEPT ![r] = i]
         /\ pc' = [pc EXCEPT ![r] = "run"]
         /\ UNCHANGED dest
    BY <1>9, <2>11 DEF Spawn, OpenOutput
  <2>14. pc'[i] \notin NotSpawned /\ dest[Path(r)] = None
    BY <1>0, <1>1, <1>9, <2>13 DEF Spawn, Inodes, Progress, NotSpawned, Building
  <2>. HIDE DEF i
  <2>. USE <1>0, <1>1, <1>2, <1>9, <2>1 DEF Spawn, OpenOutput, requestVars, lockVars, cacheVars,
         fileVars, sweepVars, Holding, Building, Built, NotSpawned, Locked, UserLabels, SlotLabels
  <2>3. NothingFails'
    BY DEF NothingFails, Reliable
  <2>4. OneLock'
    BY DEF OneLock, Progress
  <2>5. Owned'
    BY DEF Owned
  <2>6. Progress'
    BY DEF Progress
  <2>7. OwnTmp'
    <3>1. ASSUME NEW t \in Requests, t # r, pc[t] \in {"run", "rename"}
          PROVE  out'[t] = out[t] /\ tmp'[Path(t)] = tmp[Path(t)] /\ content'[out[t]] = content[out[t]]
      BY <2>2, <2>9, <2>10, <2>13, <3>1 DEF OwnTmp
    <3>. QED
      BY <2>9, <2>13, <3>1 DEF OwnTmp
  <2>8. Inodes'
    BY <2>9, <2>12, <2>13, <2>14 DEF Inodes
  <2>. QED
    BY <2>3, <2>4, <2>5, <2>6, <2>7, <2>8

<1>10. ASSUME NEW r \in Requests, EncoderDone(r) PROVE OnceInv'
  <2>1. \A s : Path(s)' = Path(s) /\ Transcoded(s)' = Transcoded(s)
    BY <1>10, Stable DEF EncoderDone, CloseOutput, requestVars
  <2>2. \A t \in Requests \ {r} : pc[t] \in Building => Path(t) # Path(r)
    BY <1>10, OneBuilder DEF EncoderDone, Building
  <2>9. \A t \in Requests \ {r} : pc[t] \in {"run", "rename"} => out[t] # out[r]
    BY <1>0, <1>1, <1>10, <2>2 DEF EncoderDone, Inodes, OwnTmp, Building
  <2>. USE <1>0, <1>1, <1>2, <1>10, <2>1 DEF EncoderDone, CloseOutput, requestVars, lockVars, cacheVars,
         fileVars, sweepVars, Holding, Building, Built, NotSpawned, Locked, UserLabels, SlotLabels
  <2>3. NothingFails'
    BY DEF NothingFails, Reliable
  <2>4. OneLock'
    BY DEF OneLock, Progress
  <2>5. Owned'
    BY DEF Owned
  <2>6. Progress'
    BY DEF Progress
  <2>7. OwnTmp'
    BY <2>2, <2>9 DEF OwnTmp
  <2>8. Inodes'
    BY DEF Inodes
  <2>. QED
    BY <2>3, <2>4, <2>5, <2>6, <2>7, <2>8

<1>11. ASSUME NEW r \in Requests, Rename(r) PROVE OnceInv'
  <2>1. \A s : Path(s)' = Path(s) /\ Transcoded(s)' = Transcoded(s)
    BY <1>11, Stable DEF Rename, RenameTmp, requestVars
  <2>2. \A t \in Requests \ {r} : pc[t] \in Building => Path(t) # Path(r)
    BY <1>11, OneBuilder DEF Rename, Building
  <2>. USE <1>0, <1>1, <1>2, <1>11, <2>1 DEF Rename, RenameTmp, requestVars, lockVars, cacheVars,
         fileVars, sweepVars, Holding, Building, Built, NotSpawned, Locked, UserLabels, SlotLabels
  <2>3. NothingFails'
    BY DEF NothingFails, Reliable
  <2>4. OneLock'
    BY DEF OneLock, Progress
  <2>5. Owned'
    BY DEF Owned
  <2>6. Progress'
    BY <2>2 DEF Progress
  <2>7. OwnTmp'
    BY <2>2 DEF OwnTmp
  <2>8. Inodes'
    BY <2>2 DEF Inodes, OwnTmp
  <2>. QED
    BY <2>3, <2>4, <2>5, <2>6, <2>7, <2>8

<1>12. ASSUME NEW r \in Requests, ReleaseSem(r) PROVE OnceInv'
  <2>1. \A s : Path(s)' = Path(s) /\ Transcoded(s)' = Transcoded(s)
    BY <1>12, Stable DEF ReleaseSem, requestVars
  <2>. USE <1>0, <1>1, <1>2, <1>12, <2>1 DEF ReleaseSem, requestVars, lockVars, cacheVars,
         fileVars, sweepVars, Holding, Building, Built, NotSpawned, Locked, UserLabels, SlotLabels
  <2>3. NothingFails'
    BY DEF NothingFails, Reliable
  <2>4. OneLock'
    BY DEF OneLock, Progress
  <2>5. Owned'
    BY DEF Owned
  <2>6. Progress'
    BY DEF Progress
  <2>7. OwnTmp'
    BY DEF OwnTmp
  <2>8. Inodes'
    BY DEF Inodes
  <2>. QED
    BY <2>3, <2>4, <2>5, <2>6, <2>7, <2>8

<1>13. ASSUME NEW r \in Requests, Unlock(r) PROVE OnceInv'
  <2>1. \A s : Path(s)' = Path(s) /\ Transcoded(s)' = Transcoded(s)
    BY <1>13, Stable DEF Unlock, UnlockMutex, requestVars
  <2>. USE <1>0, <1>1, <1>2, <1>13, <2>1 DEF Unlock, UnlockMutex, requestVars, lockVars, cacheVars,
         fileVars, sweepVars, Holding, Building, Built, NotSpawned, Locked, UserLabels, SlotLabels
  <2>3. NothingFails'
    BY DEF NothingFails, Reliable
  <2>4. OneLock'
    BY DEF OneLock, Progress
  <2>5. Owned'
    BY DEF Owned
  <2>6. Progress'
    BY DEF Progress
  <2>7. OwnTmp'
    BY DEF OwnTmp
  <2>8. Inodes'
    BY DEF Inodes
  <2>. QED
    BY <2>3, <2>4, <2>5, <2>6, <2>7, <2>8

<1>14. ASSUME NEW r \in Requests, Unref(r) PROVE OnceInv'
  <2>1. \A s : Path(s)' = Path(s) /\ Transcoded(s)' = Transcoded(s)
    BY <1>14, Stable DEF Unref, DropRef, AfterUnlock, requestVars
  <2>. USE <1>0, <1>1, <1>2, <1>14, <2>1 DEF Unref, DropRef, AfterUnlock, requestVars, lockVars, cacheVars,
         fileVars, sweepVars, Holding, Building, Built, NotSpawned, Locked, UserLabels, SlotLabels
  <2>3. NothingFails'
    BY DEF NothingFails, Reliable
  <2>4. OneLock'
    BY DEF OneLock, Progress
  <2>5. Owned'
    BY DEF Owned
  <2>6. Progress'
    BY DEF Progress
  <2>7. OwnTmp'
    BY DEF OwnTmp
  <2>8. Inodes'
    BY DEF Inodes
  <2>. QED
    BY <2>3, <2>4, <2>5, <2>6, <2>7, <2>8

<1>15. ASSUME NEW r \in Requests, Delete(r) PROVE OnceInv'
  <2>1. \A s : Path(s)' = Path(s) /\ Transcoded(s)' = Transcoded(s)
    BY <1>15, Stable DEF Delete, DeleteLock, AfterUnlock, requestVars
  <2>. USE <1>0, <1>1, <1>2, <1>15, <2>1 DEF Delete, DeleteLock, AfterUnlock, requestVars, lockVars, cacheVars,
         fileVars, sweepVars, Holding, Building, Built, NotSpawned, Locked, UserLabels, SlotLabels
  <2>3. NothingFails'
    BY DEF NothingFails, Reliable
  <2>4. OneLock'
    BY DEF OneLock, Progress
  <2>5. Owned'
    BY DEF Owned
  <2>6. Progress'
    BY DEF Progress
  <2>7. OwnTmp'
    BY DEF OwnTmp
  <2>8. Inodes'
    BY DEF Inodes
  <2>. QED
    BY <2>3, <2>4, <2>5, <2>6, <2>7, <2>8

<1>16. ASSUME NEW r \in Requests, Open(r) PROVE OnceInv'
  <2>1. \A s : Path(s)' = Path(s) /\ Transcoded(s)' = Transcoded(s)
    BY <1>16, Stable DEF Open, CacheExists, requestVars
  <2>. USE <1>0, <1>1, <1>2, <1>16, <2>1 DEF Open, CacheExists, requestVars, lockVars, cacheVars,
         fileVars, sweepVars, Holding, Building, Built, NotSpawned, Locked, UserLabels, SlotLabels
  <2>3. NothingFails'
    BY DEF NothingFails, Reliable
  <2>4. OneLock'
    BY DEF OneLock, Progress
  <2>5. Owned'
    BY DEF Owned
  <2>6. Progress'
    BY DEF Progress
  <2>7. OwnTmp'
    BY DEF OwnTmp
  <2>8. Inodes'
    BY DEF Inodes
  <2>. QED
    BY <2>3, <2>4, <2>5, <2>6, <2>7, <2>8

<1>17. ASSUME NEW r \in Requests, Serve(r) \/ StatFails(r) \/ OpenFails(r) PROVE OnceInv'
  <2>1. \A s : Path(s)' = Path(s) /\ Transcoded(s)' = Transcoded(s)
    BY <1>17, Stable DEF Serve, StatFails, OpenFails, requestVars
  <2>. USE <1>0, <1>1, <1>2, <1>17, <2>1 DEF Serve, StatFails, OpenFails, requestVars, lockVars, cacheVars,
         fileVars, sweepVars, Holding, Building, Built, NotSpawned, Locked, UserLabels, SlotLabels
  <2>3. NothingFails'
    BY DEF NothingFails, Reliable
  <2>4. OneLock'
    BY DEF OneLock, Progress
  <2>5. Owned'
    BY DEF Owned
  <2>6. Progress'
    BY DEF Progress
  <2>7. OwnTmp'
    BY DEF OwnTmp
  <2>8. Inodes'
    BY DEF Inodes
  <2>. QED
    BY <2>3, <2>4, <2>5, <2>6, <2>7, <2>8

<1>18. CASE Crash
  <2>1. \A s : Path(s)' = Path(s) /\ Transcoded(s)' = Transcoded(s)
    BY <1>18, Stable DEF Crash, LocksCrash, CacheCrash, SweepIdle, InFlight, At, requestVars
  <2>. USE <1>0, <1>1, <1>2, <1>18, <2>1 DEF Crash, LocksCrash, CacheCrash, SweepIdle, InFlight, At, requestVars, lockVars, cacheVars,
         fileVars, sweepVars, Holding, Building, Built, NotSpawned, Locked, UserLabels, SlotLabels
  <2>3. NothingFails'
    BY DEF NothingFails, Reliable
  <2>4. OneLock'
    BY DEF OneLock, Progress
  <2>5. Owned'
    BY DEF Owned
  <2>6. Progress'
    BY DEF Progress
  <2>7. OwnTmp'
    BY DEF OwnTmp
  <2>8. Inodes'
    BY DEF Inodes
  <2>. QED
    BY <2>3, <2>4, <2>5, <2>6, <2>7, <2>8

<1>19. CASE Sweep \/ Age \/ UNCHANGED vars
  <2>1. UNCHANGED vars \/ (UNCHANGED <<pc, requestVars, sem, lockVars, fileVars>> /\ sweep' = "idle")
    BY <1>19 DEF Sweep, SweepStart, SweepInfo, SweepRemove, SweepRemoveFails, SweepEnd, SweepIdle, Age, MonthPasses,
                 NothingFails, Reliable
  <2>2. \A r : Path(r)' = Path(r) /\ Transcoded(r)' = Transcoded(r)
    BY <2>1, Stable DEF vars, requestVars
  <2>. QED
    BY <2>1, <2>2 DEF vars, requestVars, lockVars, cacheVars, fileVars, sweepVars, NothingFails,
                      OneLock, Owned, Progress, OwnTmp, Inodes
<1>20. \A r \in Requests : ~(Remove(r) \/ Fail(r) \/ OrphanDone(r) \/ SpawnFails(r) \/ EncoderFails(r)
                              \/ RenameFails(r))
  BY <1>0 DEF NothingFails, Reliable, OwnTmp, Remove, Fail, OrphanDone, SpawnFails, EncoderFails,
         RenameFails
<1>. QED
  BY <1>3, <1>4, <1>5, <1>6, <1>7, <1>8, <1>9, <1>10, <1>11, <1>12, <1>13, <1>14, <1>15, <1>16,
     <1>17, <1>18, <1>19, <1>20
  DEF Next, Handle, Finished

-----------------------------------------------------------------------------
(* The theorems.                                                           *)

LEMMA OnceInductive ==
  ASSUME Reliable
  PROVE  Spec => []Inv
<1>1. Init => Inv
  BY ShapeInit, TableInit, OnceInit DEF Inv
<1>2. SafetyInv /\ Inv /\ [Next]_vars => Inv'
  BY ShapeNext, TableNext, OnceNext DEF SafetyInv, Inv
<1>. QED
  BY <1>1, <1>2, SafetyInductive, PTL DEF Spec

\* With nothing failing, concurrent requests for a path never run two ffmpeg
\* processes on it, however their steps interleave and whenever the server
\* crashes and comes back.
THEOREM OneEncoder ==
  ASSUME Reliable
  PROVE  Spec => []SingleEncoder
<1>1. Inv => SingleEncoder
  BY OneBuilder DEF Inv, OnceInv, NothingFails, SingleEncoder, Encoders, At, Building
<1>. QED
  BY <1>1, OnceInductive, PTL

\* With nothing failing, a file at destPath is the whole output of ffmpeg,
\* also after crashes that leave temporary files behind.
THEOREM WholeFiles ==
  ASSUME Reliable
  PROVE  Spec => []DestComplete
<1>1. Inv => DestComplete
  BY DEF Inv, OnceInv, Inodes, DestComplete
<1>. QED
  BY <1>1, OnceInductive, PTL

builders == [p \in Paths |-> {r \in At({"spawn", "run", "rename"}) : Path(r) = p}]
ready == {p \in Paths : dest[p] # None}
got == {<<r, Path(r)>> : r \in {q \in Requests : file[q] # None}}

\* A step that changes nothing TranscodeOnce speaks of.
LEMMA OnceStutter ==
  ASSUME UNCHANGED dest,
         \A r \in Requests :
           /\ pc[r] \in {"spawn", "run", "rename"} <=> pc'[r] \in {"spawn", "run", "rename"}
           /\ pc[r] \in {"spawn", "run", "rename"} \/ file[r] # None => Path(r)' = Path(r)
           /\ file[r] # None <=> file'[r] # None
  PROVE  UNCHANGED <<builders, ready, got>>
BY DEF builders, ready, got, At

LEMMA OnceStep ==
  ASSUME Reliable, Inv, [Next]_vars
  PROVE  [Once!Next]_(Once!vars)
<1>. USE DEF Goto
<1>0. /\ pc \in [Requests -> Labels]
      /\ file \in [Requests -> Requests \cup {None}]
      /\ dest \in [Paths -> Requests \cup {None}]
      /\ tmp \in [Paths -> Requests \cup {None}]
      /\ want \in [Requests -> (Tracks \X Requested) \cup {None}]
      /\ None \notin Requests
      /\ Progress
      /\ \A r \in Requests : pc[r] \notin {"idle", "done", "dead"} => Path(r) \in Paths
  BY PathType, LockAssumption DEF Inv, OnceInv, ShapeInv, Shape, Fields, CacheTypeOK
<1>1. ASSUME NEW r \in Requests, AcquireSem(r) PROVE Once!Build(r, Path(r))
  <2>1. \A t : Path(t)' = Path(t)
    BY <1>1, Stable DEF AcquireSem, requestVars
  <2>2. \A t \in Requests \ {r} : pc[t] \in Building => Path(t) # Path(r)
    BY <1>1, OneBuilder DEF AcquireSem, Building
  <2>3. builders[Path(r)] = {} /\ Path(r) \notin ready
    BY <1>0, <1>1, <2>2 DEF AcquireSem, builders, ready, At, Building, Progress
  <2>4. builders' = [builders EXCEPT ![Path(r)] = {r}]
    <3>1. At({"spawn", "run", "rename"})' = At({"spawn", "run", "rename"}) \cup {r}
      BY <1>0, <1>1 DEF AcquireSem, At
    <3>2. \A p : {t \in At({"spawn", "run", "rename"})' : Path(t)' = p}
                = IF p = Path(r) THEN {r} ELSE {t \in At({"spawn", "run", "rename"}) : Path(t) = p}
      BY <2>1, <2>2, <3>1 DEF At, Building
    <3>. QED
      BY <1>0, <1>1, <3>2 DEF AcquireSem, builders
  <2>5. UNCHANGED <<ready, got>>
    BY <1>1, <2>1 DEF AcquireSem, ready, got, requestVars, cacheVars, fileVars
  <2>. QED
    BY <2>3, <2>4, <2>5 DEF Once!Build, builders, ready, got
<1>2. ASSUME NEW r \in Requests, Rename(r) PROVE Once!Publish(r, Path(r))
  <2>1. \A t : Path(t)' = Path(t)
    BY <1>2, Stable DEF Rename, requestVars
  <2>2. \A t \in Requests \ {r} : pc[t] \in Building => Path(t) # Path(r)
    BY <1>2, OneBuilder DEF Rename, Building
  <2>3. builders[Path(r)] = {r}
    BY <1>0, <1>2, <2>2 DEF Rename, builders, At, Building
  <2>4. builders' = [builders EXCEPT ![Path(r)] = {}]
    <3>1. At({"spawn", "run", "rename"})' = At({"spawn", "run", "rename"}) \ {r}
      BY <1>0, <1>2 DEF Rename, At
    <3>2. \A p : {t \in At({"spawn", "run", "rename"})' : Path(t)' = p}
                = IF p = Path(r) THEN {} ELSE {t \in At({"spawn", "run", "rename"}) : Path(t) = p}
      BY <2>1, <2>2, <3>1 DEF At, Building
    <3>. QED
      BY <1>0, <1>2, <3>2 DEF Rename, builders
  <2>5. ready' = ready \cup {Path(r)}
    BY <1>0, <1>2 DEF Rename, RenameTmp, ready
  <2>6. got' = got
    BY <1>2, <2>1 DEF Rename, got, requestVars
  <2>. QED
    BY <2>3, <2>4, <2>5, <2>6 DEF Once!Publish, builders, ready, got
<1>3. ASSUME NEW r \in Requests, Open(r), Transcoded(r) PROVE Once!Serve(r, Path(r))
  <2>1. \A t : Path(t)' = Path(t)
    BY <1>3, Stable DEF Open
  <2>2. Path(r) \in ready
    BY <1>0, <1>3 DEF Open, ready, CacheExists
  <2>3. {q \in Requests : file'[q] # None} = {q \in Requests : file[q] # None} \cup {r}
    BY <1>0, <1>3 DEF Open, CacheExists
  <2>4. got' = got \cup {<<r, Path(r)>>}
    BY <2>1, <2>3 DEF got
  <2>5. UNCHANGED <<builders, ready>>
    BY <1>0, <1>3, <2>1 DEF Open, builders, ready, At, cacheVars, fileVars
  <2>. QED
    BY <2>2, <2>4, <2>5 DEF Once!Serve, builders, ready, got
<1>4. CASE Crash
  <2>1. \A t : Path(t)' = Path(t)
    BY <1>4, Stable DEF Crash, requestVars
  <2>2. builders' = [p \in Paths |-> {}]
    BY <1>0, <1>4 DEF Crash, builders, At, InFlight
  <2>3. UNCHANGED <<ready, got>>
    BY <1>4, <2>1 DEF Crash, CacheCrash, ready, got, requestVars, fileVars
  <2>. QED
    BY <2>2, <2>3 DEF Once!Next, Once!Crash, builders, ready, got
<1>5. ASSUME NEW r \in Requests,
             \/ Reject(r) \/ Receive(r) \/ Load(r) \/ Ref(r) \/ Lock(r) \/ CheckCache(r)
             \/ Spawn(r) \/ SpawnFails(r) \/ EncoderDone(r) \/ EncoderFails(r) \/ Remove(r)
             \/ RenameFails(r) \/ ReleaseSem(r) \/ Unlock(r) \/ Unref(r) \/ Delete(r)
             \/ Fail(r) \/ (Open(r) /\ ~Transcoded(r)) \/ OpenFails(r) \/ Serve(r) \/ StatFails(r)
             \/ OrphanDone(r)
      PROVE  UNCHANGED <<builders, ready, got>>
  <2>1. CASE Reject(r) \/ Receive(r)
    <3>1. \A t \in Requests \ {r} : Path(t)' = Path(t)
      BY <1>0, <2>1 DEF Reject, Receive, Path, Track, Format
    <3>. QED
      BY <1>0, <2>1, <3>1, OnceStutter DEF Reject, Receive, Progress, cacheVars, fileVars
  <2>2. ~(SpawnFails(r) \/ EncoderFails(r) \/ Remove(r) \/ RenameFails(r) \/ Fail(r) \/ OrphanDone(r))
    BY <1>0 DEF Inv, OnceInv, NothingFails, Reliable, OwnTmp, Remove, Fail, OrphanDone, SpawnFails,
           EncoderFails, RenameFails
  <2>3. CASE Load(r) \/ Ref(r) \/ Lock(r) \/ CheckCache(r) \/ Unlock(r) \/ Unref(r) \/ Delete(r)
    <3>1. \A t : Path(t)' = Path(t)
      BY <2>3, Stable DEF Load, Ref, Lock, CheckCache, Unlock, Unref, Delete, requestVars
    <3>. QED
      BY <1>0, <2>3, <3>1, OnceStutter
      DEF Load, Ref, Lock, CheckCache, Unlock, Unref, Delete, AfterUnlock, requestVars,
          cacheVars, fileVars
  <2>4. CASE Spawn(r) \/ EncoderDone(r) \/ ReleaseSem(r) \/ OpenFails(r) \/ Serve(r) \/ StatFails(r)
    <3>1. \A t : Path(t)' = Path(t)
      BY <2>4, Stable DEF Spawn, EncoderDone, ReleaseSem, OpenFails, Serve, StatFails, requestVars
    <3>. QED
      BY <1>0, <2>4, <3>1, OnceStutter
      DEF Spawn, OpenOutput, EncoderDone, CloseOutput, ReleaseSem, OpenFails, Serve, StatFails, requestVars,
          cacheVars, fileVars
  <2>5. CASE Open(r) /\ ~Transcoded(r)
    <3>1. \A t : Path(t)' = Path(t)
      BY <2>5, Stable DEF Open
    <3>. QED
      BY <1>0, <2>5, <3>1, OnceStutter DEF Open, Progress, cacheVars, fileVars
  <2>. QED
    BY <1>5, <2>1, <2>2, <2>3, <2>4, <2>5
<1>6. CASE Sweep \/ Age \/ UNCHANGED vars
  <2>1. UNCHANGED <<pc, want, file, dest>>
    BY <1>6 DEF Sweep, SweepStart, SweepInfo, SweepRemove, SweepRemoveFails, SweepEnd, Age, MonthPasses, vars,
                requestVars, cacheVars, fileVars, Inv, OnceInv, NothingFails, Reliable
  <2>. QED
    BY <2>1, Stable, OnceStutter DEF Once!vars, builders, ready, got
<1>7. ASSUME NEW r \in Requests, Reject(r) \/ Receive(r) \/ Handle(r) \/ OrphanDone(r)
      PROVE  [Once!Next]_(Once!vars)
  <2>1. CASE AcquireSem(r) \/ Rename(r) \/ (Open(r) /\ Transcoded(r))
    <3>1. Path(r) \in Paths
      BY <1>0, <2>1 DEF AcquireSem, Rename, Open
    <3>2. \/ Once!Build(r, Path(r))
          \/ Once!Publish(r, Path(r))
          \/ Once!Serve(r, Path(r))
      BY <1>1, <1>2, <1>3, <2>1
    <3>3. Once!Next
      BY <3>1, <3>2 DEF Once!Next, Once!Build, Once!Publish, Once!Serve
    <3>. QED
      BY <3>3
  <2>2. CASE ~(AcquireSem(r) \/ Rename(r) \/ (Open(r) /\ Transcoded(r)))
    <3>1. UNCHANGED <<builders, ready, got>>
      BY <1>5, <1>7, <2>2 DEF Handle
    <3>. QED
      BY <3>1 DEF Once!vars, builders, ready, got
  <2>. QED
    BY <2>1, <2>2
<1>. QED
  BY <1>4, <1>6, <1>7 DEF Next, Finished

\* With nothing failing, the handlers implement TranscodeOnce.
THEOREM Refinement ==
  ASSUME Reliable
  PROVE  Spec => RefinesOnce
<1>1. Init => Once!Init
  BY DEF Init, CacheInit, Once!Init, At
<1>2. Inv /\ [Next]_vars => [Once!Next]_(Once!vars)
  BY OnceStep
<1>. QED
  BY <1>1, <1>2, OnceInductive, PTL DEF Spec, RefinesOnce, Once!Spec
=============================================================================
