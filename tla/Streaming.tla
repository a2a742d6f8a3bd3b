------------------------------ MODULE Streaming ------------------------------
(***************************************************************************)
(* GET /rest/stream: StreamHandler running concurrently for several        *)
(* requests, with the lock table, the transcode semaphore, the ffmpeg      *)
(* processes it spawns, the cache directory, the daily sweep, and crashes  *)
(* of the server.                                                          *)
(*                                                                         *)
(* A label of pc names the call a request makes next:                      *)
(*   idle, load, ref, lock, stat, sem, spawn, run, rename, remove,         *)
(*   release, unlock, unref, delete, fail, open, serve, done               *)
(* dead is a request whose server crashed, orphan one whose ffmpeg lives   *)
(* on after that.                                                          *)
(***************************************************************************)
EXTENDS TranscodeCache, FiniteSets

CONSTANTS Workers,               \* TRANSCODE_WORKERS, the semaphore's capacity
          MayCrash,              \* whether the server may crash
          EncoderSurvivesCrash   \* whether ffmpeg outlives a crashed server

ASSUME StreamingAssumption ==
  /\ Workers \in Nat
  /\ IsFiniteSet(Requests)

VARIABLES pc,       \* the label of each request
          want,     \* the <<track, format parameter>> of each request
          err,      \* whether Transcode returned an error to the request
          sem,      \* the number of elements in the channel TranscodeSem
          out,      \* the inode each request's encoder opened, or None
          file,     \* the cache file each request opened, or None
          answer    \* the HTTP status of each request, 0 before there is one

requestVars == <<want, err, out, file, answer>>
vars == <<pc, requestVars, sem, lockVars, cacheVars>>

Labels == {"idle", "load", "ref", "lock", "stat", "sem", "spawn", "run", "rename",
           "remove", "release", "unlock", "unref", "delete", "fail", "open",
           "serve", "done", "dead", "orphan"}

At(labels) == {r \in Requests : pc[r] \in labels}

SlotLabels == {"spawn", "run", "rename", "remove", "release"}
UserLabels == {"lock", "stat", "sem", "unlock", "unref"} \cup SlotLabels
Locked == {"ref", "delete"} \cup UserLabels

InFlight == Requests \ At({"idle", "done", "dead", "orphan"})
Slots == At(SlotLabels)
Encoders == At({"run", "orphan"})
Users(l) == {r \in At(UserLabels) : lock[r] = l}

Track(r) == want[r][1]
Format(r) == ResolveFormat(want[r][2])
Transcoded(r) == NeedsTranscode(want[r][1], want[r][2])
Path(r) == CachePath(Track(r), Format(r))
Writers(i) == {r \in Encoders : out[r] = i}

Goto(r, from, to) == pc[r] = from /\ pc' = [pc EXCEPT ![r] = to]

Init ==
  /\ pc = [r \in Requests |-> "idle"]
  /\ want = [r \in Requests |-> None]
  /\ err = [r \in Requests |-> FALSE]
  /\ sem = 0
  /\ out = [r \in Requests |-> None]
  /\ file = [r \in Requests |-> None]
  /\ answer = [r \in Requests |-> 0]
  /\ LocksInit
  /\ CacheInit

-----------------------------------------------------------------------------
(* StreamHandler up to the cache path.                                     *)

\* a missing or malformed id, or one GetTrack does not find
Reject(r) ==
  /\ Goto(r, "idle", "done")
  /\ \E status \in {400, 404} : answer' = [answer EXCEPT ![r] = status]
  /\ UNCHANGED <<want, err, out, file, sem, lockVars, cacheVars>>

\* GetTrack finds the track and the request is passed through or transcoded
Receive(r) ==
  /\ \E track \in Tracks, requested \in Requested :
       /\ want' = [want EXCEPT ![r] = <<track, requested>>]
       /\ Goto(r, "idle", IF NeedsTranscode(track, requested) THEN "load" ELSE "open")
  /\ UNCHANGED <<err, out, file, answer, sem, lockVars, cacheVars>>

-----------------------------------------------------------------------------
(* lockForPath, and the decision under the lock.                           *)

Load(r) ==
  /\ Goto(r, "load", "ref")
  /\ LoadOrStore(r, Path(r))
  /\ UNCHANGED <<requestVars, sem, cacheVars>>

Ref(r) ==
  /\ Goto(r, "ref", "lock")
  /\ AddRef(r)
  /\ UNCHANGED <<requestVars, sem, cacheVars>>

Lock(r) ==
  /\ Goto(r, "lock", "stat")
  /\ LockMutex(r)
  /\ UNCHANGED <<requestVars, sem, cacheVars>>

\* mutant: the cache is not looked at again under the lock
CheckCacheAlways(r) ==
  /\ Goto(r, "stat", "sem")
  /\ UNCHANGED <<requestVars, sem, lockVars, cacheVars>>

CheckCache(r) ==
  /\ Goto(r, "stat", IF CacheExists(Path(r)) THEN "unlock" ELSE "sem")
  /\ UNCHANGED <<requestVars, sem, lockVars, cacheVars>>

\* mutant: no semaphore
AcquireSemUnbounded(r) ==
  /\ Goto(r, "sem", "spawn")
  /\ sem' = sem + 1
  /\ UNCHANGED <<requestVars, lockVars, cacheVars>>

\* the send on TranscodeSem: the path's lock is held while it blocks
AcquireSem(r) ==
  /\ Goto(r, "sem", "spawn")
  /\ sem < Workers
  /\ sem' = sem + 1
  /\ UNCHANGED <<requestVars, lockVars, cacheVars>>

-----------------------------------------------------------------------------
(* Transcode: the life of ffmpeg, then the rename or the clean-up.         *)

\* ffmpeg opens "<path>.tmp", creating it unless some encoder left one there
Spawn(r) ==
  LET p == Path(r)
      i == IF tmp[p] = None THEN r ELSE tmp[p]
  IN  /\ Goto(r, "spawn", "run")
      /\ OpenOutput(i, p, <<Track(r), Format(r)>>, Writers(i))
      /\ out' = [out EXCEPT ![r] = i]
      /\ UNCHANGED <<want, err, file, answer, sem, lockVars>>

\* ffmpeg cannot start or cannot read the source: it writes nothing
SpawnFails(r) ==
  /\ MayFail
  /\ Goto(r, "spawn", "remove")
  /\ UNCHANGED <<requestVars, sem, lockVars, cacheVars>>

EncoderDone(r) ==
  /\ Goto(r, "run", "rename")
  /\ CloseOutput(out[r])
  /\ UNCHANGED <<requestVars, sem, lockVars>>

EncoderFails(r) ==
  /\ MayFail
  /\ Goto(r, "run", "remove")
  /\ UNCHANGED <<requestVars, sem, lockVars, cacheVars>>

\* mutant: the error of a failed ffmpeg is dropped
RemoveDropsError(r) ==
  /\ Goto(r, "remove", "release")
  /\ RemoveTmp(Path(r))
  /\ UNCHANGED <<requestVars, sem, lockVars>>

\* mutant: the error path returns without the deferred release
RemoveKeepsSlot(r) ==
  /\ Goto(r, "remove", "unlock")
  /\ RemoveTmp(Path(r))
  /\ err' = [err EXCEPT ![r] = TRUE]
  /\ UNCHANGED <<want, out, file, answer, sem, lockVars>>

Remove(r) ==
  /\ Goto(r, "remove", "release")
  /\ RemoveTmp(Path(r))
  /\ err' = [err EXCEPT ![r] = TRUE]
  /\ UNCHANGED <<want, out, file, answer, sem, lockVars>>

Rename(r) ==
  /\ Goto(r, "rename", "release")
  /\ RenameTmp(Path(r))
  /\ UNCHANGED <<requestVars, sem, lockVars>>

\* the temporary file is gone, or the file system refuses
RenameFails(r) ==
  /\ Goto(r, "rename", "release")
  /\ tmp[Path(r)] = None \/ MayFail
  /\ err' = [err EXCEPT ![r] = TRUE]
  /\ UNCHANGED <<want, out, file, answer, sem, lockVars, cacheVars>>

ReleaseSem(r) ==
  /\ Goto(r, "release", "unlock")
  /\ sem' = sem - 1
  /\ UNCHANGED <<requestVars, lockVars, cacheVars>>

-----------------------------------------------------------------------------
(* unlockForPath, on the path that failed and on the one that did not.     *)

AfterUnlock(r) == IF err[r] THEN "fail" ELSE "open"

Unlock(r) ==
  /\ Goto(r, "unlock", "unref")
  /\ UnlockMutex(r)
  /\ UNCHANGED <<requestVars, sem, cacheVars>>

\* mutant: the count is compared before it is decremented
UnrefOldCount(r) ==
  /\ Goto(r, "unref", IF refs[lock[r]] = 0 THEN "delete" ELSE AfterUnlock(r))
  /\ DropRef(r)
  /\ UNCHANGED <<requestVars, sem, cacheVars>>

Unref(r) ==
  /\ Goto(r, "unref", IF refs[lock[r]] = 1 THEN "delete" ELSE AfterUnlock(r))
  /\ DropRef(r)
  /\ UNCHANGED <<requestVars, sem, cacheVars>>

Delete(r) ==
  /\ Goto(r, "delete", AfterUnlock(r))
  /\ DeleteLock(Path(r))
  /\ UNCHANGED <<requestVars, sem, cacheVars>>

Fail(r) ==
  /\ Goto(r, "fail", "done")
  /\ answer' = [answer EXCEPT ![r] = 500]
  /\ UNCHANGED <<want, err, out, file, sem, lockVars, cacheVars>>

-----------------------------------------------------------------------------
(* Opening and serving: no lock is held any more.                          *)

\* the original file or the cache file; an open file survives its name
Open(r) ==
  /\ Goto(r, "open", "serve")
  /\ ~Transcoded(r) \/ CacheExists(Path(r))
  /\ file' = [file EXCEPT ![r] = IF Transcoded(r) THEN dest[Path(r)] ELSE None]
  /\ UNCHANGED <<want, err, out, answer, sem, lockVars, cacheVars>>

OpenFails(r) ==
  /\ Goto(r, "open", "done")
  /\ IF Transcoded(r) THEN ~CacheExists(Path(r)) ELSE MayFail
  /\ answer' = [answer EXCEPT ![r] = 404]
  /\ UNCHANGED <<want, err, out, file, sem, lockVars, cacheVars>>

Serve(r) ==
  /\ Goto(r, "serve", "done")
  /\ answer' = [answer EXCEPT ![r] = 200]
  /\ UNCHANGED <<want, err, out, file, sem, lockVars, cacheVars>>

\* Stat on the open file fails
StatFails(r) ==
  /\ MayFail
  /\ Goto(r, "serve", "done")
  /\ answer' = [answer EXCEPT ![r] = 500]
  /\ UNCHANGED <<want, err, out, file, sem, lockVars, cacheVars>>

-----------------------------------------------------------------------------
(* The process and the sweep.                                              *)

Crash ==
  /\ MayCrash
  /\ InFlight # {}
  /\ pc' = [r \in Requests |->
              IF r \notin InFlight THEN pc[r]
              ELSE IF pc[r] = "run" /\ EncoderSurvivesCrash THEN "orphan" ELSE "dead"]
  /\ sem' = 0
  /\ LocksCrash
  /\ CacheCrash
  /\ UNCHANGED requestVars

OrphanDone(r) ==
  /\ Goto(r, "orphan", "dead")
  /\ CloseOutput(out[r])
  /\ UNCHANGED <<requestVars, sem, lockVars>>

Sweep ==
  /\ \/ SweepStart
     \/ \E e \in Entries : SweepInfo(e)
     \/ SweepRemove
     \/ SweepRemoveFails
     \/ SweepEnd
  /\ UNCHANGED <<pc, requestVars, sem, lockVars>>

Age ==
  /\ InFlight = {} /\ At({"orphan"}) = {} /\ sweep = "idle"
  /\ MonthPasses
  /\ UNCHANGED <<pc, requestVars, sem, lockVars>>

Handle(r) ==
  \/ Load(r) \/ Ref(r) \/ Lock(r) \/ CheckCache(r) \/ AcquireSem(r)
  \/ Spawn(r) \/ SpawnFails(r) \/ EncoderDone(r) \/ EncoderFails(r)
  \/ Remove(r) \/ Rename(r) \/ RenameFails(r) \/ ReleaseSem(r)
  \/ Unlock(r) \/ Unref(r) \/ Delete(r) \/ Fail(r)
  \/ Open(r) \/ OpenFails(r) \/ Serve(r) \/ StatFails(r)

\* every request of the behaviour has been dealt with
Finished ==
  /\ At({"done", "dead"}) = Requests
  /\ UNCHANGED vars

Next ==
  \/ \E r \in Requests : Reject(r) \/ Receive(r) \/ Handle(r) \/ OrphanDone(r)
  \/ Crash
  \/ Sweep
  \/ Age
  \/ Finished

Spec == Init /\ [][Next]_vars

-----------------------------------------------------------------------------
(* A goroutine runs on and ffmpeg terminates.  Fairness is strong because  *)
(* of the two labels that can block: sync.Mutex hands a starved waiter the *)
(* mutex and a channel serves blocked senders in order; at the other       *)
(* labels a step, once possible, stays so.  The ticker of the sweep keeps  *)
(* firing and its walk goes on; a removal the file system refuses again    *)
(* and again it grants in the end.                                         *)

Fairness ==
  /\ \A r \in Requests : SF_vars(Handle(r))
  /\ WF_vars(Sweep)
  /\ SF_vars(Sweep /\ SweepRemove)

FairSpec == Spec /\ Fairness

-----------------------------------------------------------------------------
(* Properties.                                                             *)

\* The type invariant.
TypeOK ==
  /\ pc \in [Requests -> Labels]
  /\ want \in [Requests -> (Tracks \X Requested) \cup {None}]
  /\ err \in [Requests -> BOOLEAN]
  /\ sem \in Nat
  /\ out \in [Requests -> Requests \cup {None}]
  /\ file \in [Requests -> Requests \cup {None}]
  /\ answer \in [Requests -> {0, 200, 400, 404, 500}]
  /\ LocksTypeOK
  /\ CacheTypeOK

\* The server never runs more than TRANSCODE_WORKERS ffmpeg processes, on
\* whatever mix of success, failure and waiting the requests go through.
EncodersBounded == Cardinality(At({"run"})) <= Workers

\* refCount counts exactly the requests between Add(1) and Add(-1): it never
\* goes negative and never reaches 0 while one of them still uses the lock.
RefsExact == \A l \in Requests : refs[l] = Cardinality(Users(l))

\* The table does not leak: a lock is in it only while some request has it
\* and will come to unlockForPath with it, even when a request deleted the
\* entry of a lock that was not its own.
NoLeakedLock ==
  \A p \in Paths : table[p] # None =>
    \E r \in Requests : lock[r] = table[p] /\ Path(r) = p /\ pc[r] \in Locked

\* What a client gets is the original, or its own track in the format its
\* parameter resolves to, and nothing another request cached.
OwnRendition ==
  \A r \in Requests : pc[r] = "serve" =>
    IF Transcoded(r) THEN file[r] # None /\ made[file[r]] = <<Track(r), Format(r)>>
                     ELSE file[r] = None

\* The sweep never takes away a finished rendition that is younger than
\* maxAge, although it looks at a file in one step and removes it in another.
SweepOnlyExpired ==
  [][\A p \in Paths : dest[p] # None /\ dest'[p] = None => dest[p] \in old]_vars

\* At most one ffmpeg writes the temporary file of a path ("per-path mutex
\* (no duplicate transcode on concurrent requests for the same track)").
SingleEncoder ==
  \A r, s \in Encoders : Path(r) = Path(s) => r = s

\* A file at destPath is the whole output of one ffmpeg ("never leaves a
\* corrupt or partial file at destPath").
DestComplete ==
  \A p \in Paths : dest[p] # None => content[dest[p]] = "complete"

\* The file is opened after the path's lock was given back, with the sweep, the
\* other requests for the path, their failures and crashes going on: a request
\* that made the rendition itself, or found one under the lock that had not
\* expired, is all the same never told that there is no such file.
FreshServed ==
  \A r \in Requests :
    []( /\ pc[r] = "unlock" /\ ~err[r]
        /\ out[r] # None \/ dest[Path(r)] \notin old \cup {None}
        => [](answer[r] # 404) )

\* The same of whatever CacheExists found, expired or not.
CachedMeansServed ==
  \A r \in Requests : [](pc[r] = "unlock" /\ ~err[r] => [](answer[r] # 404))

\* The handlers implement the promise of TranscodeOnce: one builder per path,
\* no second build of what is ready, nothing served that is not.
Once == INSTANCE TranscodeOnce WITH
  builders <- [p \in Paths |->
                {r \in At({"spawn", "run", "rename"}) : Path(r) = p}],
  ready <- {p \in Paths : dest[p] # None},
  got <- {<<r, Path(r)>> : r \in {q \in Requests : file[q] # None}}

RefinesOnce == Once!Spec

\* Every request that was received is answered: no lock or slot is kept by a
\* request that has failed, and waiting for a slot with a path's lock held
\* does not make the requests wait for each other in a circle.
\* A request is made once, so that means that in the end none is in flight.
Answered == <>[](InFlight = {})

\* An expired rendition does not stay: the sweep comes to it in the end, even
\* though a file that vanishes under a walk ends that walk.
ExpiredGoes ==
  \A p \in Paths : dest[p] \in old ~> dest[p] = None
=============================================================================
