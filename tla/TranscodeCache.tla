--------------------------- MODULE TranscodeCache ---------------------------
(***************************************************************************)
(* The cache directory: for every path a finished rendition (dest) and the *)
(* temporary file ffmpeg writes (tmp), and the daily sweep that removes    *)
(* what has expired.                                                       *)
(*                                                                         *)
(* A file is modelled as an inode: rename moves an inode, unlink forgets   *)
(* it, and an encoder goes on writing the inode it opened whatever happens *)
(* to its name.  A request creates at most one inode, so an inode is named *)
(* after the request whose encoder created it.                             *)
(***************************************************************************)
EXTENDS TranscodeLocks

CONSTANTS MaySweep,  \* whether CleanupExpiredCache runs in this instance
          MayFail    \* whether ffmpeg and the file system may fail

VARIABLES tmp,       \* the inode at "<path>.tmp", or None
          dest,      \* the inode at "<path>", or None
          content,   \* per inode: "partial", "complete" or, once two
                     \* encoders have written it at a time, "mixed"
          made,      \* per inode: the track and extension it was encoded for
          old,       \* the inodes last written longer ago than maxAge
          sweep,     \* CleanupExpiredCache: "idle", "walk" or "remove"
          todo,      \* the directory entries the walk has still to visit
          cur        \* the entry found expired and about to be removed

sweepVars == <<sweep, todo, cur>>
fileVars == <<tmp, dest, content, made, old>>
cacheVars == <<fileVars, sweepVars>>

Entries == Paths \X {"dest", "tmp"}

Inode(e) == IF e[2] = "tmp" THEN tmp[e[1]] ELSE dest[e[1]]

CacheTypeOK ==
  /\ tmp \in [Paths -> Requests \cup {None}]
  /\ dest \in [Paths -> Requests \cup {None}]
  /\ content \in [Requests -> {"partial", "complete", "mixed"}]
  /\ made \in [Requests -> (Tracks \X Extensions) \cup {None}]
  /\ old \subseteq Requests
  /\ sweep \in {"idle", "walk", "remove"}
  /\ todo \subseteq Entries
  /\ cur \in Entries \cup {None}

CacheInit ==
  /\ tmp = [p \in Paths |-> None]
  /\ dest = [p \in Paths |-> None]
  /\ content = [i \in Requests |-> "partial"]
  /\ made = [i \in Requests |-> None]
  /\ old = {}
  /\ sweep = "idle"
  /\ todo = {}
  /\ cur = None

CacheExists(p) == dest[p] # None

\* mutant: ffmpeg writes to destPath itself
OpenDest(i, p, rendition, writers) ==
  /\ tmp' = [tmp EXCEPT ![p] = i]
  /\ dest' = [dest EXCEPT ![p] = i]
  /\ content' = [content EXCEPT ![i] = IF writers = {} THEN "partial" ELSE "mixed"]
  /\ made' = [made EXCEPT ![i] = rendition]
  /\ old' = old \ {i}
  /\ UNCHANGED sweepVars

\* ffmpeg -y opens its output: an existing file is truncated in place.
\* writers is the set of encoders that have inode i open, rendition what the
\* encoder was asked to make.
OpenOutput(i, p, rendition, writers) ==
  /\ tmp' = [tmp EXCEPT ![p] = i]
  /\ content' = [content EXCEPT ![i] = IF writers = {} THEN "partial" ELSE "mixed"]
  /\ made' = [made EXCEPT ![i] = rendition]
  /\ old' = old \ {i}
  /\ UNCHANGED <<dest, sweepVars>>

\* ffmpeg exits with status 0
CloseOutput(i) ==
  /\ content' = [content EXCEPT ![i] = IF @ = "partial" THEN "complete" ELSE @]
  /\ UNCHANGED <<tmp, dest, made, old, sweepVars>>

RemoveTmp(p) ==
  /\ tmp' = [tmp EXCEPT ![p] = None]
  /\ UNCHANGED <<dest, content, made, old, sweepVars>>

RenameTmp(p) ==
  /\ tmp[p] # None
  /\ dest' = [dest EXCEPT ![p] = tmp[p]]
  /\ tmp' = [tmp EXCEPT ![p] = None]
  /\ UNCHANGED <<content, made, old, sweepVars>>

-----------------------------------------------------------------------------
(* CleanupExpiredCache.  WalkDir lists the directory once, at the start;   *)
(* each entry is then looked at and, in a step of its own, removed.  None  *)
(* of it takes a lock.  An entry that has vanished, or one that cannot be  *)
(* removed, ends the whole walk.                                           *)

SweepIdle ==
  /\ sweep' = "idle"
  /\ todo' = {}
  /\ cur' = None

SweepStart ==
  /\ MaySweep
  /\ sweep = "idle"
  /\ sweep' = "walk"
  /\ todo' = {e \in Entries : Inode(e) # None}
  /\ UNCHANGED <<cur, fileVars>>

\* mutant: the age of the file is not looked at
SweepInfoNoAge(e) ==
  /\ sweep = "walk"
  /\ e \in todo
  /\ sweep' = "remove"
  /\ cur' = e
  /\ todo' = todo \ {e}
  /\ UNCHANGED fileVars

\* mutant: After(cutoff) for Before(cutoff)
SweepInfoInverted(e) ==
  /\ sweep = "walk"
  /\ e \in todo
  /\ todo' = todo \ {e}
  /\ IF Inode(e) \in old \cup {None}
     THEN UNCHANGED <<sweep, cur>>
     ELSE sweep' = "remove" /\ cur' = e
  /\ UNCHANGED fileVars

SweepInfo(e) ==
  /\ sweep = "walk"
  /\ e \in todo
  /\ \/ /\ Inode(e) = None
        /\ SweepIdle
     \/ /\ Inode(e) \in old
        /\ sweep' = "remove"
        /\ cur' = e
        /\ todo' = todo \ {e}
     \/ /\ Inode(e) \notin old \cup {None}
        /\ todo' = todo \ {e}
        /\ UNCHANGED <<sweep, cur>>
  /\ UNCHANGED fileVars

SweepRemove ==
  /\ sweep = "remove"
  /\ IF Inode(cur) = None
     THEN SweepIdle /\ UNCHANGED <<tmp, dest>>
     ELSE /\ sweep' = "walk"
          /\ cur' = None
          /\ tmp' = IF cur[2] = "tmp" THEN [tmp EXCEPT ![cur[1]] = None] ELSE tmp
          /\ dest' = IF cur[2] = "dest" THEN [dest EXCEPT ![cur[1]] = None] ELSE dest
          /\ UNCHANGED todo
  /\ UNCHANGED <<content, made, old>>

SweepRemoveFails ==
  /\ MayFail
  /\ sweep = "remove"
  /\ Inode(cur) # None
  /\ SweepIdle
  /\ UNCHANGED fileVars

SweepEnd ==
  /\ sweep = "walk"
  /\ todo = {}
  /\ SweepIdle
  /\ UNCHANGED fileVars

\* more than maxAge passes and every file in the directory is of before it
MonthPasses ==
  /\ MaySweep
  /\ old' = old \cup {i \in Requests : \E e \in Entries : Inode(e) = i}
  /\ old' # old
  /\ UNCHANGED <<tmp, dest, content, made, sweepVars>>

\* the walk dies with the process, the directory stays
CacheCrash ==
  /\ SweepIdle
  /\ UNCHANGED fileVars
=============================================================================
