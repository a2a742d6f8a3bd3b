------------------------------- MODULE Ingest -------------------------------
(***************************************************************************)
(* Ingestion: WatchLibrary polls the library and hands paths over an       *)
(* unbuffered channel to the goroutine that runs ProcessFile, while files  *)
(* are being copied into the library and calls fail and the server         *)
(* crashes.                                                                *)
(*                                                                         *)
(* A label of the processor names the call ProcessFile makes next.         *)
(***************************************************************************)
EXTENDS Library, FiniteSets, Functions

CONSTANTS Tags,            \* per file [artist, albumArtist, album]: credits,
                           \* <<>> for a missing one, and a title or None
          Audio,           \* the files with a known extension
          Present,         \* the files that are there at the first start
          MaxFaults,       \* bound: failed calls in a behaviour
          ReadsMayFail,    \* whether a failed call may be a query's
          ListMayFail,     \* whether ListTrackPaths may fail
          MaxCrashes       \* bound: crashes other than by panic

ASSUME IngestAssumption ==
  /\ Files \subseteq Nat
  /\ Audio \subseteq Files /\ Present \subseteq Files
  /\ None \notin [album : Nat, artist : Nat, whole : BOOLEAN]
  /\ MaxFaults \in Nat
  /\ MaxCrashes \in Nat

VARIABLES disk,      \* per file "absent", "copying" or "whole"
          watcher,   \* "wait" for the ticker, "list", "readdir", "walk", or
                     \* "stopped"
          known,     \* the watcher's pathRoute, from the list to the walk
          todo,      \* the files its walk has still to send
          at,        \* the processor's label, "idle" when it receives
          job,       \* the path ProcessFile works on
          whole,     \* whether ffprobe read the complete file
          mine,      \* trackArtists
          next,      \* the index of the loop over names or over links
          row,       \* the row last read or created: album artist, then album
          faults, crashes

watcherVars == <<watcher, known, todo>>
processVars == <<at, job, whole, mine, next, row>>
vars == <<disk, watcherVars, processVars, faults, crashes, libraryVars>>

\* Separators are gone from a credit; what was empty between two is dropped.
SplitArtistNames(credit) ==
  LET kept == SelectSeq(credit, LAMBDA name : name # "")
  IN  [i \in DOMAIN kept |-> <<kept[i]>>]

Names(f) == SplitArtistNames(Tags[f].artist)

\* which the prover cannot find out of SelectSeq
ASSUME NamesAssumption == \A f \in Files : Names(f) \in Seq(Range(Names(f)))

AlbumArtist(f) == IF Tags[f].albumArtist = <<>> THEN Tags[f].artist ELSE Tags[f].albumArtist

Init ==
  /\ disk = [f \in Files |-> IF f \in Present THEN "whole" ELSE "absent"]
  /\ watcher = "wait" /\ known = {} /\ todo = {}
  /\ at = "idle" /\ job = None /\ whole = TRUE /\ mine = <<>> /\ next = 1 /\ row = None
  /\ faults = 0 /\ crashes = 0
  /\ LibraryInit

Fault == faults < MaxFaults /\ faults' = faults + 1

-----------------------------------------------------------------------------
(* Files are copied into the library by whoever owns it.                   *)

CopyStart(f) ==
  /\ disk[f] = "absent"
  /\ disk' = [disk EXCEPT ![f] = "copying"]
  /\ UNCHANGED <<watcherVars, processVars, faults, crashes, libraryVars>>

CopyEnd(f) ==
  /\ disk[f] = "copying"
  /\ disk' = [disk EXCEPT ![f] = "whole"]
  /\ UNCHANGED <<watcherVars, processVars, faults, crashes, libraryVars>>

-----------------------------------------------------------------------------
(* WatchLibrary.                                                           *)

Tick ==
  /\ watcher = "wait"
  /\ watcher' = "list"
  /\ UNCHANGED <<known, todo, disk, processVars, faults, crashes, libraryVars>>

ListTrackPaths ==
  /\ watcher = "list"
  /\ watcher' = "readdir"
  /\ known' = {f \in Files : tracks[f] # None}
  /\ UNCHANGED <<todo, disk, processVars, faults, crashes, libraryVars>>

\* mutant: the walk imports an empty library and leaves any other alone
ReadDirImport ==
  /\ watcher = "readdir"
  /\ watcher' = "walk"
  /\ todo' = IF known = {} THEN {f \in Audio : disk[f] # "absent"} ELSE {}
  /\ known' = {}
  /\ UNCHANGED <<disk, processVars, faults, crashes, libraryVars>>

\* The walk leaves out the paths that were known when they were listed.
ReadDir ==
  /\ watcher = "readdir"
  /\ watcher' = "walk"
  /\ todo' = {f \in Audio : disk[f] # "absent"} \ known
  /\ known' = {}
  /\ UNCHANGED <<disk, processVars, faults, crashes, libraryVars>>

\* WatchLibrary returns the error and main does not start it again
ListFails ==
  /\ ListMayFail
  /\ watcher = "list"
  /\ watcher' = "stopped"
  /\ UNCHANGED <<known, todo, disk, processVars, faults, crashes, libraryVars>>

\* the send on processed, which waits for the processor's receive
Send ==
  /\ watcher = "walk"
  /\ at = "idle"
  /\ \E f \in todo :
       /\ \A g \in todo : f <= g
       /\ job' = f
       /\ todo' = todo \ {f}
  /\ at' = "probe"
  /\ whole' = TRUE /\ mine' = <<>> /\ next' = 1 /\ row' = None
  /\ UNCHANGED <<watcher, known, disk, faults, crashes, libraryVars>>

\* the walk is over, or an unreadable directory has ended it
WalkEnd ==
  /\ watcher = "walk"
  /\ IF todo = {} THEN UNCHANGED faults ELSE Fault
  /\ watcher' = "wait"
  /\ todo' = {}
  /\ UNCHANGED <<known, disk, processVars, crashes, libraryVars>>

-----------------------------------------------------------------------------
(* ProcessFile, call by call.                                              *)

\* return with an error, which the processor logs
Drop ==
  /\ at' = "idle" /\ job' = None
  /\ whole' = TRUE /\ mine' = <<>> /\ next' = 1 /\ row' = None

Step(from, to) == at = from /\ at' = to

\* A call whose error ends ProcessFile.
Fails ==
  /\ at \in {"probe", "create", "createAlbumArtist", "createAlbum", "track", "link"}
  /\ at = "track" => mine # <<>>
  /\ at = "link" => next <= Len(mine)
  /\ Fault
  /\ Drop
  /\ UNCHANGED <<disk, watcherVars, crashes, libraryVars>>

\* ffprobe on a file that is still being copied may fail, or may not
Probe ==
  /\ Step("probe", "artist")
  /\ Tags[job].artist # <<>>
  /\ whole' = (disk[job] = "whole")
  /\ UNCHANGED <<job, mine, next, row, disk, watcherVars, faults, crashes, libraryVars>>

ProbeRejects ==
  /\ at = "probe"
  /\ Tags[job].artist = <<>> \/ disk[job] = "copying"
  /\ Drop
  /\ UNCHANGED <<disk, watcherVars, faults, crashes, libraryVars>>

\* An error of GetArtistByName is taken for "no such artist".
GetArtist ==
  /\ at = "artist" /\ next \in DOMAIN Names(job)
  /\ LET rows == GetArtistByName(Names(job)[next])
     IN  \/ /\ at' = "artist" /\ next' = next + 1
            /\ \E a \in rows : mine' = Append(mine, a)
            /\ UNCHANGED faults
         \/ /\ at' = "create"
            /\ IF rows = {} THEN UNCHANGED faults ELSE ReadsMayFail /\ Fault
            /\ UNCHANGED <<mine, next>>
  /\ UNCHANGED <<job, whole, row, disk, watcherVars, crashes, libraryVars>>

NewArtist ==
  /\ Step("create", "photo")
  /\ CreateArtist(Names(job)[next])
  /\ mine' = Append(mine, Len(artists) + 1)
  /\ UNCHANGED <<job, whole, next, row, disk, watcherVars, faults, crashes>>

\* FetchArtistImageURL finds a photo or does not; its errors are logged
Photo ==
  /\ Step("photo", "artist")
  /\ next' = next + 1
  /\ UpdateArtistImageURL(mine[Len(mine)]) \/ UNCHANGED libraryVars
  /\ UNCHANGED <<job, whole, mine, row, disk, watcherVars, faults, crashes>>

\* mutant: the album artist is created without being looked for
GetAlbumArtistNever ==
  /\ at = "artist" /\ next \notin DOMAIN Names(job)
  /\ at' = "createAlbumArtist"
  /\ UNCHANGED <<job, whole, mine, next, row, disk, watcherVars, faults, crashes, libraryVars>>

GetAlbumArtist ==
  /\ at = "artist" /\ next \notin DOMAIN Names(job)
  /\ LET rows == GetArtistByName(AlbumArtist(job))
     IN  \/ /\ at' = "album"
            /\ row' \in rows
            /\ UNCHANGED faults
         \/ /\ at' = "createAlbumArtist"
            /\ IF rows = {} THEN UNCHANGED faults ELSE ReadsMayFail /\ Fault
            /\ UNCHANGED row
  /\ UNCHANGED <<job, whole, mine, next, disk, watcherVars, crashes, libraryVars>>

NewAlbumArtist ==
  /\ Step("createAlbumArtist", "album")
  /\ CreateArtist(AlbumArtist(job))
  /\ row' = Len(artists) + 1
  /\ UNCHANGED <<job, whole, mine, next, disk, watcherVars, faults, crashes>>

\* a missing album tag is only noticed here, after the artists are stored
NoAlbum ==
  /\ at = "album" /\ Tags[job].album = None
  /\ Drop
  /\ UNCHANGED <<disk, watcherVars, faults, crashes, libraryVars>>

\* mutant: the album is created without being looked for
GetAlbumNever ==
  /\ at = "album" /\ Tags[job].album # None
  /\ at' = "createAlbum"
  /\ UNCHANGED <<job, whole, mine, next, row, disk, watcherVars, faults, crashes, libraryVars>>

GetAlbum ==
  /\ at = "album" /\ Tags[job].album # None
  /\ LET rows == GetAlbumByTitleAndArtist(Tags[job].album, row)
     IN  \/ /\ at' = "extract"
            /\ row' \in rows
            /\ UNCHANGED faults
         \/ /\ at' = "createAlbum"
            /\ IF rows = {} THEN UNCHANGED faults ELSE ReadsMayFail /\ Fault
            /\ UNCHANGED row
  /\ UNCHANGED <<job, whole, mine, next, disk, watcherVars, crashes, libraryVars>>

NewAlbum ==
  /\ Step("createAlbum", "extract")
  /\ CreateAlbum(Tags[job].album, row)
  /\ row' = Len(albums) + 1
  /\ UNCHANGED <<job, whole, mine, next, disk, watcherVars, faults, crashes>>

\* ffmpeg starts to overwrite the album's cover file, or finds no picture
Extract ==
  /\ \/ Step("extract", "extracting") /\ WriteCover(row, "partial")
     \/ Step("extract", "fallback") /\ UNCHANGED libraryVars
  /\ UNCHANGED <<job, whole, mine, next, row, disk, watcherVars, faults, crashes>>

\* mutant: the error of io.Copy is dropped
FallbackNoError ==
  /\ \/ Step("fallback", "cover") /\ WriteCover(row, "partial")
     \/ Step("fallback", "track") /\ UNCHANGED libraryVars
  /\ UNCHANGED <<job, whole, mine, next, row, disk, watcherVars, faults, crashes>>

\* DownloadCoverArt truncates the file before it copies into it, or iTunes
\* has no cover
Fallback ==
  /\ \/ Step("fallback", "downloading") /\ WriteCover(row, "partial")
     \/ Step("fallback", "track") /\ UNCHANGED libraryVars
  /\ UNCHANGED <<job, whole, mine, next, row, disk, watcherVars, faults, crashes>>

CoverWritten ==
  /\ Step("extracting", "cover") \/ Step("downloading", "cover")
  /\ WriteCover(row, "whole")
  /\ UNCHANGED <<job, whole, mine, next, row, disk, watcherVars, faults, crashes>>

\* ffmpeg exits with an error, or the download breaks off and is logged:
\* the file stays as it is
CoverFails ==
  /\ Step("extracting", "fallback") \/ Step("downloading", "track")
  /\ Fault
  /\ UNCHANGED <<job, whole, mine, next, row, disk, watcherVars, crashes, libraryVars>>

SaveCover ==
  /\ Step("cover", "track")
  /\ \/ UpdateAlbumCoverArt(row) /\ UNCHANGED faults
     \/ Fault /\ UNCHANGED libraryVars
  /\ UNCHANGED <<job, whole, mine, next, row, disk, watcherVars, crashes>>

NewTrack ==
  /\ Step("track", "link")
  /\ mine # <<>>
  /\ CreateTrack(job, row, mine[1], whole)
  /\ next' = 1
  /\ UNCHANGED <<job, whole, mine, row, disk, watcherVars, faults, crashes>>

\* UNIQUE (path): the file was sent again while it was being processed
TrackExists ==
  /\ at = "track" /\ mine # <<>>
  /\ tracks[job] # None
  /\ Drop
  /\ UNCHANGED <<disk, watcherVars, faults, crashes, libraryVars>>

\* mutant: the artists are linked from the last to the first
LinkReversed ==
  /\ at = "link" /\ next <= Len(mine)
  /\ CreateTrackArtist(job, mine[Len(mine) + 1 - next])
  /\ next' = next + 1
  /\ UNCHANGED <<at, job, whole, mine, row, disk, watcherVars, faults, crashes>>

Link ==
  /\ at = "link" /\ next <= Len(mine)
  /\ CreateTrackArtist(job, mine[next])
  /\ next' = next + 1
  /\ UNCHANGED <<at, job, whole, mine, row, disk, watcherVars, faults, crashes>>

\* an artist credited twice breaks the primary key; the rest is not linked
LinkExists ==
  /\ at = "link" /\ next <= Len(mine)
  /\ Linked(job, mine[next])
  /\ Drop
  /\ UNCHANGED <<disk, watcherVars, faults, crashes, libraryVars>>

\* mutant: the loop stops one artist early
DoneEarly ==
  /\ at = "link" /\ next >= Len(mine)
  /\ Drop
  /\ UNCHANGED <<disk, watcherVars, faults, crashes, libraryVars>>

Done ==
  /\ at = "link" /\ next > Len(mine)
  /\ Drop
  /\ UNCHANGED <<disk, watcherVars, faults, crashes, libraryVars>>

-----------------------------------------------------------------------------
(* The process dies and is started again; tables and files stay.           *)

Restart ==
  /\ watcher' = "wait" /\ known' = {} /\ todo' = {}
  /\ Drop
  /\ UNCHANGED <<disk, faults, libraryVars>>

Crash ==
  /\ crashes < MaxCrashes
  /\ at # "idle"
  /\ crashes' = crashes + 1
  /\ Restart

\* trackArtists[0] of an empty slice, and nothing recovers
Panic ==
  /\ at = "track" /\ mine = <<>>
  /\ UNCHANGED crashes
  /\ Restart

Watch == Tick \/ ListTrackPaths \/ ListFails \/ ReadDir \/ WalkEnd

Process ==
  \/ Probe \/ ProbeRejects \/ GetArtist \/ NewArtist \/ Photo
  \/ GetAlbumArtist \/ NewAlbumArtist \/ NoAlbum \/ GetAlbum \/ NewAlbum
  \/ Extract \/ Fallback \/ CoverWritten \/ CoverFails \/ SaveCover
  \/ NewTrack \/ TrackExists \/ Link \/ LinkExists \/ Done \/ Fails \/ Panic

Next ==
  \/ \E f \in Files : CopyStart(f) \/ CopyEnd(f)
  \/ Watch
  \/ Send
  \/ Process
  \/ Crash

Spec == Init /\ [][Next]_vars

\* The labels whose call goes to Deezer or iTunes, through a client without a
\* timeout and in a context nobody cancels: nothing makes it end.
Remote == {"photo", "fallback", "downloading"}

\* the ticker fires, the goroutines run, local programs and queries end, and a
\* copy comes to its end
FairSpec ==
  /\ Spec
  /\ WF_vars(Watch) /\ WF_vars(Send) /\ WF_vars(at \notin Remote /\ Process)
  /\ \A f \in Files : WF_vars(CopyEnd(f))

-----------------------------------------------------------------------------
(* Properties.                                                             *)

Labels == {"idle", "probe", "artist", "create", "photo", "createAlbumArtist", "album",
           "createAlbum", "extract", "extracting", "fallback", "downloading", "cover",
           "track", "link"}

\* what ingestion names artists and albums
CreditNames == UNION {{AlbumArtist(f)} \cup Range(Names(f)) : f \in Files}
AlbumTags == {Tags[f].album : f \in Files}

\* The type invariant; the keys between labels and rows are foreign keys in the
\* end, of rows that ProcessFile read or created before.
TypeOK ==
  /\ disk \in [Files -> {"absent", "copying", "whole"}]
  /\ watcher \in {"wait", "list", "readdir", "walk", "stopped"}
  /\ known \subseteq Files /\ todo \subseteq Audio
  /\ at \in Labels
  /\ at # "idle" => job \in Files
  /\ whole \in BOOLEAN
  /\ artists \in Seq([name : CreditNames, photo : BOOLEAN])
  /\ albums \in Seq([title : AlbumTags, artist : DOMAIN artists, listed : BOOLEAN,
                     cover : CoverStates])
  /\ tracks \in [Files -> [album : DOMAIN albums, artist : DOMAIN artists, whole : BOOLEAN] \cup {None}]
  /\ links \in [Files -> Seq(DOMAIN artists)]
  /\ mine \in Seq(DOMAIN artists)
  /\ next \in Nat \ {0}
  /\ at \in {"album", "createAlbum"} => row \in DOMAIN artists
  /\ at \in {"extract", "extracting", "fallback", "downloading", "cover", "track"} =>
       row \in DOMAIN albums
  /\ faults \in 0..MaxFaults /\ crashes \in 0..MaxCrashes

Credited(f) == [i \in DOMAIN links[f] |-> artists[links[f][i]].name]

\* One row per artist ("artist/album dedup"), although nothing in the schema
\* says so: it hangs on one goroutine reading before it creates, across files
\* that fail half-way and crashes.
ArtistsDistinct ==
  \A a, b \in DOMAIN artists : artists[a].name = artists[b].name => a = b

\* A featured artist does not fork an album: tracks with the same album title
\* and album artist are in the same row of albums.
AlbumsGrouped ==
  \A f, g \in Files :
    /\ tracks[f] # None /\ tracks[g] # None
    /\ Tags[f].album = Tags[g].album /\ AlbumArtist(f) = AlbumArtist(g)
    => tracks[f].album = tracks[g].album

\* However far the linking of a track came, what is linked is the credit up to
\* there, in its order, and the primary artist is the first of it.
CreditsInOrder ==
  \A f \in Files : tracks[f] # None =>
    /\ Credited(f) = SubSeq(Names(f), 1, Len(links[f]))
    /\ artists[tracks[f].artist].name = Names(f)[1]

\* Nothing has failed so far.
Unharmed == faults = 0 /\ crashes = 0

\* A track that is not being processed has its "full ordered artist list", if
\* nothing failed while it was.
FullCredits ==
  Unharmed => \A f \in Files : tracks[f] # None /\ job # f => Credited(f) = Names(f)

Growth == INSTANCE LibraryGrowth WITH ArtistNames <- CreditNames, AlbumTitles <- AlbumTags

\* To its readers ingestion only ever adds: whatever fails, and however often a
\* file is sent, it implements LibraryGrowth.
GrowsOnly == Growth!GrowthSpec

\* What is stored was read from the complete file ("to avoid reading partial
\* copies").
StoredWhole == \A f \in Files : tracks[f] # None => tracks[f].whole

Ingestible(f) == f \in Audio /\ Names(f) # <<>> /\ Tags[f].album # None

\* The watcher "ingests anything not yet in the database": a complete file with
\* the tags that are needed is a track in the end, through failed calls, crashes
\* and the panic, and nothing but a call to Deezer or iTunes that never returns
\* can hold that up.  A file is copied once, so that is a state the system
\* reaches and stays in.
Ingested ==
  \/ <>[](\A f \in Files : disk[f] = "whole" /\ Ingestible(f) => tracks[f] # None)
  \/ <>[](at \in Remote)
=============================================================================
