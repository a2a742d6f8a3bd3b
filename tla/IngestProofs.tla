----------------------------- MODULE IngestProofs -----------------------------
(***************************************************************************)
(* Theorems of Ingest for any files, tags, and any number of faults and    *)
(* crashes: the types, that ingestion implements LibraryGrowth, that       *)
(* artists are not stored twice while reads do not fail, that covers are   *)
(* whole between files, and that credits are linked in order and whole.    *)
(***************************************************************************)
EXTENDS Ingest, TLAPS

-----------------------------------------------------------------------------
(* What one statement does to the types of the tables.                     *)

ArtistRows == [name : CreditNames, photo : BOOLEAN]
AlbumRows == [title : AlbumTags, artist : DOMAIN artists, listed : BOOLEAN, cover : CoverStates]
TrackRows == [album : DOMAIN albums, artist : DOMAIN artists, whole : BOOLEAN]

TablesOK ==
  /\ artists \in Seq(ArtistRows)
  /\ albums \in Seq(AlbumRows)
  /\ tracks \in [Files -> TrackRows \cup {None}]
  /\ links \in [Files -> Seq(DOMAIN artists)]

LEMMA SeqGrows == ASSUME NEW S, NEW T, S \subseteq T PROVE Seq(S) \subseteq Seq(T)
OBVIOUS

LEMMA CreateArtistOK ==
  ASSUME TablesOK, NEW name \in CreditNames, CreateArtist(name)
  PROVE  /\ TablesOK'
         /\ DOMAIN artists \subseteq DOMAIN artists' /\ Len(artists) + 1 \in DOMAIN artists'
<1>1. artists' \in Seq(ArtistRows)
  BY DEF TablesOK, CreateArtist, ArtistRows
<1>2. DOMAIN artists \subseteq DOMAIN artists' /\ Len(artists) + 1 \in DOMAIN artists'
  BY DEF TablesOK, CreateArtist
<1>3. AlbumRows \subseteq AlbumRows' /\ TrackRows \subseteq TrackRows'
  BY <1>2 DEF AlbumRows, TrackRows, CreateArtist
<1>4. albums' \in Seq(AlbumRows')
  BY <1>3, SeqGrows DEF TablesOK, CreateArtist
<1>5. tracks' \in [Files -> TrackRows' \cup {None}]
  BY <1>3 DEF TablesOK, CreateArtist
<1>6. links' \in [Files -> Seq(DOMAIN artists')]
  BY <1>2, SeqGrows DEF TablesOK, CreateArtist
<1>. QED
  BY <1>1, <1>2, <1>4, <1>5, <1>6 DEF TablesOK, ArtistRows

LEMMA SeqUpdate ==
  ASSUME NEW S, NEW s \in Seq(S), NEW i \in DOMAIN s, NEW x \in S
  PROVE  [s EXCEPT ![i] = x] \in Seq(S) /\ DOMAIN [s EXCEPT ![i] = x] = DOMAIN s
OBVIOUS

LEMMA UpdateArtistOK ==
  ASSUME TablesOK, NEW a \in DOMAIN artists, UpdateArtistImageURL(a)
  PROVE  TablesOK' /\ DOMAIN artists' = DOMAIN artists
<1>1. artists' \in Seq(ArtistRows) /\ DOMAIN artists' = DOMAIN artists
  <2>. DEFINE updated == [artists[a] EXCEPT !.photo = TRUE]
  <2>1. artists[a] \in ArtistRows
    BY DEF TablesOK
  <2>2. updated \in ArtistRows
    BY <2>1 DEF ArtistRows
  <2>3. artists' = [artists EXCEPT ![a] = updated]
    BY DEF UpdateArtistImageURL
  <2>. HIDE DEF updated
  <2>. QED
    BY <2>2, <2>3, SeqUpdate DEF TablesOK
<1>2. AlbumRows' = AlbumRows /\ TrackRows' = TrackRows
  BY <1>1 DEF AlbumRows, TrackRows, UpdateArtistImageURL
<1>. QED
  BY <1>1, <1>2 DEF TablesOK, ArtistRows, UpdateArtistImageURL

LEMMA CreateAlbumOK ==
  ASSUME TablesOK, NEW title \in AlbumTags, NEW a \in DOMAIN artists, CreateAlbum(title, a)
  PROVE  /\ TablesOK'
         /\ artists' = artists
         /\ DOMAIN albums \subseteq DOMAIN albums' /\ Len(albums) + 1 \in DOMAIN albums'
<1>1. albums' \in Seq(AlbumRows)
  <2>1. [title |-> title, artist |-> a, listed |-> FALSE, cover |-> "none"] \in AlbumRows
    BY DEF AlbumRows, CoverStates
  <2>. QED
    BY <2>1 DEF TablesOK, CreateAlbum
<1>2. DOMAIN albums \subseteq DOMAIN albums' /\ Len(albums) + 1 \in DOMAIN albums'
  BY DEF TablesOK, CreateAlbum
<1>3. AlbumRows' = AlbumRows /\ TrackRows \subseteq TrackRows'
  BY <1>2 DEF AlbumRows, TrackRows, CreateAlbum
<1>. QED
  BY <1>1, <1>2, <1>3 DEF TablesOK, ArtistRows, CreateAlbum

LEMMA UpdateAlbumOK ==
  ASSUME TablesOK, NEW b \in DOMAIN albums, NEW state \in CoverStates,
         WriteCover(b, state) \/ UpdateAlbumCoverArt(b)
  PROVE  /\ TablesOK' /\ DOMAIN albums' = DOMAIN albums /\ artists' = artists
         /\ WriteCover(b, state) => albums'[b].cover = state
<1>1. /\ albums' \in Seq(AlbumRows) /\ DOMAIN albums' = DOMAIN albums
      /\ WriteCover(b, state) => albums'[b].cover = state
  <2>. albums[b] \in AlbumRows
    BY DEF TablesOK
  <2>1. CASE WriteCover(b, state)
    <3>. DEFINE updated == [albums[b] EXCEPT !.cover = state]
    <3>1. updated \in AlbumRows /\ updated.cover = state
      BY DEF AlbumRows
    <3>2. albums' = [albums EXCEPT ![b] = updated]
      BY <2>1 DEF WriteCover
    <3>. HIDE DEF updated
    <3>. QED
      BY <3>1, <3>2, SeqUpdate DEF TablesOK
  <2>2. CASE UpdateAlbumCoverArt(b) /\ ~WriteCover(b, state)
    <3>. DEFINE updated == [albums[b] EXCEPT !.listed = TRUE]
    <3>1. updated \in AlbumRows
      BY DEF AlbumRows
    <3>2. albums' = [albums EXCEPT ![b] = updated]
      BY <2>2 DEF UpdateAlbumCoverArt
    <3>. HIDE DEF updated
    <3>. QED
      BY <2>2, <3>1, <3>2, SeqUpdate DEF TablesOK
  <2>. QED
    BY <2>1, <2>2
<1>2. AlbumRows' = AlbumRows /\ TrackRows' = TrackRows
  BY <1>1 DEF AlbumRows, TrackRows, WriteCover, UpdateAlbumCoverArt
<1>. QED
  BY <1>1, <1>2 DEF TablesOK, ArtistRows, WriteCover, UpdateAlbumCoverArt

LEMMA CreateTrackOK ==
  ASSUME TablesOK, NEW f \in Files, NEW b \in DOMAIN albums, NEW a \in DOMAIN artists,
         NEW w \in BOOLEAN, CreateTrack(f, b, a, w)
  PROVE  TablesOK' /\ UNCHANGED <<artists, albums>>
<1>1. tracks' \in [Files -> TrackRows \cup {None}]
  BY DEF TablesOK, CreateTrack, TrackRows
<1>. QED
  BY <1>1 DEF TablesOK, ArtistRows, AlbumRows, TrackRows, CreateTrack

LEMMA CreateTrackArtistOK ==
  ASSUME TablesOK, NEW f \in Files, NEW a \in DOMAIN artists, CreateTrackArtist(f, a)
  PROVE  TablesOK' /\ UNCHANGED <<artists, albums>>
<1>1. links' \in [Files -> Seq(DOMAIN artists)]
  BY DEF TablesOK, CreateTrackArtist
<1>. QED
  BY <1>1 DEF TablesOK, ArtistRows, AlbumRows, TrackRows, CreateTrackArtist

-----------------------------------------------------------------------------
(* The processor: what a label says of the rows it has at hand.            *)

ProcessorOK ==
  /\ at \in Labels
  /\ at # "idle" => job \in Files
  /\ whole \in BOOLEAN
  /\ mine \in Seq(DOMAIN artists)
  /\ next \in Nat \ {0}
  /\ at \in {"album", "createAlbum"} => row \in DOMAIN artists
  /\ at \in {"extract", "extracting", "fallback", "downloading", "cover", "track"} =>
       row \in DOMAIN albums

WatcherOK ==
  /\ disk \in [Files -> {"absent", "copying", "whole"}]
  /\ watcher \in {"wait", "list", "readdir", "walk", "stopped"}
  /\ known \subseteq Files /\ todo \subseteq Audio
  /\ faults \in 0..MaxFaults /\ crashes \in 0..MaxCrashes

LEMMA TypeParts == TypeOK <=> TablesOK /\ ProcessorOK /\ WatcherOK
BY DEF TypeOK, TablesOK, ProcessorOK, WatcherOK, ArtistRows, AlbumRows, TrackRows

\* What ProcessFile has done when it gets to a label.
Progress ==
  /\ at \in {"create", "photo"} => next \in DOMAIN Names(job)
  /\ at = "photo" => mine # <<>>
  /\ at \in {"extracting", "downloading"} => albums[row].cover = "partial"
  /\ at = "cover" => albums[row].cover = "whole"
  /\ \A f \in Files : tracks[f] = None => links[f] = <<>>
  /\ at = "link" => /\ mine # <<>>
                    /\ tracks[job] # None /\ tracks[job].artist = mine[1]
                    /\ Len(links[job]) = next - 1

Safe == TablesOK /\ ProcessorOK /\ WatcherOK /\ Progress

LEMMA NamesInUse ==
  ASSUME NEW f \in Files
  PROVE  /\ AlbumArtist(f) \in CreditNames /\ Tags[f].album \in AlbumTags
         /\ \A i \in DOMAIN Names(f) : Names(f)[i] \in CreditNames
BY DEF CreditNames, AlbumTags, Range

\* A step that leaves the tables alone, of the processor
LEMMA QuietTables ==
  ASSUME TablesOK, UNCHANGED libraryVars
  PROVE  TablesOK'
BY DEF TablesOK, ArtistRows, AlbumRows, TrackRows, libraryVars

LEMMA DropOK ==
  ASSUME TablesOK, Progress, UNCHANGED libraryVars, Drop
  PROVE  ProcessorOK' /\ Progress'
BY DEF Drop, ProcessorOK, Progress, Labels, libraryVars

\* or of somebody else
LEMMA QuietProcessor ==
  ASSUME TablesOK, ProcessorOK, Progress, UNCHANGED libraryVars, UNCHANGED processVars
  PROVE  ProcessorOK' /\ Progress'
BY DEF ProcessorOK, Progress, libraryVars, processVars

LEMMA SafeInit == Init => Safe
<1>. SUFFICES ASSUME Init PROVE Safe
  OBVIOUS
<1>. USE IngestAssumption DEF IngestAssumption
<1>1. TablesOK
  BY DEF Init, LibraryInit, TablesOK
<1>2. ProcessorOK /\ WatcherOK
  BY DEF Init, LibraryInit, ProcessorOK, WatcherOK, Labels
<1>3. Progress
  BY DEF Init, LibraryInit, Progress
<1>. QED
  BY <1>1, <1>2, <1>3 DEF Safe

LEMMA WatcherStep ==
  ASSUME Safe,
         (\E f \in Files : CopyStart(f) \/ CopyEnd(f)) \/ Watch \/ Send \/ Crash \/ Panic
  PROVE  Safe'
<1>. USE IngestAssumption DEF IngestAssumption
<1>0. UNCHANGED libraryVars
  BY DEF CopyStart, CopyEnd, Watch, Tick, ListTrackPaths, ListFails, ReadDir, WalkEnd, Send, Crash,
         Panic, Restart
<1>1. ASSUME NEW f \in Files, CopyStart(f) \/ CopyEnd(f)
      PROVE  WatcherOK' /\ UNCHANGED processVars
  <2>1. UNCHANGED <<watcherVars, processVars, faults, crashes>>
    BY <1>1 DEF CopyStart, CopyEnd
  <2>2. disk' \in [Files -> {"absent", "copying", "whole"}]
    BY <1>1 DEF CopyStart, CopyEnd, Safe, WatcherOK
  <2>. QED
    BY <2>1, <2>2 DEF Safe, WatcherOK, watcherVars
<1>2. ASSUME Watch PROVE WatcherOK' /\ UNCHANGED processVars
  <2>1. CASE Tick \/ ListTrackPaths \/ ListFails
    BY <2>1 DEF Safe, WatcherOK, Tick, ListTrackPaths, ListFails
  <2>2. CASE ReadDir
    BY <2>2 DEF Safe, WatcherOK, ReadDir
  <2>3. CASE WalkEnd
    BY <2>3 DEF Safe, WatcherOK, WalkEnd, Fault
  <2>. QED
    BY <1>2, <2>1, <2>2, <2>3 DEF Watch
<1>3. ASSUME Crash \/ Panic PROVE WatcherOK' /\ Drop
  BY <1>3 DEF Safe, WatcherOK, Crash, Panic, Restart
<1>4. ASSUME Send PROVE WatcherOK' /\ ProcessorOK' /\ Progress'
  <2>1. PICK f \in todo : job' = f /\ todo' = todo \ {f}
    BY <1>4 DEF Send
  <2>2. WatcherOK'
    <3>1. UNCHANGED <<disk, watcher, known, faults, crashes>>
      BY <1>4 DEF Send
    <3>. QED
      BY <2>1, <3>1 DEF Safe, WatcherOK
  <2>3. ProcessorOK' /\ Progress'
    BY <1>4, <2>1, <1>0 DEF Send, Safe, WatcherOK, ProcessorOK, Progress, Labels, libraryVars
  <2>. QED
    BY <2>2, <2>3
<1>5. TablesOK'
  BY <1>0, QuietTables DEF Safe
<1>. QED
  BY <1>0, <1>1, <1>2, <1>3, <1>4, <1>5, DropOK, QuietProcessor DEF Safe

\* A step of the processor moves its own label, and may fail.
LEMMA ProcessorStep ==
  ASSUME Safe, Process, ~Panic
  PROVE  WatcherOK'
<1>. USE IngestAssumption DEF IngestAssumption
<1>1. UNCHANGED <<disk, watcherVars, crashes>>
  BY DEF Process, Probe, ProbeRejects, GetArtist, NewArtist, Photo, GetAlbumArtist, NewAlbumArtist,
         NoAlbum, GetAlbum, NewAlbum, Extract, Fallback, CoverWritten, CoverFails, SaveCover, NewTrack,
         TrackExists, Link, LinkExists, Done, Fails
<1>2. UNCHANGED faults \/ Fault
  BY DEF Process, Probe, ProbeRejects, GetArtist, NewArtist, Photo, GetAlbumArtist, NewAlbumArtist,
         NoAlbum, GetAlbum, NewAlbum, Extract, Fallback, CoverWritten, CoverFails, SaveCover, NewTrack,
         TrackExists, Link, LinkExists, Done, Fails
<1>. QED
  BY <1>1, <1>2 DEF Safe, WatcherOK, watcherVars, Fault

\* Every step of ProcessFile keeps what the labels say, and what it does to the
\* tables is a step of LibraryGrowth, or nothing.
LEMMA ProcessSafe ==
  ASSUME Safe, Process, ~Panic
  PROVE  TablesOK' /\ ProcessorOK' /\ Progress' /\ [Growth!Grow]_libraryVars
<1>. USE IngestAssumption DEF IngestAssumption
<1>. TablesOK /\ ProcessorOK /\ Progress
  BY DEF Safe
<1>1. CASE ProbeRejects \/ NoAlbum \/ TrackExists \/ LinkExists \/ Done \/ Fails
  <2>1. UNCHANGED libraryVars /\ Drop
    BY <1>1 DEF ProbeRejects, NoAlbum, TrackExists, LinkExists, Done, Fails
  <2>. QED
    BY <2>1, QuietTables, DropOK
<1>2. CASE Probe
  <2>1. UNCHANGED libraryVars
    BY <1>2 DEF Probe
  <2>. QED
    BY <1>2, <2>1, QuietTables DEF Probe, Step, ProcessorOK, Progress, Labels, libraryVars
<1>3. CASE GetArtist
  <2>1. UNCHANGED libraryVars
    BY <1>3 DEF GetArtist
  <2>2. ProcessorOK'
    BY <1>3, <2>1 DEF GetArtist, GetArtistByName, ProcessorOK, Labels, libraryVars
  <2>3. Progress'
    BY <1>3, <2>1 DEF GetArtist, ProcessorOK, Progress, libraryVars
  <2>. QED
    BY <2>1, <2>2, <2>3, QuietTables
<1>4. CASE NewArtist
  <2>1. job \in Files /\ next \in DOMAIN Names(job) /\ Names(job)[next] \in CreditNames
    BY <1>4, NamesInUse DEF NewArtist, Step, ProcessorOK, Progress
  <2>2. /\ TablesOK'
        /\ DOMAIN artists \subseteq DOMAIN artists' /\ Len(artists) + 1 \in DOMAIN artists'
    BY <1>4, <2>1, CreateArtistOK DEF NewArtist
  <2>3. mine' \in Seq(DOMAIN artists') /\ mine' # <<>>
    <3>1. mine \in Seq(DOMAIN artists')
      BY <2>2, SeqGrows DEF ProcessorOK
    <3>. QED
      BY <1>4, <2>2, <3>1 DEF NewArtist
  <2>4. ProcessorOK' /\ Progress'
    BY <1>4, <2>1, <2>2, <2>3 DEF NewArtist, Step, ProcessorOK, Progress, Labels, CreateArtist
  <2>5. Growth!Grow
    BY <1>4, <2>1 DEF NewArtist, Growth!Grow, Growth!GrowArtist, CreateArtist, Growth!CreateArtist
  <2>. QED
    BY <2>2, <2>4, <2>5
<1>5. CASE Photo
  <2>. DEFINE a == mine[Len(mine)]
  <2>1. a \in DOMAIN artists
    BY <1>5 DEF Photo, Step, ProcessorOK, Progress
  <2>2. UNCHANGED libraryVars \/ UpdateArtistImageURL(a)
    BY <1>5 DEF Photo
  <2>3. TablesOK' /\ DOMAIN artists' = DOMAIN artists /\ UNCHANGED <<albums, tracks, links>>
    <3>1. CASE UNCHANGED libraryVars
      BY <3>1, QuietTables DEF libraryVars
    <3>2. CASE UpdateArtistImageURL(a)
      BY <2>1, <3>2, UpdateArtistOK DEF UpdateArtistImageURL
    <3>. QED
      BY <2>2, <3>1, <3>2
  <2>4. ProcessorOK' /\ Progress'
    BY <1>5, <2>3 DEF Photo, Step, ProcessorOK, Progress, Labels
  <2>5. [Growth!Grow]_libraryVars
    BY <2>1, <2>2 DEF Growth!Grow, Growth!GrowPhoto, UpdateArtistImageURL, Growth!UpdateArtistImageURL
  <2>. QED
    BY <2>3, <2>4, <2>5
<1>6. CASE GetAlbumArtist
  <2>1. UNCHANGED libraryVars
    BY <1>6 DEF GetAlbumArtist
  <2>2. ProcessorOK'
    BY <1>6, <2>1 DEF GetAlbumArtist, GetArtistByName, ProcessorOK, Labels, libraryVars
  <2>3. Progress'
    BY <1>6, <2>1 DEF GetAlbumArtist, ProcessorOK, Progress, libraryVars
  <2>. QED
    BY <2>1, <2>2, <2>3, QuietTables
<1>7. CASE NewAlbumArtist
  <2>1. job \in Files /\ AlbumArtist(job) \in CreditNames
    BY <1>7, NamesInUse DEF NewAlbumArtist, Step, ProcessorOK
  <2>2. /\ TablesOK'
        /\ DOMAIN artists \subseteq DOMAIN artists' /\ Len(artists) + 1 \in DOMAIN artists'
    BY <1>7, <2>1, CreateArtistOK DEF NewAlbumArtist
  <2>3. mine' \in Seq(DOMAIN artists')
    BY <1>7, <2>2, SeqGrows DEF NewAlbumArtist, ProcessorOK
  <2>4. ProcessorOK' /\ Progress'
    BY <1>7, <2>1, <2>2, <2>3 DEF NewAlbumArtist, Step, ProcessorOK, Progress, Labels, CreateArtist
  <2>5. Growth!Grow
    BY <1>7, <2>1 DEF NewAlbumArtist, Growth!Grow, Growth!GrowArtist, CreateArtist, Growth!CreateArtist
  <2>. QED
    BY <2>2, <2>4, <2>5
<1>8. CASE GetAlbum
  <2>1. UNCHANGED libraryVars
    BY <1>8 DEF GetAlbum
  <2>2. ProcessorOK'
    BY <1>8, <2>1 DEF GetAlbum, GetAlbumByTitleAndArtist, ProcessorOK, Labels, libraryVars
  <2>3. Progress'
    BY <1>8, <2>1 DEF GetAlbum, ProcessorOK, Progress, libraryVars
  <2>. QED
    BY <2>1, <2>2, <2>3, QuietTables
<1>9. CASE NewAlbum
  <2>1. job \in Files /\ Tags[job].album \in AlbumTags /\ row \in DOMAIN artists
    BY <1>9, NamesInUse DEF NewAlbum, Step, ProcessorOK
  <2>2. TablesOK' /\ artists' = artists /\ Len(albums) + 1 \in DOMAIN albums'
    BY <1>9, <2>1, CreateAlbumOK DEF NewAlbum
  <2>3. ProcessorOK' /\ Progress'
    BY <1>9, <2>1, <2>2 DEF NewAlbum, Step, ProcessorOK, Progress, Labels, CreateAlbum
  <2>4. Growth!Grow
    BY <1>9, <2>1 DEF NewAlbum, Growth!Grow, Growth!GrowAlbum, CreateAlbum, Growth!CreateAlbum
  <2>. QED
    BY <2>2, <2>3, <2>4
<1>10. CASE Extract \/ Fallback
  <2>1. at \in {"extract", "fallback"} /\ row \in DOMAIN albums
    BY <1>10 DEF Extract, Fallback, Step, ProcessorOK
  <2>2. UNCHANGED libraryVars \/ WriteCover(row, "partial")
    BY <1>10 DEF Extract, Fallback
  <2>3. UNCHANGED <<job, whole, mine, next, row>>
    BY <1>10 DEF Extract, Fallback
  <2>4. CASE UNCHANGED libraryVars /\ at' \in {"fallback", "track"}
    BY <2>1, <2>3, <2>4, QuietTables DEF ProcessorOK, Progress, Labels, libraryVars
  <2>5. CASE WriteCover(row, "partial") /\ at' \in {"extracting", "downloading"}
    <3>1. TablesOK' /\ DOMAIN albums' = DOMAIN albums /\ artists' = artists /\ albums'[row].cover = "partial"
      BY <2>1, <2>5, UpdateAlbumOK DEF CoverStates
    <3>2. UNCHANGED <<tracks, links>>
      BY <2>5 DEF WriteCover
    <3>3. ProcessorOK' /\ Progress'
      BY <2>1, <2>3, <2>5, <3>1, <3>2 DEF ProcessorOK, Progress, Labels
    <3>4. Growth!Grow
      BY <2>1, <2>5 DEF Growth!Grow, Growth!GrowCover, WriteCover, Growth!WriteCover
    <3>. QED
      BY <3>1, <3>3, <3>4
  <2>. QED
    BY <1>10, <2>4, <2>5 DEF Extract, Fallback, Step
<1>11. CASE CoverWritten
  <2>1. /\ at \in {"extracting", "downloading"} /\ row \in DOMAIN albums
        /\ at' = "cover" /\ UNCHANGED <<job, whole, mine, next, row>>
        /\ WriteCover(row, "whole") /\ albums[row].cover = "partial"
    BY <1>11 DEF CoverWritten, Step, ProcessorOK, Progress
  <2>2. TablesOK' /\ DOMAIN albums' = DOMAIN albums /\ artists' = artists /\ albums'[row].cover = "whole"
    BY <2>1, UpdateAlbumOK DEF CoverStates
  <2>3. UNCHANGED <<tracks, links>>
    BY <2>1 DEF WriteCover
  <2>4. ProcessorOK' /\ Progress'
    BY <2>1, <2>2, <2>3 DEF ProcessorOK, Progress, Labels
  <2>5. Growth!Grow
    BY <2>1 DEF Growth!Grow, Growth!GrowCover, WriteCover, Growth!WriteCover
  <2>. QED
    BY <2>2, <2>4, <2>5
<1>12. CASE CoverFails
  <2>1. UNCHANGED libraryVars
    BY <1>12 DEF CoverFails
  <2>. QED
    BY <1>12, <2>1, QuietTables DEF CoverFails, Step, ProcessorOK, Progress, Labels, libraryVars
<1>13. CASE SaveCover
  <2>1. /\ at = "cover" /\ row \in DOMAIN albums /\ albums[row].cover = "whole"
        /\ at' = "track" /\ UNCHANGED <<job, whole, mine, next, row>>
    BY <1>13 DEF SaveCover, Step, ProcessorOK, Progress
  <2>2. CASE UNCHANGED libraryVars
    BY <2>1, <2>2, QuietTables DEF ProcessorOK, Progress, Labels, libraryVars
  <2>3. CASE UpdateAlbumCoverArt(row)
    <3>1. TablesOK' /\ DOMAIN albums' = DOMAIN albums /\ artists' = artists
      BY <2>1, <2>3, UpdateAlbumOK DEF CoverStates
    <3>2. UNCHANGED <<tracks, links>>
      BY <2>3 DEF UpdateAlbumCoverArt
    <3>3. ProcessorOK' /\ Progress'
      BY <2>1, <3>1, <3>2 DEF ProcessorOK, Progress, Labels
    <3>4. Growth!Grow
      BY <2>1, <2>3 DEF Growth!Grow, Growth!GrowCover, UpdateAlbumCoverArt, Growth!UpdateAlbumCoverArt
    <3>. QED
      BY <3>1, <3>3, <3>4
  <2>. QED
    BY <1>13, <2>2, <2>3 DEF SaveCover
<1>14. CASE NewTrack
  <2>1. /\ at = "track" /\ at' = "link" /\ next' = 1 /\ UNCHANGED <<job, whole, mine, row>>
        /\ job \in Files /\ row \in DOMAIN albums /\ mine[1] \in DOMAIN artists /\ mine # <<>>
        /\ whole \in BOOLEAN
    BY <1>14 DEF NewTrack, Step, ProcessorOK
  <2>2. CreateTrack(job, row, mine[1], whole)
    BY <1>14 DEF NewTrack
  <2>3. TablesOK' /\ UNCHANGED <<artists, albums>>
    BY <2>1, <2>2, CreateTrackOK
  <2>4. /\ tracks[job] = None /\ UNCHANGED links
        /\ tracks' = [tracks EXCEPT ![job] = [album |-> row, artist |-> mine[1], whole |-> whole]]
    BY <2>2 DEF CreateTrack
  <2>5. [album |-> row, artist |-> mine[1], whole |-> whole] # None
    <3>1. row \in Nat /\ mine[1] \in Nat
      BY <2>1 DEF TablesOK
    <3>. QED
      BY <2>1, <3>1
  <2>6. tracks'[job] = [album |-> row, artist |-> mine[1], whole |-> whole]
    BY <2>1, <2>4 DEF TablesOK
  <2>7. ProcessorOK'
    BY <2>1, <2>3 DEF ProcessorOK, Labels
  <2>8. Progress'
    <3>1. \A f \in Files : tracks'[f] = None => tracks[f] = None
      BY <2>4, <2>5, <2>6 DEF TablesOK
    <3>2. links[job] = <<>>
      BY <2>1, <2>4 DEF Progress
    <3>. QED
      BY <2>1, <2>4, <2>5, <2>6, <3>1, <3>2 DEF Progress
  <2>9. Growth!Grow
    BY <2>1, <2>2 DEF Growth!Grow, Growth!GrowTrack, CreateTrack, Growth!CreateTrack
  <2>. QED
    BY <2>3, <2>7, <2>8, <2>9
<1>15. CASE Link
  <2>. DEFINE a == mine[next]
  <2>1. /\ at = "link" /\ next' = next + 1 /\ UNCHANGED <<at, job, whole, mine, row>>
        /\ job \in Files /\ a \in DOMAIN artists /\ CreateTrackArtist(job, a)
    BY <1>15 DEF Link, ProcessorOK
  <2>2. TablesOK' /\ UNCHANGED <<artists, albums>>
    BY <2>1, CreateTrackArtistOK
  <2>3. links' = [links EXCEPT ![job] = Append(@, a)] /\ UNCHANGED tracks
    BY <2>1 DEF CreateTrackArtist
  <2>4. Len(links'[job]) = next
    BY <2>1, <2>3 DEF TablesOK, Progress, ProcessorOK
  <2>5. ProcessorOK'
    BY <2>1, <2>2 DEF ProcessorOK
  <2>6. Progress'
    BY <2>1, <2>3, <2>4 DEF Progress, ProcessorOK, TablesOK
  <2>7. links[job] = <<>> => a = tracks[job].artist
    BY <2>1 DEF Progress, ProcessorOK
  <2>8. Growth!Grow
    BY <2>1, <2>7 DEF Growth!Grow, Growth!GrowLink, CreateTrackArtist, Growth!CreateTrackArtist, Linked,
                      Growth!Linked, Progress
  <2>. QED
    BY <2>2, <2>5, <2>6, <2>8
<1>. QED
  BY <1>1, <1>2, <1>3, <1>4, <1>5, <1>6, <1>7, <1>8, <1>9, <1>10, <1>11, <1>12, <1>13, <1>14, <1>15
  DEF Process

LEMMA SafeNext ==
  Safe /\ [Next]_vars => Safe' /\ [Growth!Grow]_libraryVars
<1>. SUFFICES ASSUME Safe, [Next]_vars PROVE Safe' /\ [Growth!Grow]_libraryVars
  OBVIOUS
<1>1. CASE (\E f \in Files : CopyStart(f) \/ CopyEnd(f)) \/ Watch \/ Send \/ Crash \/ Panic
  <2>1. UNCHANGED libraryVars
    BY <1>1 DEF CopyStart, CopyEnd, Watch, Tick, ListTrackPaths, ListFails, ReadDir, WalkEnd, Send, Crash,
                Panic, Restart
  <2>. QED
    BY <1>1, <2>1, WatcherStep
<1>2. CASE Process /\ ~Panic
  BY <1>2, ProcessorStep, ProcessSafe DEF Safe
<1>3. CASE UNCHANGED vars
  BY <1>3, QuietTables, QuietProcessor DEF Safe, vars, watcherVars, WatcherOK
<1>. QED
  BY <1>1, <1>2, <1>3 DEF Next

\* The rows the watcher and the processor hold are rows there are, and every
\* reference in the tables leads to a row.
THEOREM Typing == Spec => []TypeOK
<1>1. Safe => TypeOK
  BY TypeParts DEF Safe
<1>. QED
  BY <1>1, SafeInit, SafeNext, PTL DEF Spec

\* Ingestion implements LibraryGrowth: whatever fails and whenever it crashes,
\* to its readers it only ever adds, one statement at a time.
THEOREM Growing == Spec => GrowsOnly
<1>1. Init => Growth!LibraryInit
  BY DEF Init, LibraryInit, Growth!LibraryInit
<1>2. Safe /\ [Next]_vars => [Growth!Grow]_Growth!libraryVars
  BY SafeNext DEF libraryVars, Growth!libraryVars
<1>. QED
  BY <1>1, <1>2, SafeInit, SafeNext, PTL DEF Spec, GrowsOnly, Growth!GrowthSpec

-----------------------------------------------------------------------------
(* No row twice, as long as reads do not fail.                             *)

\* What a step leaves as it is: names, titles, and the tracks there are.
Frame ==
  /\ DOMAIN artists \subseteq DOMAIN artists'
  /\ \A a \in DOMAIN artists : artists'[a].name = artists[a].name
  /\ DOMAIN albums \subseteq DOMAIN albums'
  /\ \A b \in DOMAIN albums : /\ albums'[b].title = albums[b].title
                              /\ albums'[b].artist = albums[b].artist
  /\ \A f \in Files : tracks[f] # None => tracks'[f] = tracks[f]

LEMMA GrowFrames ==
  ASSUME TablesOK, [Growth!Grow]_libraryVars
  PROVE  Frame
<1>1. CASE UNCHANGED libraryVars
  BY <1>1 DEF Frame, libraryVars
<1>2. ASSUME NEW name \in CreditNames, CreateArtist(name) PROVE Frame
  BY <1>2 DEF CreateArtist, Frame, TablesOK
<1>3. ASSUME NEW a \in DOMAIN artists, UpdateArtistImageURL(a) PROVE Frame
  <2>. DEFINE updated == [artists[a] EXCEPT !.photo = TRUE]
  <2>1. artists[a] \in ArtistRows
    BY DEF TablesOK
  <2>2. updated.name = artists[a].name
    BY <2>1 DEF ArtistRows
  <2>3. artists' = [artists EXCEPT ![a] = updated] /\ UNCHANGED <<albums, tracks>>
    BY <1>3 DEF UpdateArtistImageURL
  <2>. HIDE DEF updated
  <2>. QED
    BY <2>2, <2>3 DEF Frame, TablesOK
<1>4. ASSUME NEW title \in AlbumTags, NEW a \in DOMAIN artists, CreateAlbum(title, a) PROVE Frame
  BY <1>4 DEF CreateAlbum, Frame, TablesOK
<1>5. ASSUME NEW b \in DOMAIN albums,
             (\E state \in CoverStates : WriteCover(b, state)) \/ UpdateAlbumCoverArt(b)
      PROVE  Frame
  <2>1. albums[b] \in AlbumRows
    BY DEF TablesOK
  <2>2. PICK updated \in AlbumRows :
          /\ updated.title = albums[b].title /\ updated.artist = albums[b].artist
          /\ albums' = [albums EXCEPT ![b] = updated]
    <3>1. ASSUME NEW state \in CoverStates, WriteCover(b, state)
          PROVE  \E r \in AlbumRows : /\ r.title = albums[b].title /\ r.artist = albums[b].artist
                                      /\ albums' = [albums EXCEPT ![b] = r]
      <4>. DEFINE r == [albums[b] EXCEPT !.cover = state]
      <4>1. r \in AlbumRows /\ r.title = albums[b].title /\ r.artist = albums[b].artist
        BY <2>1 DEF AlbumRows
      <4>2. albums' = [albums EXCEPT ![b] = r]
        BY <3>1 DEF WriteCover
      <4>. HIDE DEF r
      <4>. QED
        BY <4>1, <4>2
    <3>2. ASSUME UpdateAlbumCoverArt(b)
          PROVE  \E r \in AlbumRows : /\ r.title = albums[b].title /\ r.artist = albums[b].artist
                                      /\ albums' = [albums EXCEPT ![b] = r]
      <4>. DEFINE r == [albums[b] EXCEPT !.listed = TRUE]
      <4>1. r \in AlbumRows /\ r.title = albums[b].title /\ r.artist = albums[b].artist
        BY <2>1 DEF AlbumRows
      <4>2. albums' = [albums EXCEPT ![b] = r]
        BY <3>2 DEF UpdateAlbumCoverArt
      <4>. HIDE DEF r
      <4>. QED
        BY <4>1, <4>2
    <3>. QED
      BY <1>5, <3>1, <3>2
  <2>3. UNCHANGED <<artists, tracks>>
    BY <1>5 DEF WriteCover, UpdateAlbumCoverArt
  <2>. QED
    BY <2>2, <2>3 DEF Frame, TablesOK
<1>6. ASSUME NEW f \in Files, NEW b, NEW a, NEW w, CreateTrack(f, b, a, w) PROVE Frame
  BY <1>6 DEF CreateTrack, Frame, TablesOK
<1>7. ASSUME NEW f \in Files, NEW a, CreateTrackArtist(f, a) PROVE Frame
  BY <1>7 DEF CreateTrackArtist, Frame
<1>8. \/ UNCHANGED libraryVars
      \/ \E name \in CreditNames : CreateArtist(name)
      \/ \E a \in DOMAIN artists : UpdateArtistImageURL(a)
      \/ \E a \in DOMAIN artists, title \in AlbumTags : CreateAlbum(title, a)
      \/ \E b \in DOMAIN albums : (\E state \in CoverStates : WriteCover(b, state)) \/ UpdateAlbumCoverArt(b)
      \/ \E f \in Files, b \in DOMAIN albums, a \in DOMAIN artists, w \in BOOLEAN : CreateTrack(f, b, a, w)
      \/ \E f \in Files, a \in DOMAIN artists : CreateTrackArtist(f, a)
  BY DEF Growth!Grow, Growth!GrowArtist, Growth!GrowPhoto, Growth!GrowAlbum, Growth!GrowCover,
         Growth!GrowTrack, Growth!GrowLink, Growth!CreateArtist, Growth!UpdateArtistImageURL,
         Growth!CreateAlbum, Growth!WriteCover, Growth!UpdateAlbumCoverArt, Growth!CreateTrack,
         Growth!CreateTrackArtist, Growth!Linked, CreateArtist, UpdateArtistImageURL, CreateAlbum,
         WriteCover, UpdateAlbumCoverArt, CreateTrack, CreateTrackArtist, Linked, CoverStates
<1>. QED
  BY <1>1, <1>2, <1>3, <1>4, <1>5, <1>6, <1>7, <1>8

\* Nobody else has a row for what the processor is about to create, and what it
\* holds is for its file.
AlbumFor(b, f) ==
  albums[b].title = Tags[f].album /\ artists[albums[b].artist].name = AlbumArtist(f)

Single ==
  /\ ArtistsDistinct
  /\ \A b, c \in DOMAIN albums :
       albums[b].title = albums[c].title /\ albums[b].artist = albums[c].artist => b = c
  /\ at = "create" => \A a \in DOMAIN artists : artists[a].name # Names(job)[next]
  /\ at = "createAlbumArtist" => \A a \in DOMAIN artists : artists[a].name # AlbumArtist(job)
  /\ at = "createAlbum" =>
       \A b \in DOMAIN albums : ~(albums[b].title = Tags[job].album /\ albums[b].artist = row)
  /\ at \in {"album", "createAlbum"} => artists[row].name = AlbumArtist(job)
  /\ at \in {"extract", "extracting", "fallback", "downloading", "cover", "track"} => AlbumFor(row, job)
  /\ \A f \in Files : tracks[f] # None => AlbumFor(tracks[f].album, f)

\* A step that creates no artist and no album.
LEMMA SameRows ==
  ASSUME Safe, Frame, DOMAIN artists' = DOMAIN artists, DOMAIN albums' = DOMAIN albums,
         ArtistsDistinct,
         \A b, c \in DOMAIN albums :
           albums[b].title = albums[c].title /\ albums[b].artist = albums[c].artist => b = c
  PROVE  /\ ArtistsDistinct'
         /\ \A b, c \in DOMAIN albums' :
              albums'[b].title = albums'[c].title /\ albums'[b].artist = albums'[c].artist => b = c
BY DEF Frame, ArtistsDistinct

LEMMA AlbumForStays ==
  ASSUME TablesOK, Frame, NEW f \in Files, NEW b \in DOMAIN albums, AlbumFor(b, f)
  PROVE  AlbumFor(b, f)'
<1>1. albums[b] \in AlbumRows
  BY DEF TablesOK
<1>2. albums[b].artist \in DOMAIN artists
  BY <1>1 DEF AlbumRows
<1>. QED
  BY <1>2 DEF AlbumFor, Frame, AlbumArtist

\* The tracks there are stay in albums of their own.
LEMMA TracksStay ==
  ASSUME TablesOK, Frame, Single, NEW f \in Files, tracks[f] # None
  PROVE  (tracks[f] # None /\ AlbumFor(tracks[f].album, f))'
<1>1. tracks'[f] = tracks[f]
  BY DEF Frame
<1>2. tracks[f] \in TrackRows
  BY DEF TablesOK
<1>3. tracks[f].album \in DOMAIN albums
  BY <1>2 DEF TrackRows
<1>4. albums[tracks[f].album] \in AlbumRows
  BY <1>3 DEF TablesOK
<1>5. albums[tracks[f].album].artist \in DOMAIN artists
  BY <1>4 DEF AlbumRows
<1>. QED
  BY <1>1, <1>3, <1>5 DEF Single, AlbumFor, Frame, AlbumArtist

LEMMA SingleNext ==
  ASSUME ~ReadsMayFail, Safe, Single, [Next]_vars
  PROVE  Single'
<1>0. Safe' /\ Frame /\ TablesOK
  BY SafeNext, GrowFrames DEF Safe
<1>1. CASE UNCHANGED <<libraryVars, processVars>>
  BY <1>1 DEF Single, ArtistsDistinct, AlbumFor, libraryVars, processVars
<1>2. ASSUME UNCHANGED libraryVars,
             at' \in {"idle", "probe", "artist", "link"} \/ (at' = "photo" /\ at = "photo")
      PROVE  Single'
  BY <1>2 DEF Single, ArtistsDistinct, AlbumFor, libraryVars
<1>3. CASE GetArtist
  BY <1>3 DEF GetArtist, GetArtistByName, Single, ArtistsDistinct, AlbumFor, libraryVars
<1>4. CASE GetAlbumArtist
  BY <1>4 DEF GetAlbumArtist, GetArtistByName, Single, ArtistsDistinct, AlbumFor, libraryVars
<1>5. CASE GetAlbum
  BY <1>5 DEF GetAlbum, GetAlbumByTitleAndArtist, Single, ArtistsDistinct, AlbumFor, libraryVars
<1>6. CASE NewArtist \/ NewAlbumArtist
  <2>1. PICK name : /\ artists' = Append(artists, [name |-> name, photo |-> FALSE])
                    /\ \A a \in DOMAIN artists : artists[a].name # name
    BY <1>6 DEF NewArtist, NewAlbumArtist, Step, CreateArtist, Single
  <2>2. ArtistsDistinct'
    BY <2>1 DEF ArtistsDistinct, Single, Safe, TablesOK
  <2>3. UNCHANGED <<albums, tracks, links>>
    BY <1>6 DEF NewArtist, NewAlbumArtist, CreateArtist
  <2>4. \A f \in Files : tracks[f] # None => (AlbumFor(tracks[f].album, f))'
    BY <1>0, TracksStay
  <2>5. CASE NewArtist
    BY <2>2, <2>3, <2>4, <2>5 DEF NewArtist, Step, Single
  <2>6. CASE NewAlbumArtist
    <3>1. row' = Len(artists) + 1 /\ at' = "album" /\ job' = job
      BY <2>6 DEF NewAlbumArtist, Step
    <3>2. artists'[row'].name = AlbumArtist(job)
      BY <2>6, <3>1 DEF NewAlbumArtist, CreateArtist, Safe, TablesOK
    <3>. QED
      BY <2>2, <2>3, <2>4, <3>1, <3>2 DEF Single
  <2>. QED
    BY <1>6, <2>5, <2>6
<1>7. CASE NewAlbum
  <2>1. /\ at = "createAlbum" /\ at' = "extract" /\ job' = job /\ row' = Len(albums) + 1
        /\ albums' = Append(albums, [title |-> Tags[job].album, artist |-> row,
                                     listed |-> FALSE, cover |-> "none"])
        /\ UNCHANGED <<artists, tracks>>
    BY <1>7 DEF NewAlbum, Step, CreateAlbum
  <2>2. \A b, c \in DOMAIN albums' :
          albums'[b].title = albums'[c].title /\ albums'[b].artist = albums'[c].artist => b = c
    <3>. DEFINE n == Len(albums) + 1
    <3>1. /\ DOMAIN albums' = DOMAIN albums \cup {n}
          /\ \A b \in DOMAIN albums : albums'[b] = albums[b]
          /\ albums'[n].title = Tags[job].album /\ albums'[n].artist = row
      BY <2>1 DEF Safe, TablesOK
    <3>. HIDE DEF n
    <3>. QED
      BY <2>1, <3>1 DEF Single
  <2>3. AlbumFor(row, job)'
    BY <2>1 DEF AlbumFor, AlbumArtist, Single, Safe, TablesOK
  <2>4. \A f \in Files : tracks[f] # None => (AlbumFor(tracks[f].album, f))'
    BY <1>0, TracksStay
  <2>. QED
    BY <2>1, <2>2, <2>3, <2>4 DEF Single, ArtistsDistinct
<1>8. CASE Photo
  <2>1. at' = "artist" /\ DOMAIN artists' = DOMAIN artists /\ UNCHANGED <<albums, tracks>>
    BY <1>8, UpdateArtistOK DEF Photo, Step, UpdateArtistImageURL, libraryVars, Safe, TablesOK
  <2>2. \A f \in Files : tracks[f] # None => (AlbumFor(tracks[f].album, f))'
    BY <1>0, TracksStay
  <2>. QED
    BY <1>0, <2>1, <2>2, SameRows DEF Single
<1>9. CASE Extract \/ Fallback \/ CoverWritten \/ CoverFails \/ SaveCover
  <2>1. /\ at \in {"extract", "extracting", "fallback", "downloading", "cover"} /\ row \in DOMAIN albums
        /\ at' \in {"extracting", "fallback", "downloading", "cover", "track"} /\ row' = row /\ job' = job
        /\ job \in Files
    BY <1>9 DEF Extract, Fallback, CoverWritten, CoverFails, SaveCover, Step, Safe, ProcessorOK
  <2>2. DOMAIN albums' = DOMAIN albums /\ UNCHANGED <<artists, tracks>>
    BY <1>9 DEF Extract, Fallback, CoverWritten, CoverFails, SaveCover, WriteCover, UpdateAlbumCoverArt,
                libraryVars, Safe, TablesOK
  <2>3. AlbumFor(row, job)'
    BY <1>0, <2>1, <2>2, AlbumForStays DEF Single
  <2>4. \A f \in Files : tracks[f] # None => (AlbumFor(tracks[f].album, f))'
    BY <1>0, TracksStay
  <2>. QED
    BY <1>0, <2>1, <2>2, <2>3, <2>4, SameRows DEF Single
<1>10. CASE NewTrack
  <2>1. /\ at = "track" /\ at' = "link" /\ UNCHANGED <<artists, albums, job, row>>
        /\ tracks' = [tracks EXCEPT ![job] = [album |-> row, artist |-> mine[1], whole |-> whole]]
    BY <1>10 DEF NewTrack, Step, CreateTrack
  <2>2. \A f \in Files : tracks'[f] # None => AlbumFor(tracks'[f].album, f)
    BY <2>1 DEF Single, Safe, TablesOK
  <2>. QED
    BY <2>1, <2>2 DEF Single, ArtistsDistinct, AlbumFor
<1>11. CASE Link
  BY <1>11 DEF Link, CreateTrackArtist, Single, ArtistsDistinct, AlbumFor
<1>12. ASSUME \/ \E f \in Files : CopyStart(f) \/ CopyEnd(f)
              \/ Watch \/ UNCHANGED vars
       PROVE  UNCHANGED <<libraryVars, processVars>>
  BY <1>12 DEF CopyStart, CopyEnd, Watch, Tick, ListTrackPaths, ListFails, ReadDir, WalkEnd, vars
<1>13. ASSUME Send \/ Crash \/ Panic \/ Probe \/ ProbeRejects \/ NoAlbum \/ TrackExists \/ LinkExists
                \/ Done \/ Fails
       PROVE  UNCHANGED libraryVars /\ at' \in {"idle", "probe", "artist", "link"}
  BY <1>13 DEF Send, Crash, Panic, Restart, Drop, Probe, Step, ProbeRejects, NoAlbum, TrackExists,
               LinkExists, Done, Fails
<1>. QED
  BY <1>1, <1>2, <1>3, <1>4, <1>5, <1>6, <1>7, <1>8, <1>9, <1>10, <1>11, <1>12, <1>13
  DEF Next, Process

LEMMA SingleInit == Init => Single
BY DEF Init, LibraryInit, Single, ArtistsDistinct

\* One row per artist, although no constraint says so: without failed reads the
\* processor only creates what is not there.
THEOREM OneRowPerArtist == ASSUME ~ReadsMayFail PROVE Spec => []ArtistsDistinct
<1>1. Safe /\ Single /\ [Next]_vars => (Safe /\ Single)'
  BY SafeNext, SingleNext
<1>2. Single => ArtistsDistinct
  BY DEF Single
<1>. QED
  BY <1>1, <1>2, SafeInit, SingleInit, PTL DEF Spec

\* Tracks of one album title and one album artist are in one row of albums.
THEOREM OneRowPerAlbum == ASSUME ~ReadsMayFail PROVE Spec => []AlbumsGrouped
<1>1. Safe /\ Single /\ [Next]_vars => (Safe /\ Single)'
  BY SafeNext, SingleNext
<1>2. ASSUME Safe, Single PROVE AlbumsGrouped
  <2>. SUFFICES ASSUME NEW f \in Files, NEW g \in Files, tracks[f] # None, tracks[g] # None,
                       Tags[f].album = Tags[g].album, AlbumArtist(f) = AlbumArtist(g)
                PROVE  tracks[f].album = tracks[g].album
    BY DEF AlbumsGrouped
  <2>1. tracks[f] \in TrackRows /\ tracks[g] \in TrackRows
    BY <1>2 DEF Safe, TablesOK
  <2>2. tracks[f].album \in DOMAIN albums /\ tracks[g].album \in DOMAIN albums
    BY <2>1 DEF TrackRows
  <2>3. albums[tracks[f].album] \in AlbumRows /\ albums[tracks[g].album] \in AlbumRows
    BY <1>2, <2>2 DEF Safe, TablesOK
  <2>4. albums[tracks[f].album].artist \in DOMAIN artists /\ albums[tracks[g].album].artist \in DOMAIN artists
    BY <2>3 DEF AlbumRows
  <2>. QED
    BY <1>2, <2>2, <2>4 DEF Single, AlbumFor, ArtistsDistinct
<1>. QED
  BY <1>1, <1>2, SafeInit, SingleInit, PTL DEF Spec

-----------------------------------------------------------------------------
(* Credits.                                                                *)

\* The first artists of a file's credit, in its order.
CreditOf(f, rows) ==
  /\ Len(rows) <= Len(Names(f))
  /\ \A i \in DOMAIN rows : artists[rows[i]].name = Names(f)[i]

\* How many of the names ProcessFile has an artist for.
Found ==
  /\ at = "probe" => mine = <<>> /\ next = 1
  /\ at \in {"artist", "create"} => Len(mine) = next - 1
  /\ at = "photo" => Len(mine) = next
  /\ at \notin {"idle", "probe", "artist", "create", "photo"} => Len(mine) = Len(Names(job))
  /\ at = "link" => next <= Len(mine) + 1

LinkedInOrder(f) ==
  CreditOf(f, links[f]) /\ artists[tracks[f].artist].name = Names(f)[1]

Credits ==
  /\ Found
  /\ at # "idle" => CreditOf(job, mine)
  /\ \A f \in Files : tracks[f] # None => LinkedInOrder(f)

\* Nothing stops the links but a failure or an artist credited twice.
FullyLinked ==
  Unharmed => \A f \in Files : tracks[f] # None /\ ~(at = "link" /\ job = f) =>
    Len(links[f]) = Len(Names(f))

LEMMA NamesType ==
  ASSUME NEW f \in Files
  PROVE  Len(Names(f)) \in Nat /\ DOMAIN Names(f) = 1..Len(Names(f))
BY NamesAssumption

LEMMA CreditStays ==
  ASSUME TablesOK, Frame, NEW f, NEW rows \in Seq(DOMAIN artists), CreditOf(f, rows)
  PROVE  CreditOf(f, rows)'
BY DEF CreditOf, Frame, Names

LEMMA LinksStay ==
  ASSUME TablesOK, Frame, NEW f \in Files, tracks[f] # None, links'[f] = links[f], LinkedInOrder(f)
  PROVE  LinkedInOrder(f)'
<1>1. tracks[f] \in TrackRows /\ tracks'[f] = tracks[f] /\ links[f] \in Seq(DOMAIN artists)
  BY DEF TablesOK, Frame
<1>2. tracks[f].artist \in DOMAIN artists
  BY <1>1 DEF TrackRows
<1>3. CreditOf(f, links[f])'
  BY <1>1, CreditStays DEF LinkedInOrder
<1>. QED
  BY <1>1, <1>2, <1>3 DEF LinkedInOrder, Frame, Names, CreditOf

LEMMA CreditsInit == Init => Credits /\ FullyLinked
BY DEF Init, LibraryInit, Credits, Found, FullyLinked

LEMMA CreditsNext ==
  ASSUME Safe, Credits, [Next]_vars
  PROVE  Credits'
<1>0. /\ Safe' /\ Frame /\ TablesOK /\ mine \in Seq(DOMAIN artists) /\ next \in Nat \ {0}
      /\ at \in Labels /\ (at # "idle" => job \in Files)
  BY SafeNext, GrowFrames DEF Safe, ProcessorOK
<1>1. ASSUME UNCHANGED <<tracks, links>>, at' = "idle" PROVE Credits'
  BY <1>0, <1>1, LinksStay DEF Credits, Found
\* a step that finds no artist
<1>2. ASSUME UNCHANGED <<tracks, links, mine, job>>, at # "idle", Found' PROVE Credits'
  <2>1. CreditOf(job, mine)'
    BY <1>0, <1>2, CreditStays DEF Credits
  <2>. QED
    BY <1>0, <1>2, <2>1, LinksStay DEF Credits
<1>3. CASE UNCHANGED <<libraryVars, processVars>>
  BY <1>3 DEF Credits, Found, LinkedInOrder, CreditOf, Names, libraryVars, processVars
<1>4. CASE Send
  <2>1. /\ at' = "probe" /\ mine' = <<>> /\ next' = 1 /\ job' \in Files /\ UNCHANGED libraryVars
    BY <1>0, <1>4 DEF Send, Safe, WatcherOK, ProcessorOK
  <2>2. CreditOf(job, mine)'
    BY <1>0, <2>1, NamesType DEF CreditOf, Names
  <2>. QED
    BY <1>0, <2>1, <2>2, LinksStay DEF Credits, Found, libraryVars
<1>5. CASE Probe
  <2>1. /\ at = "probe" /\ at' = "artist" /\ UNCHANGED <<tracks, links, mine, next, job>>
    BY <1>5 DEF Probe, Step, libraryVars
  <2>2. Found'
    BY <2>1 DEF Credits, Found
  <2>. QED
    BY <1>2, <2>1, <2>2
<1>6. CASE GetArtist
  <2>1. /\ at = "artist" /\ next \in DOMAIN Names(job) /\ job' = job /\ UNCHANGED libraryVars
        /\ \/ at' = "create" /\ UNCHANGED <<mine, next>>
           \/ /\ at' = "artist" /\ next' = next + 1
              /\ \E a \in DOMAIN artists : artists[a].name = Names(job)[next] /\ mine' = Append(mine, a)
    BY <1>6 DEF GetArtist, GetArtistByName
  <2>2. CASE at' = "create" /\ UNCHANGED <<mine, next>>
    <3>1. Found'
      BY <2>1, <2>2 DEF Credits, Found
    <3>. QED
      BY <1>2, <2>1, <2>2, <3>1 DEF libraryVars
  <2>3. ASSUME at' = "artist", next' = next + 1,
               NEW a \in DOMAIN artists, artists[a].name = Names(job)[next], mine' = Append(mine, a)
        PROVE  Credits'
    <3>1. Len(mine) = next - 1 /\ CreditOf(job, mine) /\ job \in Files
      BY <1>0, <2>1 DEF Credits, Found
    <3>2. CreditOf(job, mine)'
      BY <1>0, <2>1, <2>3, <3>1, NamesType DEF CreditOf, Names, libraryVars
    <3>3. Found'
      BY <1>0, <2>3, <3>1 DEF Found
    <3>. QED
      BY <1>0, <2>1, <3>2, <3>3, LinksStay DEF Credits, libraryVars
  <2>. QED
    BY <2>1, <2>2, <2>3
<1>7. CASE NewArtist
  <2>1. /\ at = "create" /\ at' = "photo" /\ UNCHANGED <<job, next, tracks, links>>
        /\ mine' = Append(mine, Len(artists) + 1)
        /\ artists' = Append(artists, [name |-> Names(job)[next], photo |-> FALSE])
    BY <1>7 DEF NewArtist, Step, CreateArtist
  <2>2. Len(mine) = next - 1 /\ CreditOf(job, mine) /\ job \in Files /\ next \in DOMAIN Names(job)
    BY <1>0, <2>1 DEF Credits, Found, Safe, Progress
  <2>3. CreditOf(job, mine)'
    <3>1. /\ Len(mine') = next /\ Len(mine') <= Len(Names(job))
          /\ \A i \in 1..next - 1 : mine'[i] = mine[i] /\ mine[i] \in DOMAIN artists
          /\ mine'[next] = Len(artists) + 1 /\ DOMAIN mine' = 1..next
      BY <1>0, <2>1, <2>2, NamesType
    <3>2. /\ \A a \in DOMAIN artists : artists'[a] = artists[a]
          /\ artists'[Len(artists) + 1].name = Names(job)[next]
      BY <1>0, <2>1 DEF TablesOK
    <3>3. \A i \in 1..next : artists'[mine'[i]].name = Names(job)[i]
      BY <1>0, <2>2, <3>1, <3>2 DEF CreditOf
    <3>. QED
      BY <2>1, <3>1, <3>3 DEF CreditOf, Names
  <2>4. Found'
    BY <1>0, <2>1, <2>2 DEF Found
  <2>. QED
    BY <1>0, <2>1, <2>3, <2>4, LinksStay DEF Credits
<1>8. CASE Photo
  <2>1. /\ at = "photo" /\ at' = "artist" /\ next' = next + 1 /\ UNCHANGED <<tracks, links, mine, job>>
    BY <1>8 DEF Photo, Step, UpdateArtistImageURL, libraryVars
  <2>2. Found'
    BY <1>0, <2>1 DEF Credits, Found
  <2>. QED
    BY <1>2, <2>1, <2>2
<1>9. CASE GetAlbumArtist
  <2>1. /\ at = "artist" /\ next \notin DOMAIN Names(job) /\ at' \in {"album", "createAlbumArtist"}
        /\ UNCHANGED <<tracks, links, mine, next, job>>
    BY <1>9 DEF GetAlbumArtist, libraryVars
  <2>2. Len(mine) = Len(Names(job))
    BY <1>0, <2>1, NamesType DEF Credits, Found, CreditOf
  <2>3. Found'
    BY <2>1, <2>2 DEF Found, Names
  <2>. QED
    BY <1>2, <2>1, <2>3
<1>10. CASE NewAlbumArtist \/ GetAlbum \/ NewAlbum \/ Extract \/ Fallback \/ CoverWritten
              \/ CoverFails \/ SaveCover
  <2>1. /\ at \in {"createAlbumArtist", "album", "createAlbum", "extract", "fallback", "extracting",
                   "downloading", "cover"}
        /\ at' \in {"album", "createAlbum", "extract", "fallback", "extracting", "downloading",
                    "cover", "track"}
        /\ UNCHANGED <<tracks, links, mine, next, job>>
    BY <1>10 DEF NewAlbumArtist, GetAlbum, NewAlbum, Extract, Fallback, CoverWritten, CoverFails,
                 SaveCover, Step, CreateArtist, CreateAlbum, WriteCover, UpdateAlbumCoverArt, libraryVars
  <2>2. Found'
    BY <2>1 DEF Credits, Found, Names
  <2>. QED
    BY <1>2, <2>1, <2>2
<1>11. CASE NewTrack
  <2>1. /\ at = "track" /\ at' = "link" /\ mine # <<>> /\ next' = 1 /\ tracks[job] = None
        /\ tracks' = [tracks EXCEPT ![job] = [album |-> row, artist |-> mine[1], whole |-> whole]]
        /\ UNCHANGED <<job, mine, artists, links>>
    BY <1>11 DEF NewTrack, Step, CreateTrack
  <2>2. CreditOf(job, mine) /\ job \in Files /\ Len(mine) = Len(Names(job)) /\ links[job] = <<>>
    BY <1>0, <2>1 DEF Credits, Found, Safe, Progress
  <2>3. CreditOf(job, mine)'
    BY <2>1, <2>2 DEF CreditOf, Names
  <2>4. LinkedInOrder(job)'
    <3>1. 1 \in DOMAIN mine
      BY <1>0, <2>1
    <3>2. artists[mine[1]].name = Names(job)[1]
      BY <2>2, <3>1 DEF CreditOf
    <3>3. tracks'[job].artist = mine[1]
      BY <1>0, <2>1, <2>2 DEF TablesOK
    <3>4. Len(<<>>) <= Len(Names(job)) /\ DOMAIN <<>> = {}
      BY <2>2, NamesType
    <3>. QED
      BY <2>1, <2>2, <3>2, <3>3, <3>4 DEF LinkedInOrder, CreditOf, Names
  <2>5. \A f \in Files \ {job} : tracks'[f] # None => LinkedInOrder(f)'
    BY <1>0, <2>1, LinksStay DEF Credits, TablesOK
  <2>6. Found'
    BY <1>0, <2>1, <2>2 DEF Found, Names
  <2>. QED
    BY <2>1, <2>3, <2>4, <2>5, <2>6 DEF Credits
<1>12. CASE Link
  <2>1. /\ at = "link" /\ next <= Len(mine) /\ next' = next + 1
        /\ links' = [links EXCEPT ![job] = Append(@, mine[next])]
        /\ UNCHANGED <<at, job, mine, artists, tracks>>
    BY <1>12 DEF Link, CreateTrackArtist
  <2>2. /\ CreditOf(job, mine) /\ job \in Files /\ Len(mine) = Len(Names(job))
        /\ tracks[job] # None /\ Len(links[job]) = next - 1 /\ links[job] \in Seq(DOMAIN artists)
    BY <1>0, <2>1 DEF Credits, Found, Safe, Progress, TablesOK
  <2>3. CreditOf(job, mine)'
    BY <2>1, <2>2 DEF CreditOf, Names
  <2>4. LinkedInOrder(job)'
    <3>1. /\ links'[job] = Append(links[job], mine[next]) /\ LinkedInOrder(job)
      BY <1>0, <2>1, <2>2 DEF TablesOK, Credits
    <3>2. \A i \in DOMAIN links'[job] : artists[links'[job][i]].name = Names(job)[i]
      BY <1>0, <2>1, <2>2, <3>1 DEF LinkedInOrder, CreditOf
    <3>. QED
      BY <1>0, <2>1, <2>2, <3>1, <3>2 DEF LinkedInOrder, CreditOf, Names
  <2>5. \A f \in Files \ {job} : tracks'[f] # None => LinkedInOrder(f)'
    BY <1>0, <2>1, LinksStay DEF Credits, TablesOK
  <2>6. Found'
    BY <1>0, <2>1, <2>2 DEF Found, Names, Credits
  <2>. QED
    BY <2>1, <2>3, <2>4, <2>5, <2>6 DEF Credits
<1>13. ASSUME \/ \E f \in Files : CopyStart(f) \/ CopyEnd(f)
              \/ Watch \/ UNCHANGED vars
       PROVE  UNCHANGED <<libraryVars, processVars>>
  BY <1>13 DEF CopyStart, CopyEnd, Watch, Tick, ListTrackPaths, ListFails, ReadDir, WalkEnd, vars
<1>14. ASSUME Crash \/ Panic \/ ProbeRejects \/ NoAlbum \/ TrackExists \/ LinkExists \/ Done \/ Fails
       PROVE  UNCHANGED <<tracks, links>> /\ at' = "idle"
  BY <1>14 DEF Crash, Panic, Restart, Drop, ProbeRejects, NoAlbum, TrackExists, LinkExists, Done,
               Fails, libraryVars
<1>. QED
  BY <1>1, <1>3, <1>4, <1>5, <1>6, <1>7, <1>8, <1>9, <1>10, <1>11, <1>12, <1>13, <1>14
  DEF Next, Process

LEMMA FullyLinkedNext ==
  ASSUME \A f \in Files : IsInjective(Names(f)), Safe, Credits, FullyLinked, [Next]_vars
  PROVE  FullyLinked'
<1>0. /\ Frame /\ TablesOK /\ faults \in Nat /\ crashes \in Nat
      /\ at \in Labels /\ (at # "idle" => job \in Files)
      /\ \A f \in Files : Names(f)' = Names(f)
  BY GrowFrames, SafeNext, IngestAssumption DEF Safe, ProcessorOK, WatcherOK, Names
\* a step of a file that is not at its links
<1>1. ASSUME UNCHANGED <<tracks, links>>, Unharmed' => Unharmed, at # "link",
             at' # "link"
      PROVE  FullyLinked'
  BY <1>0, <1>1 DEF FullyLinked
<1>2. ASSUME ~Unharmed' PROVE FullyLinked'
  BY <1>2 DEF FullyLinked
<1>3. CASE UNCHANGED <<libraryVars, processVars, faults, crashes>>
  BY <1>0, <1>3 DEF FullyLinked, Unharmed, libraryVars, processVars
<1>4. CASE NewTrack
  <2>1. /\ at' = "link" /\ job' = job /\ UNCHANGED <<links, faults, crashes>>
        /\ \A f \in Files : f # job => tracks'[f] = tracks[f]
        /\ at # "link"
    BY <1>0, <1>4 DEF NewTrack, Step, CreateTrack, TablesOK
  <2>. QED
    BY <1>0, <2>1 DEF FullyLinked, Unharmed
<1>5. CASE Link
  <2>1. /\ at = "link" /\ at' = "link" /\ job' = job /\ UNCHANGED <<tracks, faults, crashes>>
        /\ \A f \in Files : f # job => links'[f] = links[f]
    BY <1>0, <1>5 DEF Link, CreateTrackArtist, TablesOK
  <2>. QED
    BY <1>0, <2>1 DEF FullyLinked, Unharmed
<1>6. CASE Done
  <2>1. /\ at = "link" /\ next > Len(mine) /\ at' = "idle" /\ UNCHANGED <<tracks, links, faults, crashes>>
    BY <1>6 DEF Done, Drop, libraryVars
  <2>2. Len(links[job]) = Len(Names(job))
    BY <1>0, <2>1, NamesType DEF Safe, Progress, ProcessorOK, Credits, Found
  <2>. QED
    BY <1>0, <2>1, <2>2 DEF FullyLinked, Unharmed
<1>7. ASSUME LinkExists PROVE FALSE
  <2>1. PICK i \in DOMAIN links[job] : links[job][i] = mine[next]
    BY <1>7 DEF LinkExists, Linked
  <2>2. /\ at = "link" /\ next <= Len(mine) /\ job \in Files
        /\ links[job] \in Seq(DOMAIN artists) /\ Len(links[job]) = next - 1
        /\ mine \in Seq(DOMAIN artists) /\ next \in Nat \ {0}
        /\ CreditOf(job, links[job]) /\ CreditOf(job, mine)
    BY <1>0, <1>7 DEF LinkExists, Safe, Progress, ProcessorOK, TablesOK, Credits, LinkedInOrder
  <2>3. i # next /\ i \in DOMAIN Names(job) /\ next \in DOMAIN Names(job)
    BY <2>1, <2>2, NamesType DEF CreditOf
  <2>4. Names(job)[i] = Names(job)[next]
    BY <2>1, <2>2 DEF CreditOf
  <2>. QED
    BY <2>2, <2>3, <2>4 DEF IsInjective
<1>8. ASSUME Fails \/ Crash
      PROVE  ~Unharmed'
  BY <1>0, <1>8 DEF Fails, Crash, Fault, Unharmed, Restart
<1>9. ASSUME \/ Send \/ Panic \/ Probe \/ ProbeRejects \/ GetArtist \/ NewArtist \/ Photo \/ GetAlbumArtist
             \/ NewAlbumArtist \/ NoAlbum \/ GetAlbum \/ NewAlbum \/ Extract \/ Fallback \/ CoverWritten
             \/ CoverFails \/ SaveCover \/ TrackExists
      PROVE  /\ UNCHANGED <<tracks, links>> /\ at # "link" /\ at' # "link"
             /\ Unharmed' => Unharmed
  <2>1. UNCHANGED <<tracks, links>> /\ at # "link" /\ at' # "link"
    BY <1>9
    DEF Send, Panic, Restart, Drop, Probe, Step, ProbeRejects, GetArtist, NewArtist, Photo, GetAlbumArtist,
        NewAlbumArtist, NoAlbum, GetAlbum, NewAlbum, Extract, Fallback, CoverWritten, CoverFails,
        SaveCover, TrackExists, CreateArtist, UpdateArtistImageURL, CreateAlbum, WriteCover,
        UpdateAlbumCoverArt, libraryVars
  <2>2. faults' \in {faults, faults + 1} /\ crashes' = crashes
    BY <1>9
    DEF Send, Panic, Restart, Drop, Probe, Step, ProbeRejects, GetArtist, NewArtist, Photo, GetAlbumArtist,
        NewAlbumArtist, NoAlbum, GetAlbum, NewAlbum, Extract, Fallback, CoverWritten, CoverFails,
        SaveCover, TrackExists, Fault
  <2>. QED
    BY <1>0, <2>1, <2>2 DEF Unharmed
<1>10. ASSUME \/ \E f \in Files : CopyStart(f) \/ CopyEnd(f)
              \/ Watch \/ UNCHANGED vars
       PROVE  /\ UNCHANGED <<libraryVars, processVars>>
              /\ faults' \in {faults, faults + 1} /\ crashes' = crashes
  BY <1>10
  DEF CopyStart, CopyEnd, Watch, Tick, ListTrackPaths, ListFails, ReadDir, WalkEnd, Fault, vars
<1>11. ASSUME UNCHANGED <<libraryVars, processVars>>, faults' = faults + 1
       PROVE  ~Unharmed'
  BY <1>0, <1>11 DEF Unharmed
<1>12. ASSUME \/ \E f \in Files : CopyStart(f) \/ CopyEnd(f)
              \/ Watch \/ UNCHANGED vars
       PROVE  FullyLinked'
  BY <1>2, <1>3, <1>10, <1>11, <1>12
<1>13. ASSUME \/ Send \/ Panic \/ Probe \/ ProbeRejects \/ GetArtist \/ NewArtist \/ Photo \/ GetAlbumArtist
              \/ NewAlbumArtist \/ NoAlbum \/ GetAlbum \/ NewAlbum \/ Extract \/ Fallback \/ CoverWritten
              \/ CoverFails \/ SaveCover \/ TrackExists
       PROVE  FullyLinked'
  BY <1>1, <1>9, <1>13
<1>. QED
  BY <1>2, <1>4, <1>5, <1>6, <1>7, <1>8, <1>12, <1>13 DEF Next, Process

\* What is linked of a credit is its beginning, in its order, through failures,
\* retries and crashes.
THEOREM OrderedCredits == Spec => []CreditsInOrder
<1>1. Safe /\ Credits /\ [Next]_vars => (Safe /\ Credits)'
  BY SafeNext, CreditsNext
<1>2. ASSUME Safe, Credits PROVE CreditsInOrder
  <2>. SUFFICES ASSUME NEW f \in Files, tracks[f] # None
                PROVE  /\ Credited(f) = SubSeq(Names(f), 1, Len(links[f]))
                       /\ artists[tracks[f].artist].name = Names(f)[1]
    BY DEF CreditsInOrder
  <2>1. LinkedInOrder(f) /\ links[f] \in Seq(DOMAIN artists)
    BY <1>2 DEF Credits, Safe, TablesOK
  <2>2. Credited(f) = [i \in 1..Len(links[f]) |-> Names(f)[i]]
    BY <2>1 DEF Credited, LinkedInOrder, CreditOf
  <2>3. SubSeq(Names(f), 1, Len(links[f])) = [i \in 1..Len(links[f]) |-> Names(f)[i]]
    BY <2>1, NamesAssumption DEF LinkedInOrder, CreditOf
  <2>. QED
    BY <2>1, <2>2, <2>3 DEF LinkedInOrder
<1>. QED
  BY <1>1, <1>2, SafeInit, CreditsInit, PTL DEF Spec

\* A track has its whole credit, if nothing failed and no credit names an
\* artist twice.
THEOREM WholeCredits ==
  ASSUME \A f \in Files : IsInjective(Names(f))
  PROVE  Spec => []FullCredits
<1>1. Safe /\ Credits /\ FullyLinked /\ [Next]_vars => (Safe /\ Credits /\ FullyLinked)'
  BY SafeNext, CreditsNext, FullyLinkedNext
<1>2. ASSUME Safe, Credits, FullyLinked PROVE FullCredits
  <2>. SUFFICES ASSUME Unharmed, NEW f \in Files, tracks[f] # None, job # f
                PROVE  Credited(f) = Names(f)
    BY DEF FullCredits
  <2>1. LinkedInOrder(f) /\ links[f] \in Seq(DOMAIN artists) /\ Len(links[f]) = Len(Names(f))
    BY <1>2 DEF Credits, Safe, TablesOK, FullyLinked
  <2>2. Credited(f) = [i \in 1..Len(Names(f)) |-> Names(f)[i]]
    BY <2>1 DEF Credited, LinkedInOrder, CreditOf
  <2>. QED
    BY <2>2, NamesAssumption
<1>. QED
  BY <1>1, <1>2, SafeInit, CreditsInit, PTL DEF Spec
=============================================================================
