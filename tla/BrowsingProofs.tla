---------------------------- MODULE BrowsingProofs ----------------------------
(***************************************************************************)
(* Theorems of Browsing for any library, any requests and any ingestion:   *)
(* an answer that was read at several moments is between what was there    *)
(* when the request came and what is there when it is given, and a client  *)
(* that pages misses nothing.  First, what LibraryGrowth keeps: the types  *)
(* of the tables, that a reference leads to a row, what readers have seen. *)
(***************************************************************************)
EXTENDS Browsing, TLAPS, FiniteSetTheorems

-----------------------------------------------------------------------------
(* What one statement does to the types of the tables.                     *)

ArtistTable == [name : ArtistNames, photo : BOOLEAN]
AlbumTable == [title : AlbumTitles, artist : DOMAIN artists, listed : BOOLEAN, cover : CoverStates]
TrackTable == [album : DOMAIN albums, artist : DOMAIN artists, whole : BOOLEAN]

TablesOK ==
  /\ artists \in Seq(ArtistTable)
  /\ albums \in Seq(AlbumTable)
  /\ tracks \in [Files -> TrackTable \cup {None}]
  /\ links \in [Files -> Seq(DOMAIN artists)]

LEMMA SeqGrows == ASSUME NEW S, NEW T, S \subseteq T PROVE Seq(S) \subseteq Seq(T)
OBVIOUS

LEMMA CreateArtistOK ==
  ASSUME TablesOK, NEW name \in ArtistNames, CreateArtist(name)
  PROVE  /\ TablesOK'
         /\ DOMAIN artists \subseteq DOMAIN artists' /\ Len(artists) + 1 \in DOMAIN artists'
<1>1. artists' \in Seq(ArtistTable)
  BY DEF TablesOK, CreateArtist, ArtistTable
<1>2. DOMAIN artists \subseteq DOMAIN artists' /\ Len(artists) + 1 \in DOMAIN artists'
  BY DEF TablesOK, CreateArtist
<1>3. AlbumTable \subseteq AlbumTable' /\ TrackTable \subseteq TrackTable'
  BY <1>2 DEF AlbumTable, TrackTable, CreateArtist
<1>4. albums' \in Seq(AlbumTable')
  BY <1>3, SeqGrows DEF TablesOK, CreateArtist
<1>5. tracks' \in [Files -> TrackTable' \cup {None}]
  BY <1>3 DEF TablesOK, CreateArtist
<1>6. links' \in [Files -> Seq(DOMAIN artists')]
  BY <1>2, SeqGrows DEF TablesOK, CreateArtist
<1>. QED
  BY <1>1, <1>2, <1>4, <1>5, <1>6 DEF TablesOK, ArtistTable

LEMMA SeqUpdate ==
  ASSUME NEW S, NEW s \in Seq(S), NEW i \in DOMAIN s, NEW x \in S
  PROVE  [s EXCEPT ![i] = x] \in Seq(S) /\ DOMAIN [s EXCEPT ![i] = x] = DOMAIN s
OBVIOUS

LEMMA UpdateArtistOK ==
  ASSUME TablesOK, NEW a \in DOMAIN artists, UpdateArtistImageURL(a)
  PROVE  TablesOK' /\ DOMAIN artists' = DOMAIN artists
<1>1. artists' \in Seq(ArtistTable) /\ DOMAIN artists' = DOMAIN artists
  <2>. DEFINE updated == [artists[a] EXCEPT !.photo = TRUE]
  <2>1. artists[a] \in ArtistTable
    BY DEF TablesOK
  <2>2. updated \in ArtistTable
    BY <2>1 DEF ArtistTable
  <2>3. artists' = [artists EXCEPT ![a] = updated]
    BY DEF UpdateArtistImageURL
  <2>. HIDE DEF updated
  <2>. QED
    BY <2>2, <2>3, SeqUpdate DEF TablesOK
<1>2. AlbumTable' = AlbumTable /\ TrackTable' = TrackTable
  BY <1>1 DEF AlbumTable, TrackTable, UpdateArtistImageURL
<1>. QED
  BY <1>1, <1>2 DEF TablesOK, ArtistTable, UpdateArtistImageURL

LEMMA CreateAlbumOK ==
  ASSUME TablesOK, NEW title \in AlbumTitles, NEW a \in DOMAIN artists, CreateAlbum(title, a)
  PROVE  /\ TablesOK'
         /\ artists' = artists
         /\ DOMAIN albums \subseteq DOMAIN albums' /\ Len(albums) + 1 \in DOMAIN albums'
<1>1. albums' \in Seq(AlbumTable)
  <2>1. [title |-> title, artist |-> a, listed |-> FALSE, cover |-> "none"] \in AlbumTable
    BY DEF AlbumTable, CoverStates
  <2>. QED
    BY <2>1 DEF TablesOK, CreateAlbum
<1>2. DOMAIN albums \subseteq DOMAIN albums' /\ Len(albums) + 1 \in DOMAIN albums'
  BY DEF TablesOK, CreateAlbum
<1>3. AlbumTable' = AlbumTable /\ TrackTable \subseteq TrackTable'
  BY <1>2 DEF AlbumTable, TrackTable, CreateAlbum
<1>. QED
  BY <1>1, <1>2, <1>3 DEF TablesOK, ArtistTable, CreateAlbum

LEMMA UpdateAlbumOK ==
  ASSUME TablesOK, NEW b \in DOMAIN albums, NEW state \in CoverStates,
         WriteCover(b, state) \/ UpdateAlbumCoverArt(b)
  PROVE  /\ TablesOK' /\ DOMAIN albums' = DOMAIN albums /\ artists' = artists
         /\ WriteCover(b, state) => albums'[b].cover = state
<1>1. /\ albums' \in Seq(AlbumTable) /\ DOMAIN albums' = DOMAIN albums
      /\ WriteCover(b, state) => albums'[b].cover = state
  <2>. albums[b] \in AlbumTable
    BY DEF TablesOK
  <2>1. CASE WriteCover(b, state)
    <3>. DEFINE updated == [albums[b] EXCEPT !.cover = state]
    <3>1. updated \in AlbumTable /\ updated.cover = state
      BY DEF AlbumTable
    <3>2. albums' = [albums EXCEPT ![b] = updated]
      BY <2>1 DEF WriteCover
    <3>. HIDE DEF updated
    <3>. QED
      BY <3>1, <3>2, SeqUpdate DEF TablesOK
  <2>2. CASE UpdateAlbumCoverArt(b) /\ ~WriteCover(b, state)
    <3>. DEFINE updated == [albums[b] EXCEPT !.listed = TRUE]
    <3>1. updated \in AlbumTable
      BY DEF AlbumTable
    <3>2. albums' = [albums EXCEPT ![b] = updated]
      BY <2>2 DEF UpdateAlbumCoverArt
    <3>. HIDE DEF updated
    <3>. QED
      BY <2>2, <3>1, <3>2, SeqUpdate DEF TablesOK
  <2>. QED
    BY <2>1, <2>2
<1>2. AlbumTable' = AlbumTable /\ TrackTable' = TrackTable
  BY <1>1 DEF AlbumTable, TrackTable, WriteCover, UpdateAlbumCoverArt
<1>. QED
  BY <1>1, <1>2 DEF TablesOK, ArtistTable, WriteCover, UpdateAlbumCoverArt

LEMMA CreateTrackOK ==
  ASSUME TablesOK, NEW f \in Files, NEW b \in DOMAIN albums, NEW a \in DOMAIN artists,
         NEW w \in BOOLEAN, CreateTrack(f, b, a, w)
  PROVE  TablesOK' /\ UNCHANGED <<artists, albums>>
<1>1. tracks' \in [Files -> TrackTable \cup {None}]
  BY DEF TablesOK, CreateTrack, TrackTable
<1>. QED
  BY <1>1 DEF TablesOK, ArtistTable, AlbumTable, TrackTable, CreateTrack

LEMMA CreateTrackArtistOK ==
  ASSUME TablesOK, NEW f \in Files, NEW a \in DOMAIN artists, CreateTrackArtist(f, a)
  PROVE  TablesOK' /\ UNCHANGED <<artists, albums>>
<1>1. links' \in [Files -> Seq(DOMAIN artists)]
  BY DEF TablesOK, CreateTrackArtist
<1>. QED
  BY <1>1 DEF TablesOK, ArtistTable, AlbumTable, TrackTable, CreateTrackArtist

-----------------------------------------------------------------------------
(* What readers have seen.                                                 *)

\* Rows keep their names, titles and references, photos and covers stay once
\* they are there, and the links of a track are only added to.
Kept ==
  /\ DOMAIN artists \subseteq DOMAIN artists'
  /\ \A a \in DOMAIN artists : /\ artists'[a].name = artists[a].name
                               /\ artists[a].photo => artists'[a].photo
  /\ DOMAIN albums \subseteq DOMAIN albums'
  /\ \A b \in DOMAIN albums : /\ albums'[b].title = albums[b].title
                              /\ albums'[b].artist = albums[b].artist
                              /\ albums[b].listed => albums'[b].listed
  /\ \A f \in Files : tracks[f] # None => tracks'[f] = tracks[f]
  /\ \A f \in Files : /\ DOMAIN links[f] \subseteq DOMAIN links'[f]
                      /\ \A i \in DOMAIN links[f] : links'[f][i] = links[f][i]

\* A listed cover is a file.
Covered == \A b \in DOMAIN albums : albums[b].listed => albums[b].cover # "none"

LEMMA PhotoKeeps ==
  ASSUME TablesOK, NEW a \in DOMAIN artists, UpdateArtistImageURL(a)
  PROVE  Kept
<1>. DEFINE updated == [artists[a] EXCEPT !.photo = TRUE]
<1>1. artists[a] \in ArtistTable
  BY DEF TablesOK
<1>2. updated.name = artists[a].name /\ updated.photo
  BY <1>1 DEF ArtistTable
<1>3. artists' = [artists EXCEPT ![a] = updated] /\ UNCHANGED <<albums, tracks, links>>
  BY DEF UpdateArtistImageURL
<1>. HIDE DEF updated
<1>. QED
  BY <1>2, <1>3 DEF Kept, TablesOK

\* What GrowCover does, in terms of rows.
LEMMA CoverRow ==
  ASSUME TablesOK, NEW b \in DOMAIN albums, NEW state \in CoverStates,
         \/ WriteCover(b, state)
         \/ state = albums[b].cover /\ UpdateAlbumCoverArt(b)
  PROVE  \E row \in AlbumTable :
           /\ row.title = albums[b].title /\ row.artist = albums[b].artist
           /\ albums[b].listed => row.listed
           /\ row.cover = state
           /\ albums' = [albums EXCEPT ![b] = row]
           /\ UNCHANGED <<artists, tracks, links>>
<1>1. albums[b] \in AlbumTable
  BY DEF TablesOK
<1>2. CASE WriteCover(b, state)
  <2>. DEFINE row == [albums[b] EXCEPT !.cover = state]
  <2>1. /\ row \in AlbumTable /\ row.title = albums[b].title /\ row.artist = albums[b].artist
        /\ row.listed = albums[b].listed /\ row.cover = state
    BY <1>1 DEF AlbumTable
  <2>2. albums' = [albums EXCEPT ![b] = row] /\ UNCHANGED <<artists, tracks, links>>
    BY <1>2 DEF WriteCover
  <2>. HIDE DEF row
  <2>. QED
    BY <2>1, <2>2
<1>3. CASE state = albums[b].cover /\ UpdateAlbumCoverArt(b)
  <2>. DEFINE row == [albums[b] EXCEPT !.listed = TRUE]
  <2>1. /\ row \in AlbumTable /\ row.title = albums[b].title /\ row.artist = albums[b].artist
        /\ row.listed /\ row.cover = state
    BY <1>1, <1>3 DEF AlbumTable
  <2>2. albums' = [albums EXCEPT ![b] = row] /\ UNCHANGED <<artists, tracks, links>>
    BY <1>3 DEF UpdateAlbumCoverArt
  <2>. HIDE DEF row
  <2>. QED
    BY <2>1, <2>2
<1>. QED
  BY <1>2, <1>3

LEMMA CoverKeeps ==
  ASSUME TablesOK, Covered, GrowCover
  PROVE  Kept /\ Covered'
<1>1. PICK b \in DOMAIN albums :
        \/ WriteCover(b, "partial")
        \/ WriteCover(b, "whole")
        \/ albums[b].cover = "whole" /\ UpdateAlbumCoverArt(b)
  BY DEF GrowCover
<1>2. PICK state \in CoverStates :
        /\ state # "none"
        /\ WriteCover(b, state) \/ (state = albums[b].cover /\ UpdateAlbumCoverArt(b))
  BY <1>1 DEF CoverStates
<1>3. PICK row \in AlbumTable :
        /\ row.title = albums[b].title /\ row.artist = albums[b].artist
        /\ albums[b].listed => row.listed
        /\ row.cover # "none"
        /\ albums' = [albums EXCEPT ![b] = row]
        /\ UNCHANGED <<artists, tracks, links>>
  BY <1>2, CoverRow
<1>. QED
  BY <1>3 DEF Kept, Covered, TablesOK

LEMMA GrowKeeps ==
  ASSUME TablesOK, Covered, [Grow]_libraryVars
  PROVE  Kept /\ Covered'
<1>1. CASE UNCHANGED libraryVars
  BY <1>1 DEF Kept, Covered, libraryVars
<1>2. CASE GrowArtist
  BY <1>2 DEF GrowArtist, CreateArtist, Kept, Covered, TablesOK
<1>3. CASE GrowPhoto
  <2>1. UNCHANGED albums
    BY <1>3 DEF GrowPhoto, UpdateArtistImageURL
  <2>. QED
    BY <1>3, <2>1, PhotoKeeps DEF GrowPhoto, Covered
<1>4. CASE GrowAlbum
  <2>1. PICK title, a : CreateAlbum(title, a)
    BY <1>4 DEF GrowAlbum
  <2>. DEFINE row == [title |-> title, artist |-> a, listed |-> FALSE, cover |-> "none"]
  <2>2. ~row.listed
    OBVIOUS
  <2>3. albums' = Append(albums, row) /\ UNCHANGED <<artists, tracks, links>>
    BY <2>1 DEF CreateAlbum
  <2>. HIDE DEF row
  <2>. QED
    BY <2>2, <2>3 DEF Kept, Covered, TablesOK
<1>5. CASE GrowCover
  BY <1>5, CoverKeeps
<1>6. CASE GrowTrack
  BY <1>6 DEF GrowTrack, CreateTrack, Kept, Covered, TablesOK
<1>7. CASE GrowLink
  BY <1>7 DEF GrowLink, CreateTrackArtist, Kept, Covered, TablesOK
<1>. QED
  BY <1>1, <1>2, <1>3, <1>4, <1>5, <1>6, <1>7 DEF Grow

-----------------------------------------------------------------------------
(* The tables of a library that grows.                                     *)

LEMMA TablesInit == LibraryInit => TablesOK /\ Covered
BY DEF LibraryInit, TablesOK, Covered

LEMMA TablesNext == TablesOK /\ [Grow]_libraryVars => TablesOK'
<1>. SUFFICES ASSUME TablesOK, [Grow]_libraryVars PROVE TablesOK'
  OBVIOUS
<1>1. CASE UNCHANGED libraryVars
  BY <1>1 DEF TablesOK, ArtistTable, AlbumTable, TrackTable, libraryVars
<1>. QED
  BY <1>1, CreateArtistOK, UpdateArtistOK, CreateAlbumOK, UpdateAlbumOK, CreateTrackOK, CreateTrackArtistOK
  DEF Grow, GrowArtist, GrowPhoto, GrowAlbum, GrowCover, GrowTrack, GrowLink, CoverStates

LEMMA TablesKeys == TablesOK => ForeignKeys
<1>. SUFFICES ASSUME TablesOK PROVE ForeignKeys
  OBVIOUS
<1>1. ASSUME NEW b \in DOMAIN albums PROVE albums[b].artist \in DOMAIN artists
  <2>1. albums[b] \in AlbumTable
    BY DEF TablesOK
  <2>. QED
    BY <2>1 DEF AlbumTable
<1>2. ASSUME NEW f \in Files, tracks[f] # None
      PROVE  tracks[f].album \in DOMAIN albums /\ tracks[f].artist \in DOMAIN artists
  <2>1. tracks[f] \in TrackTable
    BY <1>2 DEF TablesOK
  <2>. QED
    BY <2>1 DEF TrackTable
<1>3. ASSUME NEW f \in Files, NEW i \in DOMAIN links[f] PROVE links[f][i] \in DOMAIN artists
  BY DEF TablesOK
<1>. QED
  BY <1>1, <1>2, <1>3 DEF ForeignKeys

\* A reference of a row always leads to a row: rows are created after the rows
\* they refer to, and none is deleted.
THEOREM KeysLead == GrowthSpec => []ForeignKeys
BY TablesInit, TablesNext, TablesKeys, PTL DEF GrowthSpec

-----------------------------------------------------------------------------
(* Answers.                                                                *)

Parts == {"rows", "artists", "albums", "songs", "summed", "credits"}

Complete(g) ==
  g = [rows |-> g.rows, artists |-> g.artists, albums |-> g.albums, songs |-> g.songs,
       summed |-> g.summed, credits |-> g.credits]

LEMMA NothingParts == DOMAIN Nothing = Parts /\ \A part \in Parts : Nothing[part] = {}
BY DEF Nothing, Parts

-----------------------------------------------------------------------------
(* The library only grows, so does every answer.                           *)

LEMMA QueriesGrow ==
  ASSUME TablesOK, Kept
  PROVE  /\ \A a : GetArtist(a) => GetArtist(a)'
         /\ \A b : GetAlbum(b) => GetAlbum(b)'
         /\ \A f : GetTrack(f) => GetTrack(f)'
         /\ ListArtists \subseteq ListArtists'
         /\ \A a : ListAlbumsByArtist(a) \subseteq ListAlbumsByArtist(a)'
         /\ \A b : ListTracksByAlbum(b) \subseteq ListTracksByAlbum(b)'
         /\ \A b : GetAlbumWithStats(b) \subseteq GetAlbumWithStats(b)'
         /\ \A f \in Files : ListArtistsByTrack(f) \subseteq ListArtistsByTrack(f)'
         /\ SearchArtists \subseteq SearchArtists'
         /\ SearchAlbums \subseteq SearchAlbums'
         /\ SearchTracks \subseteq SearchTracks'
<1>1. \A a : GetArtist(a) => GetArtist(a)'
  BY DEF Kept, GetArtist
<1>2. \A b : GetAlbum(b) => GetAlbum(b)'
  BY DEF Kept, GetAlbum
<1>3. \A f : GetTrack(f) => GetTrack(f)'
  BY DEF Kept, GetTrack
<1>4. ListArtists \subseteq ListArtists'
  BY DEF Kept, ListArtists, Linked
<1>5. \A a : ListAlbumsByArtist(a) \subseteq ListAlbumsByArtist(a)'
  BY DEF Kept, ListAlbumsByArtist
<1>6. \A b : ListTracksByAlbum(b) \subseteq ListTracksByAlbum(b)'
  BY DEF Kept, ListTracksByAlbum, GetTrack
<1>7. \A b : GetAlbumWithStats(b) \subseteq GetAlbumWithStats(b)'
  BY DEF Kept, GetAlbumWithStats, GetTrack
<1>8. \A f \in Files : ListArtistsByTrack(f) \subseteq ListArtistsByTrack(f)'
  BY DEF Kept, ListArtistsByTrack
<1>9. SearchArtists \subseteq SearchArtists'
  BY <1>4 DEF Kept, SearchArtists, ListArtists
<1>10. SearchAlbums \subseteq SearchAlbums'
  BY DEF Kept, SearchAlbums
<1>11. SearchTracks \subseteq SearchTracks'
  BY <1>3 DEF SearchTracks
<1>. QED
  BY <1>1, <1>2, <1>3, <1>4, <1>5, <1>6, <1>7, <1>8, <1>9, <1>10, <1>11

LEMMA AnswerGrows ==
  ASSUME TablesOK, Kept, NEW r
  PROVE  \A part \in Parts : Answer(r)[part] \subseteq (Answer(r)')[part]
<1>1. Row(r) \subseteq Row(r)'
  BY QueriesGrow DEF Row, Kept, GetAlbum, GetArtist
<1>2. ASSUME NEW b
      PROVE  UNION {ListArtistsByTrack(f) : f \in ListTracksByAlbum(b)}
               \subseteq UNION {ListArtistsByTrack(f)' : f \in ListTracksByAlbum(b)'}
  <2>1. ListTracksByAlbum(b) \subseteq ListTracksByAlbum(b)' /\ ListTracksByAlbum(b) \subseteq Files
    BY QueriesGrow DEF ListTracksByAlbum
  <2>2. \A f \in Files : ListArtistsByTrack(f) \subseteq ListArtistsByTrack(f)'
    BY QueriesGrow
  <2>. QED
    BY <2>1, <2>2
<1>3. Answer(r).rows \subseteq (Answer(r)').rows
  BY <1>1 DEF Answer
<1>4. Answer(r).artists \subseteq (Answer(r)').artists
  BY QueriesGrow DEF Answer
<1>5. Answer(r).albums \subseteq (Answer(r)').albums
  BY QueriesGrow DEF Answer
<1>6. Answer(r).songs \subseteq (Answer(r)').songs
  BY QueriesGrow DEF Answer
<1>7. Answer(r).summed \subseteq (Answer(r)').summed
  BY QueriesGrow DEF Answer
<1>8. Answer(r).credits \subseteq (Answer(r)').credits
  BY QueriesGrow, <1>2 DEF Answer, GetTrack
<1>. QED
  BY <1>3, <1>4, <1>5, <1>6, <1>7, <1>8 DEF Parts

-----------------------------------------------------------------------------
(* What is asked, label by label, and what every label knows.              *)

Working == at \notin {"idle", "notfound", "failed", "page", "paged"}

\* The songs whose credits belong to an answer.
Songs(r) ==
  CASE r.op = "getAlbum" -> ListTracksByAlbum(r.id)
    [] r.op = "getSong" -> {f \in {r.id} : GetTrack(f)}
    [] OTHER -> {}

\* The handler is the one of the request.
Route ==
  Working =>
    /\ req = [op |-> req.op, id |-> req.id, kind |-> req.kind, offset |-> req.offset]
    /\ at = "listArtists" => req.op = "getArtists"
    /\ at \in {"artist", "albumsOf"} => req.op = "getArtist"
    /\ at \in {"stats", "albumArtist", "tracks"} => req.op = "getAlbum"
    /\ at \in {"track", "trackAlbum", "trackArtist"} => req.op = "getSong"
    /\ at = "credits" => req.op \in {"getAlbum", "getSong"}
    /\ at \in {"cover", "open", "photo"} =>
         req.op = "getCoverArt" /\ req.kind \in {"album", "artist"}
    /\ at \in {"search", "searchArtists", "searchAlbums", "searchTracks"} => req.op = "search3"

\* The rows a handler has come past are there.
Found ==
  /\ at \in {"albumArtist", "tracks"} => GetAlbum(req.id)
  /\ at \in {"trackAlbum", "trackArtist"} => GetTrack(req.id)
  /\ at = "open" => req.kind = "album" /\ GetAlbum(req.id) /\ albums[req.id].listed
  /\ at = "photo" => req.kind = "artist" \/ base.rows = {}
  /\ at = "credits" => pending \subseteq Songs(req)
  /\ at = "idle" => got = Nothing
  /\ at = "idle" \/ (Working /\ at # "credits") => pending = {}

Inside(a, b) ==
  /\ a.rows \subseteq b.rows
  /\ a.artists \subseteq b.artists
  /\ a.albums \subseteq b.albums
  /\ a.songs \subseteq b.songs
  /\ a.summed \subseteq b.summed
  /\ a.credits \subseteq b.credits

\* What has been read is so, and what was so when the request came is so still.
Upper == Working => Inside(got, Answer(req)) /\ Inside(base, Answer(req))

\* A part that the handler has come past has all that there was.
Lower ==
  Working =>
    /\ at \in {"artist", "stats", "track", "cover", "open", "photo"} \/ base.rows \subseteq got.rows
    /\ at \in {"listArtists", "search", "searchArtists"} \/ cut \/ base.artists \subseteq got.artists
    /\ \/ at \in {"artist", "albumsOf", "search", "searchArtists", "searchAlbums"}
       \/ cut \/ base.albums \subseteq got.albums
    /\ \/ at \in {"stats", "albumArtist", "tracks",
                   "search", "searchArtists", "searchAlbums", "searchTracks"}
       \/ cut \/ base.songs \subseteq got.songs
    /\ at = "stats" \/ base.summed \subseteq got.summed
    /\ \/ at \in {"stats", "albumArtist", "tracks", "track", "trackAlbum", "trackArtist"}
       \/ \A c \in base.credits : c \in got.credits \/ c[1] \in pending
    /\ req.offset # 0 => base = Nothing

Summed == Working => at \in {"albumArtist", "tracks"} \/ got.summed \subseteq got.songs

Inv ==
  /\ TablesOK /\ Covered
  /\ at \in Labels /\ Complete(got) /\ cut \in BOOLEAN
  /\ Route /\ Found /\ Upper /\ Lower /\ Summed /\ NotFoundIsMissing

LEMMA SongsGrow ==
  ASSUME TablesOK, Kept, NEW r
  PROVE  Songs(r) \subseteq Songs(r)'
BY QueriesGrow DEF Songs

\* Where the library stays, so does every query.
LEMMA SameLibrary ==
  ASSUME UNCHANGED libraryVars, NEW r
  PROVE  /\ Answer(r)' = Answer(r) /\ Songs(r)' = Songs(r)
         /\ GetAlbum(r)' = GetAlbum(r) /\ GetTrack(r)' = GetTrack(r)
         /\ TablesOK' = TablesOK /\ Covered' = Covered /\ albums' = albums
BY DEF libraryVars, Answer, Songs, Row, GetArtist, GetAlbum, GetTrack, ListArtists, Linked,
  SearchArtists, ListAlbumsByArtist, SearchAlbums, ListTracksByAlbum, SearchTracks,
  GetAlbumWithStats, ListArtistsByTrack, TablesOK, ArtistTable, AlbumTable, TrackTable, Covered

\* What is answered, request by request.
LEMMA AnswerParts ==
  ASSUME NEW r
  PROVE  /\ Answer(r).rows = Row(r)
         /\ Answer(r).artists = IF r.op = "getArtists" THEN ListArtists
                               ELSE IF r.op = "search3" THEN SearchArtists ELSE {}
         /\ Answer(r).albums = IF r.op = "getArtist" THEN ListAlbumsByArtist(r.id)
                              ELSE IF r.op = "search3" THEN SearchAlbums ELSE {}
         /\ Answer(r).songs = IF r.op = "getAlbum" THEN ListTracksByAlbum(r.id)
                             ELSE IF r.op = "search3" THEN SearchTracks ELSE {}
         /\ Answer(r).summed = IF r.op = "getAlbum" THEN ListTracksByAlbum(r.id) ELSE {}
         /\ Answer(r).credits = UNION {ListArtistsByTrack(f) : f \in Songs(r)}
<1>1. Answer(r).credits = UNION {ListArtistsByTrack(f) : f \in Songs(r)}
  BY DEF Answer, Songs
<1>. QED
  BY <1>1 DEF Answer, GetAlbumWithStats, ListTracksByAlbum

LEMMA RowParts ==
  ASSUME NEW r
  PROVE  Row(r) = IF \/ r.op = "getArtist" /\ GetArtist(r.id)
                     \/ r.op = "getAlbum" /\ GetAlbum(r.id)
                     \/ r.op = "getSong" /\ GetTrack(r.id)
                     \/ /\ r.op = "getCoverArt"
                        /\ r.kind = "album"
                        /\ GetAlbum(r.id) /\ albums[r.id].listed
                     \/ /\ r.op = "getCoverArt"
                        /\ r.kind # "album"
                        /\ GetArtist(r.id) /\ artists[r.id].photo
                  THEN {r.id} ELSE {}
BY DEF Row

-----------------------------------------------------------------------------
(* Every step keeps the invariant.                                         *)

LEMMA SendKeeps ==
  ASSUME BrowsingAssumption, Inv, NEW r \in Requests, Send(r)
  PROVE  Inv'
<1>1. /\ at = "idle" /\ req' = r /\ base' = Answer(r) /\ at' = First(r.op)
      /\ UNCHANGED <<got, cut, pending, broken, libraryVars>>
  BY DEF Send
<1>2. r = [op |-> r.op, id |-> r.id, kind |-> r.kind, offset |-> 0] /\ r.op \in Ops
      /\ (r.op = "getCoverArt" => r.kind \in {"album", "artist"})
  BY DEF BrowsingAssumption
<1>3. /\ r.op = "getArtists" => at' = "listArtists"
      /\ r.op = "getArtist" => at' = "artist"
      /\ r.op = "getAlbum" => at' = "stats"
      /\ r.op = "getSong" => at' = "track"
      /\ r.op = "search3" => at' = "search"
      /\ r.op = "getCoverArt" => at' = "cover"
  BY <1>1 DEF First
<1>4. got = Nothing /\ pending = {}
  BY <1>1 DEF Inv, Found
<1>5. Answer(req)' = Answer(r)
  BY <1>1, SameLibrary
<1>6. TablesOK' /\ Covered'
  BY <1>1, SameLibrary DEF Inv
<1>7. at' \in Labels /\ Complete(got)' /\ cut' \in BOOLEAN
  BY <1>1, <1>2, <1>3 DEF Inv, Labels, Complete, Ops
<1>8. Route'
  BY <1>1, <1>2, <1>3 DEF Route, Ops
<1>9. Found'
  BY <1>1, <1>2, <1>3, <1>4 DEF Found, Ops
<1>10. Upper'
  BY <1>1, <1>4, <1>5 DEF Upper, Inside, Nothing
<1>11. Lower'
  <2>1. r.offset = 0
    BY <1>2
  <2>. QED
    BY <1>1, <1>2, <1>3, <1>4, <2>1, AnswerParts, RowParts DEF Lower, Ops, Nothing, Songs
<1>12. Summed'
  BY <1>1, <1>4 DEF Summed, Nothing
<1>13. NotFoundIsMissing'
  BY <1>2, <1>3 DEF NotFoundIsMissing, Ops
<1>. QED
  BY <1>6, <1>7, <1>8, <1>9, <1>10, <1>11, <1>12, <1>13 DEF Inv

\* Steps that read no part of the answer.
Moves ==
  \/ AlbumArtist \/ TrackAlbum \/ TrackArtist \/ CreditsDone \/ CoverOfAlbum \/ Search

LEMMA MovesKeep ==
  ASSUME Inv, Moves
  PROVE  Inv'
<1>1. UNCHANGED <<req, got, cut, broken, base, libraryVars>>
  BY DEF Moves, AlbumArtist, TrackAlbum, TrackArtist, CreditsDone, CoverOfAlbum, Search, handlerVars
<1>2. /\ Answer(req)' = Answer(req) /\ Songs(req)' = Songs(req)
      /\ GetTrack(req.id)' = GetTrack(req.id) /\ TablesOK' /\ Covered'
  BY <1>1, SameLibrary DEF Inv
<1>3. ForeignKeys
  BY TablesKeys DEF Inv
<1>4. /\ AlbumArtist => at = "albumArtist" /\ at' = "tracks" /\ pending' = pending
      /\ TrackAlbum => at = "trackAlbum" /\ at' = "trackArtist" /\ pending' = pending
      /\ TrackArtist => at = "trackArtist" /\ at' = "credits" /\ pending' = {req.id}
  BY <1>3 DEF AlbumArtist, TrackAlbum, TrackArtist, RowOr404, ForeignKeys, Inv, Found, GetAlbum,
     GetArtist, GetTrack, handlerVars
<1>5. CoverOfAlbum => /\ at = "cover" /\ pending' = pending
                      /\ \/ at' = "photo" /\ (req.kind # "album" \/ ~GetAlbum(req.id))
                         \/ /\ at' = "open" /\ req.kind = "album"
                            /\ GetAlbum(req.id) /\ albums[req.id].listed
                         \/ /\ at' = "notfound" /\ req.kind = "album"
                            /\ ~albums[req.id].listed
  BY DEF CoverOfAlbum, handlerVars
<1>6. /\ CreditsDone => at = "credits" /\ at' = "done" /\ pending' = pending /\ pending = {}
      /\ Search => /\ at = "search" /\ pending' = pending
                   /\ at' = IF req.offset = 0 THEN "searchArtists" ELSE "done"
  BY DEF CreditsDone, Step, Search, handlerVars
<1>7. Working
  BY <1>4, <1>5, <1>6 DEF Moves, Working
<1>8. at' \in Labels /\ Complete(got)' /\ cut' \in BOOLEAN
  BY <1>1, <1>4, <1>5, <1>6 DEF Moves, Inv, Labels, Complete
<1>9. Route'
  BY <1>1, <1>4, <1>5, <1>6, <1>7 DEF Moves, Inv, Route
<1>10. CoverOfAlbum => base.rows = {} \/ req.kind = "artist" \/ at' = "open"
  BY <1>5, <1>7, RowParts, AnswerParts DEF Inv, Route, Upper, Inside
<1>11. Found'
  <2>1. TrackArtist => {req.id} \subseteq Songs(req)
    BY <1>4, <1>7 DEF Inv, Found, Route, Songs
  <2>. QED
    BY <1>1, <1>2, <1>4, <1>5, <1>6, <1>7, <1>10, <2>1 DEF Moves, Inv, Found, GetAlbum, libraryVars
<1>12. Upper'
  BY <1>1, <1>2, <1>7 DEF Inv, Upper
<1>13. Lower'
  <2>1. TrackArtist => \A c \in base.credits : c[1] = req.id
    BY <1>4, <1>7, AnswerParts DEF Inv, Route, Upper, Inside, Songs, ListArtistsByTrack
  <2>2. CASE AlbumArtist \/ TrackAlbum
    BY <1>1, <1>4, <1>7, <2>2 DEF Inv, Lower
  <2>3. CASE TrackArtist
    BY <1>1, <1>4, <1>7, <2>1, <2>3 DEF Inv, Lower
  <2>4. CASE CreditsDone
    BY <1>1, <1>6, <1>7, <2>4 DEF Inv, Lower
  <2>5. CASE CoverOfAlbum
    BY <1>1, <1>5, <1>7, <2>5 DEF Inv, Lower, Working
  <2>6. CASE Search
    BY <1>1, <1>6, <1>7, <2>6 DEF Inv, Lower, Nothing
  <2>. QED
    BY <2>2, <2>3, <2>4, <2>5, <2>6 DEF Moves
<1>14. Summed'
  BY <1>1, <1>4, <1>5, <1>6, <1>7 DEF Moves, Inv, Summed
<1>15. NotFoundIsMissing'
  BY <1>1, <1>4, <1>5, <1>6, <1>7, <1>10, RowParts, AnswerParts
  DEF Moves, Inv, NotFoundIsMissing, Route, Upper, Inside
<1>. QED
  BY <1>2, <1>8, <1>9, <1>11, <1>12, <1>13, <1>14, <1>15 DEF Inv

\* Steps that read rows by their ids.
ReadsRow == ArtistRow \/ AlbumStats \/ TrackRow \/ CoverOpen \/ PhotoOfArtist

LEMMA ReadsRowKeeps ==
  ASSUME Inv, ReadsRow
  PROVE  Inv'
<1>1. UNCHANGED <<req, cut, pending, broken, base, libraryVars>>
  BY DEF ReadsRow, ArtistRow, AlbumStats, TrackRow, CoverOpen, PhotoOfArtist
<1>2. Answer(req)' = Answer(req) /\ TablesOK' /\ Covered'
  BY <1>1, SameLibrary DEF Inv
<1>3. /\ ArtistRow => at = "artist" /\ at' = IF GetArtist(req.id) THEN "albumsOf" ELSE "notfound"
      /\ AlbumStats => at = "stats" /\ at' = IF GetAlbum(req.id) THEN "albumArtist" ELSE "notfound"
      /\ TrackRow => at = "track" /\ at' = IF GetTrack(req.id) THEN "trackAlbum" ELSE "notfound"
      /\ CoverOpen =>
           at = "open" /\ at' = IF albums[req.id].cover # "none" THEN "done" ELSE "notfound"
      /\ PhotoOfArtist =>
           at = "photo" /\ at' = IF req.kind = "artist" /\ GetArtist(req.id) /\ artists[req.id].photo
                                THEN "done" ELSE "notfound"
  BY DEF ArtistRow, AlbumStats, TrackRow, CoverOpen, PhotoOfArtist, GetRow, RowOr404
<1>4. Working
  BY <1>3 DEF ReadsRow, Working
<1>5. /\ ArtistRow => req.op = "getArtist"
      /\ AlbumStats => req.op = "getAlbum"
      /\ TrackRow => req.op = "getSong"
      /\ CoverOpen \/ PhotoOfArtist => req.op = "getCoverArt" /\ req.kind \in {"album", "artist"}
  BY <1>3, <1>4 DEF Inv, Route
<1>6. got'.rows = Row(req) \/ (PhotoOfArtist /\ req.kind = "album" /\ got'.rows = {})
  <2>1. CASE ArtistRow
    BY <1>5, <2>1, RowParts DEF ArtistRow, GetArtist, GetRow, Inv, Complete
  <2>2. CASE AlbumStats
    BY <2>2 DEF AlbumStats, Inv, Complete
  <2>3. CASE TrackRow
    BY <1>5, <2>3, RowParts DEF TrackRow, GetTrack, GetRow, Inv, Complete
  <2>4. CASE CoverOpen
    <3>1. Row(req) = {req.id} /\ albums[req.id].cover # "none"
      BY <1>3, <1>5, <2>4, RowParts DEF Inv, Found, Covered, GetAlbum
    <3>. QED
      BY <2>4, <3>1 DEF CoverOpen, GetRow, Inv, Complete
  <2>5. CASE PhotoOfArtist
    BY <1>5, <2>5, RowParts DEF PhotoOfArtist, GetRow, Inv, Complete
  <2>. QED
    BY <2>1, <2>2, <2>3, <2>4, <2>5 DEF ReadsRow
<1>7. /\ Complete(got') /\ got'.artists = got.artists /\ got'.albums = got.albums
      /\ got'.songs = got.songs /\ got'.credits = got.credits
      /\ got'.summed = IF AlbumStats THEN ListTracksByAlbum(req.id) ELSE got.summed
  <2>1. CASE AlbumStats
    BY <2>1 DEF AlbumStats, Inv, Complete, GetAlbumWithStats, ListTracksByAlbum
  <2>2. CASE ~AlbumStats
    BY <2>2 DEF ReadsRow, ArtistRow, TrackRow, CoverOpen, PhotoOfArtist, GetRow, Inv, Complete
  <2>. QED
    BY <2>1, <2>2
<1>8. PhotoOfArtist /\ req.kind = "album" => base.rows = {}
  BY <1>3 DEF Inv, Found
<1>9. base.rows \subseteq Row(req)
  BY <1>4, AnswerParts DEF Inv, Upper, Inside
<1>10. at' \in Labels /\ cut' \in BOOLEAN
  BY <1>1, <1>3 DEF ReadsRow, Inv, Labels
<1>11. Route'
  BY <1>1, <1>3, <1>4 DEF ReadsRow, Inv, Route
<1>12. Found'
  BY <1>1, <1>3, <1>4 DEF ReadsRow, Inv, Found, GetAlbum, GetTrack, libraryVars
<1>13. Upper'
  BY <1>1, <1>2, <1>4, <1>5, <1>6, <1>7, AnswerParts DEF Inv, Upper, Inside
<1>14. Lower'
  <2>1. AlbumStats => base.summed \subseteq got'.summed
    BY <1>4, <1>5, <1>7, AnswerParts DEF Inv, Upper, Inside
  <2>2. base.rows \subseteq got'.rows
    BY <1>6, <1>8, <1>9
  <2>. QED
    BY <1>1, <1>3, <1>4, <1>7, <2>1, <2>2 DEF ReadsRow, Inv, Lower, Working
<1>15. Summed'
  BY <1>3, <1>4, <1>7 DEF ReadsRow, Inv, Summed, Working
<1>16. NotFoundIsMissing'
  BY <1>1, <1>3, <1>4, <1>5, <1>6, <1>8, <1>9, RowParts DEF ReadsRow, Inv, NotFoundIsMissing, Found, Covered, GetAlbum
<1>. QED
  BY <1>2, <1>7, <1>10, <1>11, <1>12, <1>13, <1>14, <1>15, <1>16 DEF Inv, Complete

\* LIMIT leaves rows out only where there are too many of them.
LEMMA LimitedRows ==
  ASSUME NEW S, IsFiniteSet(S), SearchLimit \in Nat, NEW rows \in Limited(S, SearchLimit)
  PROVE  rows \subseteq S /\ (Cardinality(S) > SearchLimit \/ rows = S)
<1>1. Cardinality(S) \in Nat
  BY FS_CardinalityType
<1>. QED
  BY <1>1 DEF Limited

LEMMA FiniteLists ==
  ASSUME BrowsingAssumption, TablesOK
  PROVE  IsFiniteSet(SearchArtists) /\ IsFiniteSet(SearchAlbums) /\ IsFiniteSet(SearchTracks)
<1>1. \A n \in Nat : IsFiniteSet(1..n)
  BY FS_Interval
<1>2. IsFiniteSet(DOMAIN artists) /\ IsFiniteSet(DOMAIN albums)
  <2>1. /\ DOMAIN artists = 1..Len(artists) /\ Len(artists) \in Nat
        /\ DOMAIN albums = 1..Len(albums) /\ Len(albums) \in Nat
    BY DEF TablesOK
  <2>. QED
    BY <1>1, <2>1
<1>3. SearchArtists \subseteq DOMAIN artists
  BY DEF SearchArtists, ListArtists
<1>4. SearchAlbums \subseteq DOMAIN albums /\ SearchTracks \subseteq Files
  BY DEF SearchAlbums, SearchTracks
<1>. QED
  BY <1>2, <1>3, <1>4, FS_Subset DEF BrowsingAssumption

\* Steps that read a list.
ReadsList == GetArtists \/ ArtistAlbums \/ FindArtists \/ FindAlbums \/ FindTracks

LEMMA ReadsListKeeps ==
  ASSUME BrowsingAssumption, Inv, ReadsList
  PROVE  Inv'
<1>1. UNCHANGED <<req, pending, broken, base, libraryVars>>
  BY DEF ReadsList, GetArtists, ArtistAlbums, FindArtists, FindAlbums, FindTracks
<1>2. Answer(req)' = Answer(req) /\ TablesOK' /\ Covered'
  BY <1>1, SameLibrary DEF Inv
<1>3. /\ GetArtists => at = "listArtists" /\ at' = "done"
      /\ ArtistAlbums => at = "albumsOf" /\ at' = "done"
      /\ FindArtists => at = "searchArtists" /\ at' = "searchAlbums"
      /\ FindAlbums => at = "searchAlbums" /\ at' = "searchTracks"
      /\ FindTracks => at = "searchTracks" /\ at' = "done"
  BY DEF GetArtists, ArtistAlbums, FindArtists, FindAlbums, FindTracks, Step
<1>4. Working /\ Working'
  BY <1>3 DEF ReadsList, Working
<1>5. /\ GetArtists => req.op = "getArtists"
      /\ ArtistAlbums => req.op = "getArtist"
      /\ FindArtists \/ FindAlbums \/ FindTracks => req.op = "search3"
  BY <1>3, <1>4 DEF Inv, Route
<1>6. /\ Complete(got') /\ cut' \in BOOLEAN
      /\ got'.rows = got.rows /\ got'.summed = got.summed /\ got'.credits = got.credits
      /\ GetArtists \/ FindArtists \/ got'.artists = got.artists
      /\ ArtistAlbums \/ FindAlbums \/ got'.albums = got.albums
      /\ FindTracks \/ got'.songs = got.songs
  <2>1. CASE GetArtists
    BY <2>1 DEF GetArtists, Inv, Complete
  <2>2. CASE ArtistAlbums
    BY <2>2 DEF ArtistAlbums, Inv, Complete
  <2>3. CASE FindArtists
    BY <2>3 DEF FindArtists, Inv, Complete
  <2>4. CASE FindAlbums
    BY <2>4 DEF FindAlbums, Inv, Complete
  <2>5. CASE FindTracks
    BY <2>5 DEF FindTracks, Inv, Complete
  <2>. QED
    BY <2>1, <2>2, <2>3, <2>4, <2>5 DEF ReadsList
<1>7. /\ IsFiniteSet(SearchArtists) /\ IsFiniteSet(SearchAlbums) /\ IsFiniteSet(SearchTracks)
      /\ SearchLimit \in Nat
  BY FiniteLists DEF Inv, BrowsingAssumption
<1>8. /\ GetArtists => got'.artists = ListArtists /\ cut' = cut
      /\ ArtistAlbums => got'.albums = ListAlbumsByArtist(req.id) /\ cut' = cut
  BY DEF GetArtists, ArtistAlbums, Inv, Complete
<1>9. FindArtists => got'.artists \subseteq SearchArtists /\ (cut' \/ got'.artists = SearchArtists)
  <2>. SUFFICES ASSUME FindArtists PROVE got'.artists \subseteq SearchArtists /\ (cut' \/ got'.artists = SearchArtists)
    OBVIOUS
  <2>1. PICK rows \in Limited(SearchArtists, SearchLimit) : got' = [got EXCEPT !.artists = rows]
    BY DEF FindArtists
  <2>2. got'.artists = rows
    BY <2>1 DEF Inv, Complete
  <2>3. rows \subseteq SearchArtists /\ (Cardinality(SearchArtists) > SearchLimit \/ rows = SearchArtists)
    BY <1>7, LimitedRows
  <2>. QED
    BY <2>2, <2>3 DEF FindArtists, Inv
<1>10. FindAlbums => got'.albums \subseteq SearchAlbums /\ (cut' \/ (~cut /\ got'.albums = SearchAlbums))
  <2>. SUFFICES ASSUME FindAlbums PROVE got'.albums \subseteq SearchAlbums /\ (cut' \/ (~cut /\ got'.albums = SearchAlbums))
    OBVIOUS
  <2>1. PICK rows \in Limited(SearchAlbums, SearchLimit) : got' = [got EXCEPT !.albums = rows]
    BY DEF FindAlbums
  <2>2. got'.albums = rows
    BY <2>1 DEF Inv, Complete
  <2>3. rows \subseteq SearchAlbums /\ (Cardinality(SearchAlbums) > SearchLimit \/ rows = SearchAlbums)
    BY <1>7, LimitedRows
  <2>. QED
    BY <2>2, <2>3 DEF FindAlbums, Inv
<1>11. FindTracks => got'.songs \subseteq SearchTracks /\ (cut' \/ (~cut /\ got'.songs = SearchTracks))
  <2>. SUFFICES ASSUME FindTracks PROVE got'.songs \subseteq SearchTracks /\ (cut' \/ (~cut /\ got'.songs = SearchTracks))
    OBVIOUS
  <2>1. PICK rows \in Limited(SearchTracks, SearchLimit) : got' = [got EXCEPT !.songs = rows]
    BY DEF FindTracks
  <2>2. got'.songs = rows
    BY <2>1 DEF Inv, Complete
  <2>3. rows \subseteq SearchTracks /\ (Cardinality(SearchTracks) > SearchLimit \/ rows = SearchTracks)
    BY <1>7, LimitedRows
  <2>. QED
    BY <2>2, <2>3 DEF FindTracks, Inv
<1>12. at' \in Labels
  BY <1>3 DEF ReadsList, Labels
<1>13. Route'
  BY <1>1, <1>3, <1>4, <1>5 DEF ReadsList, Inv, Route
<1>14. Found'
  BY <1>1, <1>3, <1>4 DEF ReadsList, Inv, Found
<1>15. Upper'
  BY <1>1, <1>2, <1>4, <1>5, <1>6, <1>8, <1>9, <1>10, <1>11, AnswerParts DEF Inv, Upper, Inside
<1>16. Lower'
  <2>1. /\ GetArtists \/ FindArtists => cut' \/ base.artists \subseteq got'.artists
        /\ ArtistAlbums \/ FindAlbums => cut' \/ base.albums \subseteq got'.albums
        /\ FindTracks => cut' \/ base.songs \subseteq got'.songs
    BY <1>4, <1>5, <1>8, <1>9, <1>10, <1>11, AnswerParts DEF Inv, Upper, Inside
  <2>. QED
    BY <1>1, <1>3, <1>4, <1>6, <1>8, <1>10, <1>11, <2>1 DEF ReadsList, Inv, Lower
<1>17. Summed'
  BY <1>1, <1>3, <1>4, <1>5, <1>6, AnswerParts DEF ReadsList, Inv, Summed, Upper, Inside
<1>18. NotFoundIsMissing'
  BY <1>3 DEF ReadsList, NotFoundIsMissing
<1>. QED
  BY <1>2, <1>6, <1>12, <1>13, <1>14, <1>15, <1>16, <1>17, <1>18 DEF Inv, Complete

\* The songs of an album and their credits.
LEMMA SongsKeep ==
  ASSUME Inv, AlbumTracks \/ Credits
  PROVE  Inv'
<1>1. UNCHANGED <<req, cut, broken, base, libraryVars>>
  BY DEF AlbumTracks, Credits
<1>2. /\ Answer(req)' = Answer(req) /\ Songs(req)' = Songs(req)
      /\ TablesOK' /\ Covered'
  BY <1>1, SameLibrary DEF Inv
<1>3. at' = "credits" /\ (AlbumTracks => at = "tracks") /\ (Credits => at = "credits")
  BY DEF AlbumTracks, Credits, Step
<1>4. Working /\ Working'
  BY <1>3 DEF Working
<1>5. /\ AlbumTracks => req.op = "getAlbum"
      /\ Credits => req.op \in {"getAlbum", "getSong"}
  BY <1>3, <1>4 DEF Inv, Route
<1>6. CASE AlbumTracks
  <2>1. /\ Complete(got') /\ got'.songs = ListTracksByAlbum(req.id)
        /\ pending' = ListTracksByAlbum(req.id)
        /\ got'.rows = got.rows /\ got'.artists = got.artists /\ got'.albums = got.albums
        /\ got'.summed = got.summed /\ got'.credits = got.credits
    BY <1>6 DEF AlbumTracks, Inv, Complete
  <2>2. Songs(req) = ListTracksByAlbum(req.id)
    BY <1>5, <1>6 DEF Songs
  <2>3. Upper'
    BY <1>1, <1>2, <1>4, <1>5, <1>6, <2>1, AnswerParts DEF Inv, Upper, Inside
  <2>4. \A c \in base.credits : c[1] \in pending'
    BY <1>4, <2>1, <2>2, AnswerParts DEF Inv, Upper, Inside, ListArtistsByTrack
  <2>5. base.songs \subseteq got'.songs /\ got'.summed \subseteq got'.songs
    BY <1>4, <1>5, <1>6, <2>1, AnswerParts DEF Inv, Upper, Inside
  <2>6. Lower' /\ Summed'
    BY <1>1, <1>3, <1>4, <1>6, <2>1, <2>4, <2>5 DEF Inv, Lower, Summed
  <2>7. Route' /\ Found' /\ NotFoundIsMissing'
    BY <1>1, <1>2, <1>3, <1>4, <1>5, <1>6, <2>1, <2>2 DEF Inv, Route, Found, NotFoundIsMissing
  <2>. QED
    BY <1>1, <1>2, <1>3, <2>1, <2>3, <2>6, <2>7 DEF Inv, Labels, Complete
<1>7. CASE Credits
  <2>1. PICK f \in pending : /\ pending' = pending \ {f}
                             /\ got' = [got EXCEPT !.credits = @ \cup ListArtistsByTrack(f)]
    BY <1>7 DEF Credits
  <2>2. /\ Complete(got') /\ got'.credits = got.credits \cup ListArtistsByTrack(f)
        /\ got'.rows = got.rows /\ got'.artists = got.artists /\ got'.albums = got.albums
        /\ got'.summed = got.summed /\ got'.songs = got.songs
    BY <2>1 DEF Inv, Complete
  <2>3. pending \subseteq Songs(req)
    BY <1>3, <1>7 DEF Inv, Found
  <2>4. Answer(req).credits = UNION {ListArtistsByTrack(g) : g \in Songs(req)}
    BY AnswerParts
  <2>5. Upper'
    BY <1>1, <1>2, <1>4, <2>1, <2>2, <2>3, <2>4 DEF Inv, Upper, Inside
  <2>6. \A c \in base.credits : c[1] = f => c \in ListArtistsByTrack(f)
    BY <1>4, <2>4 DEF Inv, Upper, Inside, ListArtistsByTrack
  <2>7. Lower' /\ Summed'
    BY <1>1, <1>3, <1>4, <1>7, <2>1, <2>2, <2>6 DEF Inv, Lower, Summed
  <2>8. Route' /\ Found' /\ NotFoundIsMissing'
    BY <1>1, <1>2, <1>3, <1>4, <1>5, <1>7, <2>1, <2>3 DEF Inv, Route, Found, NotFoundIsMissing
  <2>. QED
    BY <1>1, <1>2, <1>3, <2>2, <2>5, <2>7, <2>8 DEF Inv, Labels, Complete
<1>. QED
  BY <1>6, <1>7

\* A search goes on from an empty page, and past the first one nothing is found.
LEMMA SearchOnKeeps ==
  ASSUME Inv, SearchOn
  PROVE  Inv'
<1>1. /\ at = "done" /\ at' = "search" /\ req.op = "search3"
      /\ req' = [req EXCEPT !.offset = 1]
      /\ got' = Nothing /\ cut' = FALSE /\ base' = Nothing
      /\ UNCHANGED <<pending, broken, libraryVars>>
  BY DEF SearchOn
<1>2. Working /\ Working'
  BY <1>1 DEF Working
<1>3. /\ req'.op = "search3" /\ req'.offset = 1
      /\ req' = [op |-> req'.op, id |-> req'.id, kind |-> req'.kind, offset |-> req'.offset]
  BY <1>1, <1>2 DEF Inv, Route
<1>4. TablesOK' /\ Covered'
  BY <1>1, SameLibrary DEF Inv
<1>5. at' \in Labels /\ Complete(got') /\ cut' \in BOOLEAN
  BY <1>1 DEF Labels, Complete, Nothing
<1>6. Route' /\ Found'
  BY <1>1, <1>2, <1>3 DEF Inv, Route, Found
<1>7. Upper' /\ Lower' /\ Summed' /\ NotFoundIsMissing'
  BY <1>1 DEF Upper, Inside, Lower, Summed, NotFoundIsMissing, Nothing
<1>. QED
  BY <1>4, <1>5, <1>6, <1>7 DEF Inv, Complete

\* Steps after which no request is being answered.
Rests == GetAlbumList \/ Receive \/ Fails \/ \E p \in Pagings : StartPaging(p)

LEMMA RestsKeep ==
  ASSUME Inv, Rests
  PROVE  Inv'
<1>1. UNCHANGED libraryVars /\ at' \in {"idle", "notfound", "failed", "page", "paged"}
  BY DEF Rests, GetAlbumList, Receive, Fails, StartPaging
<1>2. /\ Complete(got') /\ cut' \in BOOLEAN
      /\ at' = "idle" => got' = Nothing /\ pending' = {}
      /\ at' = "notfound" => broken'
  BY DEF Rests, GetAlbumList, Receive, Fails, StartPaging, handlerVars, Inv, Complete, Nothing
<1>3. TablesOK' /\ Covered'
  BY <1>1, SameLibrary DEF Inv
<1>4. at' \in Labels /\ ~Working'
  BY <1>1 DEF Labels, Working
<1>5. Route' /\ Upper' /\ Lower' /\ Summed'
  BY <1>4 DEF Route, Upper, Lower, Summed
<1>6. Found' /\ NotFoundIsMissing'
  BY <1>1, <1>2, <1>4 DEF Found, NotFoundIsMissing
<1>. QED
  BY <1>2, <1>3, <1>4, <1>5, <1>6 DEF Inv, Complete

\* Ingestion takes nothing away that a handler has seen.
LEMMA IngestionKeeps ==
  ASSUME Inv, Ingestion \/ UNCHANGED vars
  PROVE  Inv'
<1>1. [Grow]_libraryVars /\ UNCHANGED <<at, req, got, cut, pending, broken, base>>
  BY DEF Ingestion, vars, handlerVars
<1>2. TablesOK' /\ Covered' /\ Kept
  BY <1>1, TablesNext, GrowKeeps DEF Inv
<1>3. Inside(Answer(req), Answer(req)')
  <2>1. \A part \in Parts : Answer(req)[part] \subseteq (Answer(req)')[part]
    BY <1>1, <1>2, AnswerGrows DEF Inv
  <2>. QED
    BY <2>1 DEF Parts, Inside
<1>4. Songs(req) \subseteq Songs(req)'
  BY <1>1, <1>2, SongsGrow DEF Inv
<1>5. at' \in Labels /\ Complete(got') /\ cut' \in BOOLEAN
  BY <1>1 DEF Inv, Complete
<1>6. Route' /\ Lower' /\ Summed' /\ NotFoundIsMissing'
  BY <1>1 DEF Inv, Route, Lower, Summed, NotFoundIsMissing, Working
<1>7. Found'
  <2>1. GetAlbum(req.id) => GetAlbum(req.id)' /\ (albums[req.id].listed => albums'[req.id].listed)
    BY <1>1, <1>2 DEF Kept, GetAlbum
  <2>2. GetTrack(req.id) => GetTrack(req.id)'
    BY <1>1, <1>2 DEF Kept, GetTrack
  <2>. QED
    BY <1>1, <1>4, <2>1, <2>2 DEF Inv, Found, Working
<1>8. Upper'
  BY <1>1, <1>3 DEF Inv, Upper, Inside, Working
<1>. QED
  BY <1>2, <1>5, <1>6, <1>7, <1>8 DEF Inv, Complete

LEMMA InvNext == BrowsingAssumption /\ Inv /\ [Next]_vars => Inv'
BY SendKeeps, MovesKeep, ReadsRowKeeps, ReadsListKeeps, SongsKeep, SearchOnKeeps, RestsKeep,
  IngestionKeeps
DEF Next, Handle, Moves, ReadsRow, ReadsList, Rests

LEMMA InvInit == Init => Inv
BY TablesInit DEF Init, Inv, Labels, Complete, Nothing, Route, Found, Upper, Lower, Summed,
  NotFoundIsMissing, Working

LEMMA Invariant == Spec => []Inv
BY InvInit, InvNext, BrowsingAssumption, PTL DEF Spec

-----------------------------------------------------------------------------
(* The theorems.                                                           *)

\* An answer is between what there was when the request came and what there is
\* when it is given, for any library that grows one statement at a time between
\* the handler's queries.
THEOREM AnswersBetween == Spec => []Between
<1>1. Inv => Between
  <2>. SUFFICES ASSUME Inv, at = "done"
                PROVE  Within(got, Answer(req)) /\ (~cut => Within(base, got))
    BY DEF Between
  <2>1. Inside(got, Answer(req)) /\ (~cut => Inside(base, got))
    BY DEF Inv, Upper, Lower, Found, Working, Inside
  <2>. QED
    BY <2>1, NothingParts DEF Within, Inside, Parts
<1>. QED
  BY <1>1, Invariant, PTL

\* getAlbum lists every song its sums have counted.
THEOREM SumsBehindSongs == Spec => []StatsBehindSongs
<1>1. Inv => StatsBehindSongs
  BY DEF Inv, Summed, StatsBehindSongs, Working
<1>. QED
  BY <1>1, Invariant, PTL

\* Without a failing query "not found" is said of what was not there.
THEOREM MissingWasMissing == Spec => []NotFoundIsMissing
BY Invariant, PTL DEF Inv

-----------------------------------------------------------------------------
(* Paging through the albums while the list grows.                         *)

\* The albums that any list has in front of b, unless a title comes twice.
InFrontOf(b) ==
  {c \in DOMAIN albums : IF paging.type = "newest" THEN c > b ELSE albums[c].title < albums[b].title}

Rank(b) == Cardinality(InFrontOf(b))

Tied(b) ==
  /\ paging.type # "newest"
  /\ \E c \in DOMAIN albums \ {b} : albums[c].title = albums[b].title

\* What the client has not met is behind the offset.
PagesInv ==
  /\ at = "page" =>
       /\ paging = [type |-> paging.type, size |-> paging.size, offset |-> paging.offset,
                    seen |-> paging.seen]
       /\ paging.offset \in Nat /\ paging.size \in Nat \ {0}
       /\ base.albums \subseteq DOMAIN albums
       /\ \A b \in base.albums : Tied(b) \/ b \in paging.seen \/ paging.offset <= Rank(b)
  /\ at = "paged" =>
       /\ base.albums \subseteq DOMAIN albums
       /\ \A b \in base.albums : Tied(b) \/ b \in paging.seen

LEMMA IntervalCounts ==
  ASSUME NEW n \in Nat
  PROVE  IsFiniteSet(1..n) /\ Cardinality(1..n) = n
<1>1. 1 \in Int /\ n \in Int
  OBVIOUS
<1>2. IsFiniteSet(1..n) /\ Cardinality(1..n) = IF 1 > n THEN 0 ELSE n - 1 + 1
  BY <1>1, FS_Interval, Zenon
<1>. QED
  BY <1>2

\* A subset of the first n numbers, and one that leaves a number out.
LEMMA SubsetCounts ==
  ASSUME NEW n \in Nat, NEW S \in SUBSET (1..n)
  PROVE  /\ IsFiniteSet(S) /\ Cardinality(S) \in Nat
         /\ \A b \in 1..n : b \notin S => Cardinality(S) < n
<1>1. IsFiniteSet(1..n) /\ Cardinality(1..n) = n
  BY IntervalCounts
<1>2. /\ IsFiniteSet(S) /\ Cardinality(S) <= n
      /\ Cardinality(S) = n => S = 1..n
  BY <1>1, FS_Subset
<1>3. Cardinality(S) \in Nat
  BY <1>2, FS_CardinalityType
<1>. QED
  BY <1>2, <1>3

LEMMA AlbumsAreNumbered ==
  ASSUME TablesOK, BrowsingAssumption
  PROVE  /\ Len(albums) \in Nat /\ DOMAIN albums = 1..Len(albums)
         /\ \A b \in DOMAIN albums : albums[b].title \in Int
<1>1. Len(albums) \in Nat /\ DOMAIN albums = 1..Len(albums)
  BY DEF TablesOK
<1>2. albums \in Seq(AlbumTable) /\ AlbumTitles \subseteq Int
  BY DEF TablesOK, BrowsingAssumption
<1>3. \A b \in DOMAIN albums : albums[b].title \in Int
  <2>1. \A b \in DOMAIN albums : albums[b] \in AlbumTable
    BY <1>2
  <2>. QED
    BY <1>2, <2>1 DEF AlbumTable
<1>. QED
  BY <1>1, <1>3

LEMMA RankBounds ==
  ASSUME TablesOK, BrowsingAssumption, NEW b \in DOMAIN albums
  PROVE  Rank(b) \in Nat /\ Rank(b) < Len(albums)
<1>1. /\ Len(albums) \in Nat /\ DOMAIN albums = 1..Len(albums)
      /\ \A c \in DOMAIN albums : albums[c].title \in Int
  BY AlbumsAreNumbered
<1>2. InFrontOf(b) \subseteq 1..Len(albums) /\ b \notin InFrontOf(b)
  BY <1>1 DEF InFrontOf
<1>. QED
  BY <1>1, <1>2, SubsetCounts DEF Rank

\* In every list an album whose title comes once is where its rank says.
LEMMA ListPlace ==
  ASSUME TablesOK, BrowsingAssumption, NEW list \in ListAlbums(paging.type),
         NEW b \in DOMAIN albums, ~Tied(b)
  PROVE  /\ DOMAIN list = 1..Len(albums)
         /\ Rank(b) + 1 \in DOMAIN list /\ list[Rank(b) + 1] = b
<1>. DEFINE n == Len(albums)
<1>1. /\ n \in Nat /\ DOMAIN albums = 1..n
      /\ IsFiniteSet(1..n) /\ Cardinality(1..n) = n
      /\ \A c \in DOMAIN albums : albums[c].title \in Int
  BY AlbumsAreNumbered, IntervalCounts
<1>2. /\ list \in [1..n -> 1..n]
      /\ \A i, j \in 1..n :
           i < j => /\ list[i] # list[j]
                    /\ IF paging.type = "newest" THEN list[i] > list[j]
                       ELSE albums[list[i]].title <= albums[list[j]].title
  BY <1>1 DEF ListAlbums, ListAlbumsNewest, ListAlbumsAlphabetical, Orders, AlbumRows
<1>3. list \in Injection(1..n, 1..n)
  BY <1>1, <1>2 DEF Injection, IsInjective
<1>4. list \in Surjection(1..n, 1..n)
  BY <1>1, <1>3, FS_Injection
<1>5. PICK p \in 1..n : list[p] = b
  BY <1>1, <1>4 DEF Surjection
<1>. DEFINE before == [i \in 1..p - 1 |-> list[i]]
<1>6. ASSUME NEW i \in 1..p - 1 PROVE list[i] \in InFrontOf(b)
  <2>1. i \in 1..n /\ i < p
    BY <1>1
  <2>2. list[i] \in DOMAIN albums /\ list[i] # b
        /\ IF paging.type = "newest" THEN list[i] > b ELSE albums[list[i]].title <= albums[b].title
    BY <1>1, <1>2, <1>5, <2>1
  <2>. QED
    BY <1>1, <2>2 DEF InFrontOf, Tied
<1>7. ASSUME NEW c \in InFrontOf(b) PROVE \E i \in 1..p - 1 : list[i] = c
  <2>1. PICK i \in 1..n : list[i] = c
    BY <1>1, <1>4 DEF Surjection, InFrontOf
  <2>2. i # p
    BY <1>1, <1>5, <2>1 DEF InFrontOf
  <2>3. ~(p < i)
    BY <1>1, <1>2, <1>5, <2>1 DEF InFrontOf
  <2>. QED
    BY <1>1, <2>1, <2>2, <2>3
<1>8. before \in Bijection(1..p - 1, InFrontOf(b))
  <2>1. before \in [1..p - 1 -> InFrontOf(b)]
    BY <1>6
  <2>2. \A i, j \in 1..p - 1 : before[i] = before[j] => i = j
    BY <1>1, <1>2
  <2>3. \A c \in InFrontOf(b) : \E i \in 1..p - 1 : before[i] = c
    BY <1>7
  <2>. HIDE DEF before
  <2>. QED
    BY <2>1, <2>2, <2>3 DEF Bijection, Injection, Surjection, IsInjective
<1>9. Rank(b) = p - 1
  <2>1. p - 1 \in Nat
    BY <1>1
  <2>2. IsFiniteSet(1..p - 1) /\ Cardinality(1..p - 1) = p - 1
    BY <2>1, IntervalCounts
  <2>3. ExistsBijection(1..p - 1, InFrontOf(b))
    BY <1>8 DEF ExistsBijection
  <2>. QED
    BY <2>2, <2>3, FS_Bijection DEF Rank
<1>. QED
  BY <1>1, <1>2, <1>5, <1>9

\* A page has the albums whose ranks are on it.
LEMMA PageKeeps ==
  ASSUME TablesOK, BrowsingAssumption, PagesInv, GetAlbumList
  PROVE  PagesInv'
<1>1. PICK list \in ListAlbums(paging.type) :
        LET rows == Page(list, paging.size, paging.offset)
        IN  /\ at' = IF rows = {} THEN "paged" ELSE "page"
            /\ paging' = [paging EXCEPT !.offset = @ + paging.size, !.seen = @ \cup rows]
  BY DEF GetAlbumList
<1>. DEFINE rows == Page(list, paging.size, paging.offset)
<1>2. /\ at = "page" /\ UNCHANGED <<base, albums>>
      /\ paging.offset \in Nat /\ paging.size \in Nat \ {0}
      /\ base.albums \subseteq DOMAIN albums
      /\ \A b \in base.albums : Tied(b) \/ b \in paging.seen \/ paging.offset <= Rank(b)
  BY DEF GetAlbumList, PagesInv, libraryVars
<1>. HIDE DEF rows
<1>3. /\ paging'.type = paging.type /\ paging'.size = paging.size
      /\ paging'.offset = paging.offset + paging.size /\ paging'.seen = paging.seen \cup rows
      /\ paging' = [type |-> paging'.type, size |-> paging'.size, offset |-> paging'.offset,
                    seen |-> paging'.seen]
  BY <1>1, <1>2 DEF PagesInv, rows
<1>4. \A b : Tied(b)' = Tied(b) /\ Rank(b)' = Rank(b)
  BY <1>2, <1>3 DEF Tied, Rank, InFrontOf
<1>5. ASSUME NEW b \in base.albums, ~Tied(b), b \notin paging.seen, Rank(b) < paging.offset + paging.size
      PROVE  b \in rows
  <2>1. b \in DOMAIN albums /\ paging.offset <= Rank(b)
    BY <1>2, <1>5
  <2>2. Rank(b) + 1 \in DOMAIN list /\ list[Rank(b) + 1] = b /\ Rank(b) \in Nat
    BY <1>5, <2>1, ListPlace, RankBounds
  <2>3. Rank(b) + 1 \in (paging.offset + 1)..(paging.offset + paging.size)
    BY <1>2, <1>5, <2>1, <2>2
  <2>. QED
    BY <2>2, <2>3 DEF rows, Page
<1>6. \A b \in base.albums : Tied(b) \/ b \in paging'.seen \/ paging'.offset <= Rank(b)
  <2>1. \A b \in base.albums : Rank(b) \in Nat
    BY <1>2, RankBounds
  <2>. QED
    BY <1>2, <1>3, <1>5, <2>1
<1>7. CASE rows = {}
  <2>1. ASSUME NEW b \in base.albums, ~Tied(b), b \notin paging.seen PROVE FALSE
    <3>1. b \in DOMAIN albums /\ paging.offset <= Rank(b)
      BY <1>2, <2>1
    <3>2. /\ Rank(b) + 1 \in DOMAIN list /\ Rank(b) \in Nat
          /\ DOMAIN list = 1..Len(albums) /\ Len(albums) \in Nat
      BY <2>1, <3>1, ListPlace, RankBounds, AlbumsAreNumbered
    <3>3. paging.offset + 1 \in DOMAIN list \cap (paging.offset + 1)..(paging.offset + paging.size)
      BY <1>2, <3>1, <3>2
    <3>. QED
      BY <1>7, <3>3 DEF rows, Page
  <2>2. at' = "paged"
    BY <1>1, <1>7 DEF rows
  <2>. QED
    BY <1>2, <1>3, <1>4, <2>1, <2>2 DEF PagesInv
<1>8. CASE rows # {}
  <2>1. at' = "page"
    BY <1>1, <1>8 DEF rows
  <2>2. paging'.offset \in Nat
    BY <1>2, <1>3
  <2>. QED
    BY <1>2, <1>3, <1>4, <1>6, <2>1, <2>2 DEF PagesInv
<1>. QED
  BY <1>7, <1>8

\* A new album never moves another one to the front.
LEMMA PagesGrow ==
  ASSUME TablesOK, TablesOK', BrowsingAssumption, Kept, PagesInv, UNCHANGED <<at, paging, base>>
  PROVE  PagesInv'
<1>1. /\ DOMAIN albums \subseteq DOMAIN albums'
      /\ \A b \in DOMAIN albums : albums'[b].title = albums[b].title
  BY DEF Kept
<1>0. \A b : IsFiniteSet(InFrontOf(b)') /\ Rank(b)' \in Nat
  <2>1. Len(albums') \in Nat /\ DOMAIN albums' = 1..Len(albums')
    BY DEF TablesOK
  <2>2. \A b : InFrontOf(b)' \subseteq 1..Len(albums')
    BY <2>1 DEF InFrontOf
  <2>. QED
    BY <2>1, <2>2, SubsetCounts DEF Rank
<1>2. ASSUME NEW b \in DOMAIN albums PROVE (Tied(b) => Tied(b)') /\ Rank(b) <= Rank(b)'
  <2>1. Tied(b) => Tied(b)'
    BY <1>1, <1>2 DEF Tied
  <2>2. InFrontOf(b) \subseteq InFrontOf(b)'
    BY <1>1, <1>2 DEF InFrontOf
  <2>4. Cardinality(InFrontOf(b)) <= Cardinality(InFrontOf(b)')
    BY <1>0, <2>2, FS_Subset
  <2>. QED
    BY <2>1, <2>4 DEF Rank
<1>3. \A b \in DOMAIN albums : Rank(b) \in Nat /\ Rank(b)' \in Nat
  BY <1>0, RankBounds
<1>4. CASE at = "page"
  <2>1. \A b \in base.albums : (Tied(b) \/ b \in paging.seen \/ paging.offset <= Rank(b))'
    BY <1>1, <1>2, <1>3, <1>4 DEF PagesInv
  <2>. QED
    BY <1>1, <1>4, <2>1 DEF PagesInv
<1>5. CASE at = "paged"
  BY <1>1, <1>2, <1>5 DEF PagesInv
<1>6. CASE at \notin {"page", "paged"}
  BY <1>6 DEF PagesInv
<1>. QED
  BY <1>4, <1>5, <1>6

LEMMA PagesInit == Init => PagesInv
BY DEF Init, PagesInv

LEMMA PagesNext == BrowsingAssumption /\ Inv /\ PagesInv /\ [Next]_vars => PagesInv'
<1>. SUFFICES ASSUME BrowsingAssumption, Inv, PagesInv, [Next]_vars PROVE PagesInv'
  OBVIOUS
<1>1. CASE GetAlbumList
  BY <1>1, PageKeeps DEF Inv
<1>2. ASSUME NEW p \in Pagings, StartPaging(p) PROVE PagesInv'
  <2>1. /\ at' = "page" /\ UNCHANGED albums
        /\ paging' = [type |-> p.type, size |-> p.size, offset |-> 0, seen |-> {}]
        /\ base'.albums = DOMAIN albums /\ p.size \in Nat \ {0}
    BY <1>2 DEF StartPaging, libraryVars, Nothing, BrowsingAssumption
  <2>2. Len(albums') \in Nat /\ DOMAIN albums' = 1..Len(albums')
    BY <2>1 DEF Inv, TablesOK
  <2>3. \A b : Rank(b)' \in Nat
    <3>1. \A b : InFrontOf(b)' \subseteq 1..Len(albums')
      BY <2>2 DEF InFrontOf
    <3>. QED
      BY <2>2, <3>1, SubsetCounts DEF Rank
  <2>. QED
    BY <2>1, <2>3 DEF PagesInv
<1>3. CASE Ingestion \/ UNCHANGED vars
  <2>1. [Grow]_libraryVars /\ UNCHANGED <<at, paging, base>>
    BY <1>3 DEF Ingestion, vars, handlerVars
  <2>2. TablesOK /\ TablesOK' /\ Kept
    BY <2>1, TablesNext, GrowKeeps DEF Inv
  <2>. QED
    BY <2>1, <2>2, PagesGrow
<1>4. CASE at' \notin {"page", "paged"}
  BY <1>4 DEF PagesInv
<1>5. ASSUME NEW r \in Requests, Send(r), r.op \in Ops PROVE at' \notin {"page", "paged"}
  BY <1>5 DEF Send, First, Ops
<1>6. Handle \/ Fails => GetAlbumList \/ at' \notin {"page", "paged"}
  <2>1. CASE Moves \/ ReadsRow \/ SearchOn
    <3>1. at \notin {"page", "paged"}
      BY <2>1 DEF Moves, AlbumArtist, TrackAlbum, TrackArtist, CreditsDone, CoverOfAlbum, Search,
                  ReadsRow, ArtistRow, AlbumStats, TrackRow, CoverOpen, PhotoOfArtist, SearchOn,
                  GetRow, RowOr404, Step
    <3>. QED
      BY <2>1 DEF Moves, AlbumArtist, TrackAlbum, TrackArtist, CreditsDone, CoverOfAlbum, Search,
                  ReadsRow, ArtistRow, AlbumStats, TrackRow, CoverOpen, PhotoOfArtist, SearchOn,
                  GetRow, RowOr404, Step
  <2>2. CASE ReadsList \/ AlbumTracks \/ Credits
    BY <2>2 DEF ReadsList, GetArtists, ArtistAlbums, FindArtists, FindAlbums, FindTracks,
                AlbumTracks, Credits, Step
  <2>3. CASE Receive \/ Fails
    BY <2>3 DEF Receive, Fails
  <2>. QED
    BY <2>1, <2>2, <2>3 DEF Handle, Moves, ReadsRow, ReadsList
<1>. QED
  BY <1>1, <1>2, <1>3, <1>4, <1>5, <1>6 DEF Next, BrowsingAssumption

\* A client that pages until nothing comes has met every album there was when it
\* began, whatever was added meanwhile, if the order of its list tells the album
\* from the others (AlbumListHandler, AlbumList2Handler).
THEOREM PagesMissNothing == Spec => []PagesComplete
<1>1. PagesInv => PagesComplete
  BY DEF PagesInv, PagesComplete, Tied
<1>. QED
  BY <1>1, PagesInit, PagesNext, Invariant, BrowsingAssumption, PTL DEF Spec
=============================================================================
