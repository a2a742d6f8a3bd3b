------------------------------- MODULE Browsing -------------------------------
(***************************************************************************)
(* A client that browses, searches and pages while ingestion adds to the   *)
(* library.  A handler makes one query after another, without a            *)
(* transaction: what it answers was read at several moments.               *)
(*                                                                         *)
(* A label of at names the query the handler makes next.  The answer is    *)
(* got: sets of ids, one per list of the response.  Readers change         *)
(* nothing, so one of them stands for all.                                 *)
(***************************************************************************)
EXTENDS Catalog, Integers

CONSTANTS Requests,       \* [op, id] a client may send
          Pagings,        \* [type, size] of the album lists it may page through
          SearchLimit,    \* 20, the rows of one kind search3 answers
          Bounds          \* bounds of the library: [artists, albums, titles,
                          \* files, pictures]

Ops == {"getArtists", "getArtist", "getAlbum", "getSong", "search3", "getCoverArt"}

ASSUME BrowsingAssumption ==
  /\ SearchLimit \in Nat /\ IsFiniteSet(Files) /\ AlbumTitles \subseteq Int
  /\ \A p \in Pagings : p.size \in Nat \ {0}
  /\ \A r \in Requests :
       /\ r = [op |-> r.op, id |-> r.id, kind |-> r.kind, offset |-> 0]
       /\ r.op \in Ops
       /\ r.op = "getCoverArt" => r.kind \in {"album", "artist"}

VARIABLES at,
          req,      \* the request being answered, or None
          got,      \* what its queries have returned so far
          cut,      \* whether a LIMIT left rows out of got
          pending,  \* the songs whose artists are still to be listed
          paging,   \* [type, size, offset, seen] of a client paging through albums
          broken,   \* whether a query has failed
          base,     \* the answer at the moment the request came in; for a
                    \* paging client, the albums there were when it started
          bound

handlerVars == <<req, got, cut, pending, paging>>
vars == <<at, handlerVars, broken, base, bound, libraryVars>>

Nothing == [rows |-> {}, artists |-> {}, albums |-> {}, songs |-> {}, summed |-> {},
            credits |-> {}]

NotPaging == [type |-> None, size |-> 0, offset |-> 0, seen |-> {}]

Init ==
  /\ at = "idle" /\ req = None /\ got = Nothing /\ cut = FALSE /\ pending = {}
  /\ paging = NotPaging
  /\ broken = FALSE /\ base = Nothing
  /\ bound \in Bounds
  /\ LibraryInit

\* The id, if there is a row under it, or a picture.  Ids are UUIDs: those of
\* albums and of artists differ, here by the request's kind.
Row(r) ==
  LET found == CASE r.op = "getArtist" -> GetArtist(r.id)
                 [] r.op = "getAlbum" -> GetAlbum(r.id)
                 [] r.op = "getSong" -> GetTrack(r.id)
                 [] r.op = "getCoverArt" -> IF r.kind = "album"
                                            THEN GetAlbum(r.id) /\ albums[r.id].listed
                                            ELSE GetArtist(r.id) /\ artists[r.id].photo
                 [] OTHER -> FALSE
  IN  IF found THEN {r.id} ELSE {}

\* What a request would be answered if its queries were made at one moment.
Answer(r) ==
  [rows    |-> Row(r),
   artists |-> CASE r.op = "getArtists" -> ListArtists
                 [] r.op = "search3" -> SearchArtists
                 [] OTHER -> {},
   albums  |-> CASE r.op = "getArtist" -> ListAlbumsByArtist(r.id)
                 [] r.op = "search3" -> SearchAlbums
                 [] OTHER -> {},
   songs   |-> CASE r.op = "getAlbum" -> ListTracksByAlbum(r.id)
                 [] r.op = "search3" -> SearchTracks
                 [] OTHER -> {},
   summed  |-> IF r.op = "getAlbum" THEN GetAlbumWithStats(r.id) ELSE {},
   credits |-> CASE r.op = "getAlbum" -> UNION {ListArtistsByTrack(f) :
                                                  f \in ListTracksByAlbum(r.id)}
                 [] r.op = "getSong" /\ GetTrack(r.id) -> ListArtistsByTrack(r.id)
                 [] OTHER -> {}]

First(op) ==
  CASE op = "getArtists" -> "listArtists"
    [] op = "getArtist" -> "artist"
    [] op = "getAlbum" -> "stats"
    [] op = "getSong" -> "track"
    [] op = "search3" -> "search"
    [] op = "getCoverArt" -> "cover"

Send(r) ==
  /\ at = "idle"
  /\ at' = First(r.op)
  /\ req' = r
  /\ base' = Answer(r)
  /\ UNCHANGED <<got, cut, pending, paging, broken, bound, libraryVars>>

Step(from, to) == at = from /\ at' = to

\* A row that a query asks for by its id, or 404.
RowOr404(from, found, to) == at = from /\ at' = IF found THEN to ELSE "notfound"

\* The same for the row the request names.
GetRow(from, found, to) ==
  /\ RowOr404(from, found, to)
  /\ got' = [got EXCEPT !.rows = IF found THEN {req.id} ELSE {}]

\* Any query may fail; the handlers of one album, artist, song or picture
\* answer 404 to that, too.
Fails ==
  /\ at \notin {"idle", "done", "notfound", "failed", "paged"}
  /\ at' \in {"notfound", "failed"}
  /\ broken' = TRUE
  /\ UNCHANGED <<handlerVars, base, bound, libraryVars>>

GetArtists ==
  /\ Step("listArtists", "done")
  /\ got' = [got EXCEPT !.artists = ListArtists]
  /\ UNCHANGED <<req, cut, pending, paging, broken, base, bound, libraryVars>>

-----------------------------------------------------------------------------
(* getArtist, getAlbum, getSong.                                           *)

ArtistRow ==
  /\ GetRow("artist", GetArtist(req.id), "albumsOf")
  /\ UNCHANGED <<req, cut, pending, paging, broken, base, bound, libraryVars>>

ArtistAlbums ==
  /\ Step("albumsOf", "done")
  /\ got' = [got EXCEPT !.albums = ListAlbumsByArtist(req.id)]
  /\ UNCHANGED <<req, cut, pending, paging, broken, base, bound, libraryVars>>

AlbumStats ==
  /\ RowOr404("stats", GetAlbum(req.id), "albumArtist")
  /\ got' = [got EXCEPT !.rows = Row(req), !.summed = GetAlbumWithStats(req.id)]
  /\ UNCHANGED <<req, cut, pending, paging, broken, base, bound, libraryVars>>

AlbumArtist ==
  /\ RowOr404("albumArtist", GetArtist(albums[req.id].artist), "tracks")
  /\ UNCHANGED <<handlerVars, broken, base, bound, libraryVars>>

AlbumTracks ==
  /\ Step("tracks", "credits")
  /\ got' = [got EXCEPT !.songs = ListTracksByAlbum(req.id)]
  /\ pending' = ListTracksByAlbum(req.id)
  /\ UNCHANGED <<req, cut, paging, broken, base, bound, libraryVars>>

TrackRow ==
  /\ GetRow("track", GetTrack(req.id), "trackAlbum")
  /\ UNCHANGED <<req, cut, pending, paging, broken, base, bound, libraryVars>>

\* mutant: the album is looked up by the artist's id
TrackAlbumSwapped ==
  /\ RowOr404("trackAlbum", GetAlbum(tracks[req.id].artist), "trackArtist")
  /\ UNCHANGED <<handlerVars, broken, base, bound, libraryVars>>

TrackAlbum ==
  /\ RowOr404("trackAlbum", GetAlbum(tracks[req.id].album), "trackArtist")
  /\ UNCHANGED <<handlerVars, broken, base, bound, libraryVars>>

TrackArtist ==
  /\ RowOr404("trackArtist", GetArtist(tracks[req.id].artist), "credits")
  /\ pending' = {req.id}
  /\ UNCHANGED <<req, got, cut, paging, broken, base, bound, libraryVars>>

\* one query per song
Credits ==
  /\ at = "credits"
  /\ \E f \in pending :
       /\ pending' = pending \ {f}
       /\ got' = [got EXCEPT !.credits = @ \cup ListArtistsByTrack(f)]
  /\ UNCHANGED <<at, req, cut, paging, broken, base, bound, libraryVars>>

CreditsDone ==
  /\ Step("credits", "done")
  /\ pending = {}
  /\ UNCHANGED <<handlerVars, broken, base, bound, libraryVars>>

-----------------------------------------------------------------------------
(* getCoverArt: an album's file, or else a redirect to an artist's photo.  *)

CoverOfAlbum ==
  /\ at = "cover"
  /\ at' = IF req.kind # "album" \/ ~GetAlbum(req.id) THEN "photo"
           ELSE IF albums[req.id].listed THEN "open" ELSE "notfound"
  /\ UNCHANGED <<handlerVars, broken, base, bound, libraryVars>>

CoverOpen ==
  /\ GetRow("open", albums[req.id].cover # "none", "done")
  /\ UNCHANGED <<req, cut, pending, paging, broken, base, bound, libraryVars>>

PhotoOfArtist ==
  /\ GetRow("photo", req.kind = "artist" /\ GetArtist(req.id) /\ artists[req.id].photo, "done")
  /\ UNCHANGED <<req, cut, pending, paging, broken, base, bound, libraryVars>>

-----------------------------------------------------------------------------
(* search3.  Its client asks again, with an offset, until nothing comes.   *)

\* mutant: the offset is not looked at
SearchAnyOffset ==
  /\ at = "search"
  /\ at' = "searchArtists"
  /\ UNCHANGED <<handlerVars, broken, base, bound, libraryVars>>

Search ==
  /\ at = "search"
  /\ at' = IF req.offset = 0 THEN "searchArtists" ELSE "done"
  /\ UNCHANGED <<handlerVars, broken, base, bound, libraryVars>>

FindArtists ==
  /\ Step("searchArtists", "searchAlbums")
  /\ \E rows \in Limited(SearchArtists, SearchLimit) : got' = [got EXCEPT !.artists = rows]
  /\ cut' = (Cardinality(SearchArtists) > SearchLimit)
  /\ UNCHANGED <<req, pending, paging, broken, base, bound, libraryVars>>

FindAlbums ==
  /\ Step("searchAlbums", "searchTracks")
  /\ \E rows \in Limited(SearchAlbums, SearchLimit) : got' = [got EXCEPT !.albums = rows]
  /\ cut' = (cut \/ Cardinality(SearchAlbums) > SearchLimit)
  /\ UNCHANGED <<req, pending, paging, broken, base, bound, libraryVars>>

FindTracks ==
  /\ Step("searchTracks", "done")
  /\ \E rows \in Limited(SearchTracks, SearchLimit) : got' = [got EXCEPT !.songs = rows]
  /\ cut' = (cut \/ Cardinality(SearchTracks) > SearchLimit)
  /\ UNCHANGED <<req, pending, paging, broken, base, bound, libraryVars>>

\* the client's next page; base is nothing, as the offset is past it
SearchOn ==
  /\ at = "done" /\ req.op = "search3" /\ got # Nothing
  /\ at' = "search"
  /\ req' = [req EXCEPT !.offset = 1]
  /\ got' = Nothing /\ cut' = FALSE /\ base' = Nothing
  /\ UNCHANGED <<pending, paging, broken, bound, libraryVars>>

-----------------------------------------------------------------------------
(* getAlbumList2, by a client that pages until nothing comes.              *)

StartPaging(p) ==
  /\ at = "idle"
  /\ at' = "page"
  /\ paging' = [type |-> p.type, size |-> p.size, offset |-> 0, seen |-> {}]
  /\ base' = [Nothing EXCEPT !.albums = DOMAIN albums]
  /\ UNCHANGED <<req, got, cut, pending, broken, bound, libraryVars>>

ListAlbums(type) == IF type = "newest" THEN ListAlbumsNewest ELSE ListAlbumsAlphabetical

GetAlbumList ==
  /\ at = "page"
  /\ \E list \in ListAlbums(paging.type) :
       LET rows == Page(list, paging.size, paging.offset)
       IN  /\ at' = IF rows = {} THEN "paged" ELSE "page"
           /\ paging' = [paging EXCEPT !.offset = @ + paging.size, !.seen = @ \cup rows]
  /\ UNCHANGED <<req, got, cut, pending, broken, base, bound, libraryVars>>

-----------------------------------------------------------------------------

\* The client has its answer, and stops or asks for something else.
Receive ==
  /\ at \in {"done", "notfound", "failed", "paged"}
  /\ ~(at = "done" /\ req.op = "search3" /\ got # Nothing)
  /\ at' = "idle"
  /\ req' = None /\ got' = Nothing /\ cut' = FALSE /\ pending' = {} /\ paging' = NotPaging
  /\ base' = Nothing /\ broken' = FALSE
  /\ UNCHANGED <<bound, libraryVars>>

Handle ==
  \/ GetArtists \/ ArtistRow \/ ArtistAlbums
  \/ AlbumStats \/ AlbumArtist \/ AlbumTracks
  \/ TrackRow \/ TrackAlbum \/ TrackArtist \/ Credits \/ CreditsDone
  \/ CoverOfAlbum \/ CoverOpen \/ PhotoOfArtist
  \/ Search \/ FindArtists \/ FindAlbums \/ FindTracks \/ SearchOn
  \/ GetAlbumList
  \/ Receive

\* What a reader sees of a track does not depend on how complete its file was.
Ingestion ==
  /\ Grow
  /\ Len(artists') <= bound.artists /\ Len(albums') <= bound.albums
  /\ \A b \in DOMAIN albums' : albums'[b].title \in bound.titles
  /\ \A f \in Files : tracks'[f] # None => f \in bound.files /\ tracks'[f].whole
  /\ ~bound.pictures => /\ \A b \in DOMAIN albums' : albums'[b].cover = "none"
                        /\ \A a \in DOMAIN artists' : ~artists'[a].photo
  /\ UNCHANGED <<at, handlerVars, broken, base, bound>>

Next ==
  \/ \E r \in Requests : Send(r)
  \/ \E p \in Pagings : StartPaging(p)
  \/ Handle
  \/ Fails
  \/ Ingestion

Spec == Init /\ [][Next]_vars

\* a request's goroutine runs, and a client that pages goes on
FairSpec == Spec /\ WF_vars(Handle)

-----------------------------------------------------------------------------
(* Properties.                                                             *)

Labels == {"idle", "listArtists", "artist", "albumsOf", "stats", "albumArtist", "tracks", "track",
           "trackAlbum", "trackArtist", "credits", "cover", "open", "photo", "search",
           "searchArtists", "searchAlbums", "searchTracks", "page", "done", "notfound", "failed",
           "paged"}

Within(a, b) == \A part \in DOMAIN Nothing : a[part] \subseteq b[part]

\* Although it was read at several moments, an answer says nothing that is not
\* so when it is given, and leaves out nothing that was there when the request
\* came in, artists of a credit in their places: what a client has seen once,
\* it sees again.
Between ==
  at = "done" => /\ Within(got, Answer(req))
                 /\ ~cut => Within(base, got)

\* getAlbum never sums up (duration, play count) a song it does not list.
StatsBehindSongs == at = "done" => got.summed \subseteq got.songs

\* "not found" is said of a row that was not there, unless a query failed:
\* the rows a track or an album refers to are found, too.
NotFoundIsMissing == at = "notfound" /\ ~broken => base.rows = {}

\* A paging client meets every album there was when it started, whatever is
\* added in the meantime, as far as the order of the list tells albums apart.
PagesComplete ==
  at = "paged" =>
    \A b \in base.albums :
      \/ b \in paging.seen
      \/ /\ paging.type # "newest"
         /\ \E c \in DOMAIN albums \ {b} : albums[c].title = albums[b].title

\* Every request is answered, and "clients that page in a loop until they see
\* an empty response" stop.
Ends == (at # "idle") ~> (at = "idle")
=============================================================================
