------------------------------- MODULE Catalog -------------------------------
(***************************************************************************)
(* The queries that read the library, one operator per query, over the     *)
(* tables of Library.  A set of rows is the set of their ids; where the    *)
(* order of a list matters, the operator is the set of the orders the      *)
(* query leaves open.                                                      *)
(***************************************************************************)
EXTENDS LibraryGrowth, FiniteSets

CONSTANTS Matching   \* the names, titles and files a search term is found in

GetArtist(a) == a \in DOMAIN artists

GetAlbum(b) == b \in DOMAIN albums

GetTrack(f) == f \in Files /\ tracks[f] # None

\* JOIN track_artists: an artist no track is linked to is not listed
ListArtists == {a \in DOMAIN artists : \E f \in Files : Linked(f, a)}

ListAlbumsByArtist(a) == {b \in DOMAIN albums : albums[b].artist = a}

\* mutant: JOIN track_artists here, too
ListLinkedTracksByAlbum(b) ==
  {f \in Files : GetTrack(f) /\ tracks[f].album = b /\ links[f] # <<>>}

ListTracksByAlbum(b) == {f \in Files : GetTrack(f) /\ tracks[f].album = b}

\* the tracks that duration_seconds and play_count are sums over
GetAlbumWithStats(b) == {f \in Files : GetTrack(f) /\ tracks[f].album = b}

\* ORDER BY position: the credit, as a set of who comes where
ListArtistsByTrack(f) == {<<f, i, links[f][i]>> : i \in DOMAIN links[f]}

SearchArtists == {a \in ListArtists : artists[a].name \in Matching}

SearchAlbums == {b \in DOMAIN albums : albums[b].title \in Matching}

SearchTracks == {f \in Files : GetTrack(f) /\ f \in Matching}

\* LIMIT n
Limited(rows, n) ==
  IF Cardinality(rows) <= n THEN {rows} ELSE {some \in SUBSET rows : Cardinality(some) = n}

\* mutant: JOIN tracks
AlbumRowsWithTracks == {b \in DOMAIN albums : GetAlbumWithStats(b) # {}}

\* LEFT JOIN tracks: an album is listed before its first track is stored
AlbumRows == DOMAIN albums

Orders(rows, before(_, _)) ==
  {list \in [1..Cardinality(rows) -> rows] :
     \A i, j \in 1..Cardinality(rows) : i < j => list[i] # list[j] /\ before(list[i], list[j])}

\* rows are numbered in the order of their created_at
ListAlbumsNewest == Orders(AlbumRows, LAMBDA b, c : b > c)

\* ORDER BY title leaves albums of one title in any order
ListAlbumsAlphabetical == Orders(AlbumRows, LAMBDA b, c : albums[b].title <= albums[c].title)

\* LIMIT size OFFSET offset
Page(list, size, offset) == {list[i] : i \in DOMAIN list \cap (offset + 1)..(offset + size)}
=============================================================================
