--------------------------- MODULE PlaylistTables ---------------------------
(***************************************************************************)
(* The tables playlists and playlist_tracks, one operator per query.  The  *)
(* handlers use no transaction: every query commits on its own.            *)
(*                                                                         *)
(* The id of a playlist is its place in the sequence of all that were ever *)
(* created; entries[p] holds the track at each position in use, which is   *)
(* what PRIMARY KEY (playlist_id, position) makes of playlist_tracks.      *)
(***************************************************************************)
EXTENDS SequencesExt, Integers

CONSTANTS Songs,          \* the tracks there are
          None,
          Owner,          \* of the playlist there is at the start
          InitialSongs    \* and its tracks

VARIABLES playlists,  \* Seq of [owner, name, public], None once deleted
          entries     \* per playlist a function from positions to tracks

tableVars == <<playlists, entries>>

Rows(songs) == [pos \in 0..Len(songs) - 1 |-> songs[pos + 1]]

TablesInit ==
  /\ playlists = << [owner |-> Owner, name |-> "mix", public |-> FALSE] >>
  /\ entries = << Rows(InitialSongs) >>

Exists(p) == p \in DOMAIN playlists /\ playlists[p] # None

\* how many rows come before a position
Rank(rows, pos) == Cardinality({q \in DOMAIN rows : q < pos})

\* the gapless reading of the rows that clients get, and index
ListPlaylistTracks(rows) ==
  [i \in 1..Cardinality(DOMAIN rows) |-> rows[CHOOSE pos \in DOMAIN rows : Rank(rows, pos) = i - 1]]

CountPlaylistTracks(p) == Cardinality(DOMAIN entries[p])

\* with song_count, a LEFT JOIN over the rows; their order is left out
ListPlaylistsByOwner(owner) ==
  {[id |-> p, name |-> playlists[p].name, count |-> CountPlaylistTracks(p)] :
     p \in {q \in DOMAIN playlists : Exists(q) /\ playlists[q].owner = owner}}

CreatePlaylist(name, owner) ==
  /\ playlists' = Append(playlists, [owner |-> owner, name |-> name, public |-> FALSE])
  /\ entries' = Append(entries, << >>)

UpdatePlaylist(p, name, public) ==
  /\ playlists' = [playlists EXCEPT ![p].name = name, ![p].public = public]
  /\ UNCHANGED entries

\* ON DELETE CASCADE
DeletePlaylist(p) ==
  /\ playlists' = [playlists EXCEPT ![p] = None]
  /\ entries' = [entries EXCEPT ![p] = << >>]

\* mutant: only the row at position 0 is deleted
ClearOnePlaylistTrack(p) ==
  /\ entries' = [entries EXCEPT ![p] = Restrict(@, DOMAIN @ \ {0})]
  /\ UNCHANGED playlists

ClearPlaylistTracks(p) ==
  /\ entries' = [entries EXCEPT ![p] = << >>]
  /\ UNCHANGED playlists

\* foreign keys on both columns, and the primary key
Insertable(p, song, pos) == Exists(p) /\ song \in Songs /\ pos \notin DOMAIN entries[p]

\* mutant: ON CONFLICT (playlist_id, position) DO UPDATE
UpsertPlaylistTrack(p, song, pos) ==
  /\ Exists(p) /\ song \in Songs
  /\ entries' = [entries EXCEPT ![p] =
                   [q \in DOMAIN @ \cup {pos} |-> IF q = pos THEN song ELSE @[q]]]
  /\ UNCHANGED playlists

AddPlaylistTrack(p, song, pos) ==
  /\ Insertable(p, song, pos)
  /\ entries' = [entries EXCEPT ![p] =
                   [q \in DOMAIN @ \cup {pos} |-> IF q = pos THEN song ELSE @[q]]]
  /\ UNCHANGED playlists

RemovePlaylistTrackAtPosition(p, pos) ==
  /\ entries' = [entries EXCEPT ![p] = Restrict(@, DOMAIN @ \ {pos})]
  /\ UNCHANGED playlists

\* where the shift behind pos leaves the row at q
Moved(q, pos) == IF q > pos THEN q - 1 ELSE q

Shifted(rows, pos) ==
  [m \in {Moved(q, pos) : q \in DOMAIN rows} |->
     rows[CHOOSE q \in DOMAIN rows : Moved(q, pos) = m]]

\* no two rows end at one position
Movable(p, pos) == \A q, r \in DOMAIN entries[p] : Moved(q, pos) = Moved(r, pos) => q = r

\* The key is checked row by row, in an order nobody asks for: an UPDATE that meets
\* a position which is about to be left is refused too, one of the failures of Fails.
ShiftPlaylistTracksAfterPosition(p, pos) ==
  /\ Movable(p, pos)
  /\ entries' = [entries EXCEPT ![p] = Shifted(@, pos)]
  /\ UNCHANGED playlists
=============================================================================
