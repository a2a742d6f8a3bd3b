------------------------------- MODULE Library -------------------------------
(***************************************************************************)
(* The tables ingestion reads and writes, with the constraints their       *)
(* migrations declare and one operator per query.  Every query is one      *)
(* statement, hence atomic.                                                *)
(*                                                                         *)
(* A row of artists or albums is named by its place in the sequence; a     *)
(* track by its path, which is UNIQUE.  An artist's name is a credit: the  *)
(* sequence of names its text splits into, <<"a">> for a single artist,    *)
(* <<"a", "b">> for the text "a & b" taken whole.                          *)
(***************************************************************************)
EXTENDS Sequences, Naturals

CONSTANTS Files,    \* the paths under the library, numbered in walk order
          None

VARIABLES artists,  \* Seq of [name, photo]
          albums,   \* Seq of [title, artist, listed, cover]: cover_art_path is
                    \* set (listed), and what the file <album id>.jpg holds
          tracks,   \* per path the row [album, artist, whole], or None
          links     \* per path the artists in track_artists, by position

libraryVars == <<artists, albums, tracks, links>>

CoverStates == {"none", "partial", "whole"}

LibraryInit ==
  /\ artists = <<>>
  /\ albums = <<>>
  /\ tracks = [f \in Files |-> None]
  /\ links = [f \in Files |-> <<>>]

\* a :one query over rows that are not declared unique returns any of them
GetArtistByName(name) == {a \in DOMAIN artists : artists[a].name = name}

GetAlbumByTitleAndArtist(title, artist) ==
  {b \in DOMAIN albums : albums[b].title = title /\ albums[b].artist = artist}

CreateArtist(name) ==
  /\ artists' = Append(artists, [name |-> name, photo |-> FALSE])
  /\ UNCHANGED <<albums, tracks, links>>

UpdateArtistImageURL(a) ==
  /\ artists' = [artists EXCEPT ![a].photo = TRUE]
  /\ UNCHANGED <<albums, tracks, links>>

CreateAlbum(title, artist) ==
  /\ albums' = Append(albums, [title |-> title, artist |-> artist,
                               listed |-> FALSE, cover |-> "none"])
  /\ UNCHANGED <<artists, tracks, links>>

UpdateAlbumCoverArt(b) ==
  /\ albums' = [albums EXCEPT ![b].listed = TRUE]
  /\ UNCHANGED <<artists, tracks, links>>

\* the cover file, which is not a column but lives and dies with the album
WriteCover(b, state) ==
  /\ albums' = [albums EXCEPT ![b].cover = state]
  /\ UNCHANGED <<artists, tracks, links>>

\* mutant: INSERT ... ON CONFLICT (path) DO UPDATE
UpsertTrack(f, album, artist, whole) ==
  /\ tracks' = [tracks EXCEPT ![f] = [album |-> album, artist |-> artist, whole |-> whole]]
  /\ links' = [links EXCEPT ![f] = <<>>]
  /\ UNCHANGED <<artists, albums>>

CreateTrack(f, album, artist, whole) ==
  /\ tracks[f] = None
  /\ tracks' = [tracks EXCEPT ![f] = [album |-> album, artist |-> artist, whole |-> whole]]
  /\ UNCHANGED <<artists, albums, links>>

\* PRIMARY KEY (track_id, artist_id)
Linked(f, a) == \E i \in DOMAIN links[f] : links[f][i] = a

CreateTrackArtist(f, a) ==
  /\ ~Linked(f, a)
  /\ links' = [links EXCEPT ![f] = Append(@, a)]
  /\ UNCHANGED <<artists, albums, tracks>>
=============================================================================
