---------------------------- MODULE LibraryGrowth ----------------------------
(***************************************************************************)
(* What the readers of the library may rely on about its only writer, the  *)
(* ingestion: one statement at a time, a row refers to rows that are       *)
(* there, no row is deleted, and of a row that is there only an artist's   *)
(* photo and an album's cover change.  An album's cover file comes before  *)
(* the column that names it, a track's primary artist is linked first.     *)
(*                                                                         *)
(* Ingest implements this specification, Browsing composes it with its     *)
(* handlers.                                                               *)
(***************************************************************************)
EXTENDS Library

CONSTANTS ArtistNames,   \* the names artists may get
          AlbumTitles    \* the titles albums may get

GrowArtist == \E name \in ArtistNames : CreateArtist(name)

GrowPhoto == \E a \in DOMAIN artists : UpdateArtistImageURL(a)

GrowAlbum == \E a \in DOMAIN artists, title \in AlbumTitles : CreateAlbum(title, a)

GrowCover ==
  \E b \in DOMAIN albums :
    \/ WriteCover(b, "partial")
    \/ albums[b].cover = "partial" /\ WriteCover(b, "whole")
    \/ albums[b].cover = "whole" /\ UpdateAlbumCoverArt(b)

GrowTrack ==
  \E f \in Files, b \in DOMAIN albums, a \in DOMAIN artists, whole \in BOOLEAN :
    CreateTrack(f, b, a, whole)

GrowLink ==
  \E f \in Files, a \in DOMAIN artists :
    /\ tracks[f] # None
    /\ links[f] = <<>> => a = tracks[f].artist
    /\ CreateTrackArtist(f, a)

Grow == GrowArtist \/ GrowPhoto \/ GrowAlbum \/ GrowCover \/ GrowTrack \/ GrowLink

GrowthSpec == LibraryInit /\ [][Grow]_libraryVars

\* Every reference of a row leads to a row.
ForeignKeys ==
  /\ \A b \in DOMAIN albums : albums[b].artist \in DOMAIN artists
  /\ \A f \in Files : tracks[f] # None => /\ tracks[f].album \in DOMAIN albums
                                          /\ tracks[f].artist \in DOMAIN artists
  /\ \A f \in Files : \A i \in DOMAIN links[f] : links[f][i] \in DOMAIN artists
=============================================================================
