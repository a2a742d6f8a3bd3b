------------------------------ MODULE IngestMC ------------------------------
(***************************************************************************)
(* Libraries for Ingest.  Names are strings; "" is nothing between two     *)
(* separators of a credit.                                                 *)
(***************************************************************************)
EXTENDS Ingest

File(artist, albumArtist, album) ==
  [artist |-> artist, albumArtist |-> albumArtist, album |-> album]

\* an album with a featured artist, then a track of it whose album artist is
\* the fallback, then a file with neither a single artist nor an album tag,
\* then one that credits an artist twice
MCAlbum == << File(<<"a", "b">>, <<"a">>, "x"),
              File(<<"a">>, <<>>, "x"),
              File(<<"b", "", "a">>, <<"b", "a">>, None),
              File(<<"b", "b">>, <<"a">>, "x") >>

\* a file without an artist tag, a collaboration that is an album artist, and
\* an artist tag of nothing but a separator
MCDuo == << File(<<"a", "b">>, <<>>, "x"),
            File(<<>>, <<>>, "x"),
            File(<<"b">>, <<"a", "b">>, "x"),
            File(<<"", "">>, <<"a">>, "x") >>

\* "&", and a good file behind it
MCSeparator == << File(<<"", "">>, <<>>, "x"), File(<<"b">>, <<>>, "y") >>
=============================================================================
