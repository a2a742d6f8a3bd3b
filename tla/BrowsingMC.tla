------------------------------ MODULE BrowsingMC ------------------------------
(***************************************************************************)
(* Requests and library sizes for Browsing.  Titles are numbers in         *)
(* alphabetical order, files numbers from 11 on, names numbers from 21 on. *)
(***************************************************************************)
EXTENDS Browsing

ById(op, ids) == [op : {op}, id : ids, kind : {op}, offset : {0}]

MCRequests ==
  UNION { ById("getArtists", {0}), ById("getArtist", {1, 2}), ById("getAlbum", {1}),
          ById("getSong", {11}), ById("search3", {0}),
          [op : {"getCoverArt"}, id : {1}, kind : {"album", "artist"}, offset : {0}] }

MCPagings == [type : {"newest", "alphabeticalByName"}, size : {1, 2}]

MCMatching == {1, 2, 11, 12, 21}

\* one album with two tracks, one with pictures, or three albums
MCBounds ==
  { [artists |-> 2, albums |-> 1, titles |-> {1}, files |-> {11, 12}, pictures |-> FALSE],
    [artists |-> 1, albums |-> 1, titles |-> {1}, files |-> {}, pictures |-> TRUE],
    [artists |-> 1, albums |-> 3, titles |-> {1, 2}, files |-> {11}, pictures |-> FALSE] }
=============================================================================
