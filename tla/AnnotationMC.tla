---------------------------- MODULE AnnotationMC -----------------------------
(***************************************************************************)
(* Requests for Annotation: alice stars and unstars over two clients, bob  *)
(* has the same items, and "carol" is nobody.                              *)
(***************************************************************************)
EXTENDS Annotation

CONSTANTS c1, c2

ClientSymmetry == Permutations({c1, c2})

MCRows == {<<"track", 1>>, <<"album", 2>>, <<"artist", 3>>}

\* and an id without a row
MCItems == MCRows \cup {<<"track", 4>>}

Request(op, user, tracks_, albums_, artists_) ==
  [op |-> op, user |-> user, ask |-> <<>>, time |-> None, submission |-> TRUE,
   params |-> [track |-> tracks_, album |-> albums_, artist |-> artists_]]

Ask(op, user, items) == [Request(op, user, <<>>, <<>>, <<>>) EXCEPT !.ask = items]

Scrobble_(track) == Request("scrobble", "alice", <<track>>, <<>>, <<>>)

MCRequests ==
  { Request("star", "alice", <<1>>, <<2>>, <<>>),
    Request("star", "alice", <<1, Bad>>, <<>>, <<3>>),
    Request("unstar", "alice", <<1>>, <<2>>, <<>>),
    Request("star", "bob", <<1, 4>>, <<>>, <<>>),
    Request("unstar", "bob", <<1>>, <<>>, <<>>),
    Request("star", "carol", <<1>>, <<>>, <<>>),
    Ask("getStarred2", "alice", <<>>),
    Ask("getAlbumList2", "alice", << <<"album", 2>> >>),
    Ask("browse", "alice", << <<"album", 2>>, <<"track", 1>> >>),
    Scrobble_(1), Scrobble_(4), [Scrobble_(1) EXCEPT !.time = "old"],
    [Scrobble_(1) EXCEPT !.submission = FALSE] }
=============================================================================
