---------------------------- MODULE PlaylistsMC -----------------------------
(***************************************************************************)
(* Requests for Playlists, all on the playlist alice has at the start.     *)
(***************************************************************************)
EXTENDS Playlists

CONSTANTS c1, c2

Update_(name, public, remove, songs) ==
  [op |-> "update", user |-> "alice", id |-> 1, name |-> name, public |-> public,
   remove |-> remove, songs |-> songs]

Edit(remove, songs) == Update_(None, None, remove, songs)

Replace(songs) ==
  [op |-> "replace", user |-> "alice", id |-> 1, name |-> None, public |-> None,
   remove |-> <<>>, songs |-> songs]

New(songs) == [Replace(songs) EXCEPT !.op = "create", !.name = "new"]

Drop == [Replace(<<>>) EXCEPT !.op = "delete"]

By(user, r) == [r EXCEPT !.user = user]

MCInitialSongs == <<"a", "b", "c">>

\* every operation, with indices in and out of range, out of order and out of
\* Width, and parameters that do not parse
Edits ==
  { Edit(<<>>, <<"d">>), Edit(<<0>>, <<"d", "a">>), Edit(<<0, 2>>, <<>>),
    Edit(<<5, 1, 0>>, <<"d">>), Edit(<<1>>, <<"d", Bad>>), Edit(<<0, Bad>>, <<>>),
    Replace(<<"d", "b">>), Replace(<<"b", Bad, "c">>), New(<<"b", "b">>), Drop,
    Update_("renamed", TRUE, <<2>>, <<>>),
    Edit(<<17, 0>>, <<>>),
    By("bob", Edit(<<0>>, <<"d">>)), By("bob", Drop), By("bob", Replace(<<"d">>)) }

\* with several songs to lose
Faulty ==
  { Edit(<<0, 2>>, <<"d", "e">>), Edit(<<0>>, <<>>), Edit(<<2>>, <<"d">>),
    Replace(<<"d", "e">>), Replace(<<"e">>) }

Show_ == [Drop EXCEPT !.op = "show"]

Reads_ == { Show_, By("bob", Show_), [Drop EXCEPT !.op = "list"] }

\* the other client reads, and edits the same playlist
MCEdits == c1 :> (Edits \cup Faulty) @@ c2 :> (Reads_ \cup {Edit(<<0>>, <<"d">>)})

\* both add
Adds == { Edit(<<>>, <<"d">>), Edit(<<>>, <<"e", "f">>), Edit(<<>>, <<"d", Bad, "e">>) }

MCAdds == [c \in {c1, c2} |-> Adds]

MCAddAndRemove == [c \in {c1, c2} |-> { Edit(<<0>>, <<>>), Edit(<<>>, <<"d">>) }]

MCReplaces == [c \in {c1, c2} |-> { Replace(<<"d", "e">>), Replace(<<"f">>) }]

MCSettings ==
  [c \in {c1, c2} |-> { Update_("renamed", None, <<>>, <<>>), Update_(None, TRUE, <<>>, <<>>) }]
=============================================================================
