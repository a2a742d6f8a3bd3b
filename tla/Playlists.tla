----------------------------- MODULE Playlists ------------------------------
(***************************************************************************)
(* The handlers that write and read playlists, a query at a time per       *)
(* request, with requests of several clients in flight.                    *)
(*                                                                         *)
(* A client's label is the query its request makes next, or the answer it  *)
(* got: "ok" or "failed".  A request is a record                           *)
(*   [op, user, id, name, public, remove, songs]                           *)
(* with op one of "create", "replace" (createPlaylist with playlistId),    *)
(* "update", "delete", "show" (getPlaylist) and "list" (getPlaylists);     *)
(* songs are its songId or songIdToAdd parameters.                         *)
(***************************************************************************)
EXTENDS PlaylistTables

CONSTANTS Clients,
          Requests,      \* per client what it may ask for
          Bad,           \* a parameter that does not parse
          Width,         \* positions are in -Width..Width - 1: 2^31 in the code
          MaxRequests,   \* bound: requests in a behaviour
          MaxFaults      \* bound: queries that fail in a behaviour

Asked == UNION {Requests[c] : c \in Clients}

PlaylistRow ==
  [owner : {Owner} \cup {r.user : r \in Asked}, name : {"mix"} \cup {r.name : r \in Asked},
   public : {FALSE} \cup {r.public : r \in Asked}]

ASSUME PlaylistsAssumption ==
  /\ MaxRequests \in Nat
  /\ MaxFaults \in Nat
  /\ Width \in Nat \ {0}
  /\ Bad \notin Songs
  /\ InitialSongs \in Seq(Songs)
  /\ None \notin Songs \cup PlaylistRow
  /\ \A c \in Clients : \A r \in Requests[c] :
       /\ r.op \in {"create", "replace", "update", "delete", "show", "list"}
       /\ r.user # None
       /\ r.songs \in Seq(Songs \cup {Bad})
       /\ r.remove \in Seq(Int \cup {Bad})

VARIABLES at,      \* per client its label
          req,     \* its request
          row,     \* the row of playlists it has read or created: its id, or
                   \* the row as it was
          left,    \* positions it has still to remove, as the queries get them
          next,    \* the index of its loop over songs
          first,   \* the position of the first of them
          shown,   \* the answer a read has gathered, None for a song left out
          sent, faults,
          base,    \* history: the owner and the rows its request found when it was sent,
                   \* owner None for a playlist that was not there
          alone,   \* history: no other write was in flight or came since
          seen     \* history: the answers there were to its read

handlerVars == <<req, row, left, next, first, shown>>
history == <<base, alone>>
vars == <<at, handlerVars, sent, faults, history, seen, tableVars>>

Answered(c) == at[c] \in {"ok", "failed"}
Busy(c) == at[c] # "idle" /\ ~Answered(c)

Reads == {"show", "list"}

Writing(c) == Busy(c) /\ req[c].op \notin Reads

\* the playlist a client's request is about
Target(c) == IF req[c].op = "create" THEN row[c].id ELSE req[c].id

\* What a read would show of the tables, had it only to ask once.
View(r) ==
  CASE r.op = "show" /\ r.id \in DOMAIN entries -> {ListPlaylistTracks(entries[r.id])}
    [] r.op = "list" -> {ListPlaylistsByOwner(r.user)}
    [] OTHER -> {}

Nothing == [owner |-> None, rows |-> << >>]

\* What a request finds.
Found(r) ==
  IF r.op \notin {"create", "list"} /\ Exists(r.id)
  THEN [owner |-> playlists[r.id].owner, rows |-> entries[r.id]]
  ELSE Nothing

Init ==
  /\ at = [c \in Clients |-> "idle"]
  /\ req = [c \in Clients |-> None]
  /\ row = [c \in Clients |-> None]
  /\ left = [c \in Clients |-> <<>>]
  /\ next = [c \in Clients |-> 1]
  /\ first = [c \in Clients |-> 0]
  /\ shown = [c \in Clients |-> <<>>]
  /\ seen = [c \in Clients |-> {}]
  /\ sent = 0
  /\ faults = 0
  /\ base = [c \in Clients |-> Nothing]
  /\ alone = [c \in Clients |-> FALSE]
  /\ TablesInit

Goto(c, label) == at' = [at EXCEPT ![c] = label]

Step(c, from, to) == at[c] = from /\ Goto(c, to)

\* A request that passes the checks that need no query.
Send(c, r) ==
  /\ ~Busy(c) /\ sent < MaxRequests
  /\ sent' = sent + 1
  /\ req' = [req EXCEPT ![c] = r]
  /\ row' = [row EXCEPT ![c] = None]
  /\ left' = [left EXCEPT ![c] = <<>>]
  /\ next' = [next EXCEPT ![c] = 1]
  /\ first' = [first EXCEPT ![c] = 0]
  /\ shown' = [shown EXCEPT ![c] = <<>>]
  /\ base' = [base EXCEPT ![c] = Found(r)]
  /\ alone' = IF r.op \in Reads THEN [alone EXCEPT ![c] = FALSE]
              ELSE [d \in Clients |-> d = c /\ \A e \in Clients : ~Writing(e)]
  /\ Goto(c, IF r.op \in {"create", "list"} THEN r.op ELSE "get")
  /\ UNCHANGED <<faults, tableVars>>

\* A query fails: the database is away, the client is gone and with it the
\* context of the request, or the server dies.  What was written stays.
Fails(c) ==
  /\ Busy(c)
  /\ faults < MaxFaults
  /\ faults' = faults + 1
  /\ Goto(c, "failed")
  /\ UNCHANGED <<handlerVars, sent, history, tableVars>>

Create(c) ==
  /\ Step(c, "create", "add")
  /\ CreatePlaylist(req[c].name, req[c].user)
  /\ row' = [row EXCEPT ![c] = [id |-> Len(playlists) + 1]]
  /\ UNCHANGED <<req, left, next, first, shown, sent, faults, history>>

\* GetPlaylist, and the owner's id compared with the user's; a public playlist
\* is shown to anyone
Get(c) ==
  /\ at[c] = "get"
  /\ LET p == req[c].id
         allowed == /\ Exists(p)
                    /\ \/ playlists[p].owner = req[c].user
                       \/ req[c].op = "show" /\ playlists[p].public
     IN  IF allowed
         THEN /\ row' = [row EXCEPT ![c] = playlists[p]]
              /\ Goto(c, req[c].op)
         ELSE Goto(c, "failed") /\ UNCHANGED row
  /\ UNCHANGED <<req, left, next, first, shown, sent, faults, history, tableVars>>

Clear(c) ==
  /\ Step(c, "replace", "add")
  /\ ClearPlaylistTracks(req[c].id)
  /\ UNCHANGED <<handlerVars, sent, faults, history>>

Delete(c) ==
  /\ Step(c, "delete", "ok")
  /\ DeletePlaylist(req[c].id)
  /\ UNCHANGED <<handlerVars, sent, faults, history>>

\* mutant: sort.Sort without sort.Reverse
Ascending(remove) ==
  LET place(k) == Cardinality({j \in DOMAIN remove :
                     IF remove[j] = remove[k] THEN j < k ELSE remove[j] < remove[k]})
  IN  [i \in DOMAIN remove |-> remove[CHOOSE k \in DOMAIN remove : place(k) = i - 1]]

\* sort.Sort(sort.Reverse(...))
Descending(remove) ==
  LET place(k) == Cardinality({j \in DOMAIN remove :
                     IF remove[j] = remove[k] THEN j < k ELSE remove[j] > remove[k]})
  IN  [i \in DOMAIN remove |-> remove[CHOOSE k \in DOMAIN remove : place(k) = i - 1]]

\* int32(pos), once the indices are in order
Int32(n) == ((n + Width) % (2 * Width)) - Width

Truncated(positions) == [i \in DOMAIN positions |-> Int32(positions[i])]

\* The name and the flag that are not asked for are written as they were read;
\* only then the indices are parsed.
Update(c) ==
  /\ at[c] = "update"
  /\ LET r == req[c]
     IN  IF ~Exists(r.id)
         THEN Goto(c, "failed") /\ UNCHANGED <<left, tableVars>>
         ELSE /\ UpdatePlaylist(r.id, IF r.name = None THEN row[c].name ELSE r.name,
                                      IF r.public = None THEN row[c].public ELSE r.public)
              /\ IF Bad \in Range(r.remove)
                 THEN Goto(c, "failed") /\ UNCHANGED left
                 ELSE /\ Goto(c, "remove")
                      /\ left' = [left EXCEPT ![c] = Truncated(Descending(r.remove))]
  /\ UNCHANGED <<req, row, next, first, shown, sent, faults, history>>

RemoveTrack(c) ==
  /\ Step(c, "remove", "shift")
  /\ left[c] # <<>>
  /\ RemovePlaylistTrackAtPosition(req[c].id, Head(left[c]))
  /\ UNCHANGED <<handlerVars, sent, faults, history>>

Shift(c) ==
  /\ Step(c, "shift", "remove")
  /\ ShiftPlaylistTracksAfterPosition(req[c].id, Head(left[c]))
  /\ left' = [left EXCEPT ![c] = Tail(@)]
  /\ UNCHANGED <<req, row, next, first, shown, sent, faults, history>>

\* another request has put a song where one is to be moved
ShiftFails(c) ==
  /\ Step(c, "shift", "failed")
  /\ ~Movable(req[c].id, Head(left[c]))
  /\ UNCHANGED <<handlerVars, sent, faults, history, tableVars>>

Count(c) ==
  /\ Step(c, "remove", "add")
  /\ left[c] = <<>>
  /\ first' = [first EXCEPT ![c] = CountPlaylistTracks(req[c].id)]
  /\ UNCHANGED <<req, row, left, next, shown, sent, faults, history, tableVars>>

\* mutant: positions counted from one
PositionOne(c) == first[c] + next[c]

Position(c) == first[c] + next[c] - 1

Add(c) ==
  /\ at[c] = "add" /\ next[c] <= Len(req[c].songs)
  /\ AddPlaylistTrack(Target(c), req[c].songs[next[c]], Position(c))
  /\ next' = [next EXCEPT ![c] = @ + 1]
  /\ UNCHANGED <<at, req, row, left, first, shown, sent, faults, history>>

\* a songId that does not parse, or a row the constraints refuse
AddFails(c) ==
  /\ at[c] = "add" /\ next[c] <= Len(req[c].songs)
  /\ ~Insertable(Target(c), req[c].songs[next[c]], Position(c))
  /\ Goto(c, "failed")
  /\ UNCHANGED <<handlerVars, sent, faults, history, tableVars>>

Done(c) ==
  /\ Step(c, "add", "ok")
  /\ next[c] > Len(req[c].songs)
  /\ UNCHANGED <<handlerVars, sent, faults, history, tableVars>>

\* getPlaylists
List(c) ==
  /\ Step(c, "list", "ok")
  /\ shown' = [shown EXCEPT ![c] = ListPlaylistsByOwner(req[c].user)]
  /\ UNCHANGED <<req, row, left, next, first, sent, faults, history, tableVars>>

\* mutant: no ORDER BY position
ShowUnordered(c) ==
  /\ Step(c, "show", "song")
  /\ shown' = [shown EXCEPT ![c] = Reverse(ListPlaylistTracks(entries[req[c].id]))]
  /\ UNCHANGED <<req, row, left, next, first, sent, faults, history, tableVars>>

\* getPlaylist: the tracks, then what there is to know of each
Show(c) ==
  /\ Step(c, "show", "song")
  /\ shown' = [shown EXCEPT ![c] = ListPlaylistTracks(entries[req[c].id])]
  /\ UNCHANGED <<req, row, left, next, first, sent, faults, history, tableVars>>

ShowSong(c) ==
  /\ at[c] = "song" /\ next[c] <= Len(shown[c])
  /\ next' = [next EXCEPT ![c] = @ + 1]
  /\ UNCHANGED <<at, req, row, left, first, shown, sent, faults, history, tableVars>>

\* a song whose queries fail is left out without an error
SkipSong(c) ==
  /\ at[c] = "song" /\ next[c] <= Len(shown[c])
  /\ faults < MaxFaults
  /\ faults' = faults + 1
  /\ shown' = [shown EXCEPT ![c] = [@ EXCEPT ![next[c]] = None]]
  /\ next' = [next EXCEPT ![c] = @ + 1]
  /\ UNCHANGED <<at, req, row, left, first, sent, history, tableVars>>

Shown(c) ==
  /\ Step(c, "song", "ok")
  /\ next[c] > Len(shown[c])
  /\ UNCHANGED <<handlerVars, sent, faults, history, tableVars>>

Handle(c) ==
  \/ \E r \in Requests[c] : Send(c, r)
  \/ Create(c) \/ Get(c) \/ Clear(c) \/ Delete(c)
  \/ Update(c) \/ RemoveTrack(c) \/ Shift(c) \/ ShiftFails(c) \/ Count(c)
  \/ Add(c) \/ AddFails(c) \/ Done(c)
  \/ List(c) \/ Show(c) \/ ShowSong(c) \/ SkipSong(c) \/ Shown(c)
  \/ Fails(c)

Observe ==
  seen' = [c \in Clients |-> IF ~Busy(c) /\ Busy(c)' THEN View(req[c])'
                             ELSE IF Busy(c) THEN seen[c] \cup View(req[c])'
                             ELSE seen[c]]

Next == (\E c \in Clients : Handle(c)) /\ Observe

Spec == Init /\ [][Next]_vars

-----------------------------------------------------------------------------
(* Properties.                                                             *)

\* What an update promises: indices count the list as it was.
Edited(list, r) ==
  ListPlaylistTracks(Restrict(list, {i \in DOMAIN list : i - 1 \notin Range(r.remove)})) \o r.songs

Promised(c) ==
  CASE req[c].op = "create" -> req[c].songs
    [] req[c].op = "replace" -> req[c].songs
    [] req[c].op = "update" -> Edited(ListPlaylistTracks(base[c].rows), req[c])
    [] req[c].op = "delete" -> <<>>

\* Nothing is wrong with the request: the playlist is there and the user's, and
\* the parameters parse, with no index twice and none that is negative or truncated.
Proper(c) ==
  /\ Range(req[c].songs) \subseteq Songs
  /\ req[c].op # "create" => base[c].owner = req[c].user
  /\ Bad \notin Range(req[c].remove)
  /\ IsInjective(req[c].remove)
  /\ \A i \in DOMAIN req[c].remove : req[c].remove[i] \in 0..Width - 1

AppliedTo(c) ==
  /\ Proper(c) => /\ at[c] = "ok"
                  /\ ListPlaylistTracks(entries[Target(c)]) = Promised(c)
  /\ req[c].op # "create" /\ base[c].owner # req[c].user =>
       /\ at[c] = "failed"
       /\ base[c].owner # None => entries[req[c].id] = base[c].rows

\* As long as nothing fails, a proper request that nobody came in between of is
\* answered "ok" and leaves exactly the list it asked for, whatever the requests
\* before it left behind; one about a playlist that is not there or somebody
\* else's is refused and leaves the list alone.
Applied == faults = 0 => \A c \in Clients : alone[c] /\ Answered(c) => AppliedTo(c)

\* The holes a request found in the positions of its playlist.
Holes(rows) == (UNION {0..pos : pos \in DOMAIN rows}) \ DOMAIN rows

WithoutHole(rows) == DOMAIN rows = 0..Cardinality(DOMAIN rows) - 1

\* The same for several clients that edit: a request that nobody came in between
\* of does what it should, whatever the others did and broke off before, unless it
\* found a hole (or a position below zero).
AppliedGapless ==
  faults = 0 =>
    \A c \in Clients :
      alone[c] /\ Answered(c) /\ WithoutHole(base[c].rows) => AppliedTo(c)

IsSubsequence(s, t) ==
  \E kept \in SUBSET DOMAIN t :
    Cardinality(kept) = Len(s) /\ s = ListPlaylistTracks(Restrict(t, kept))

\* Whatever fails, and however far a request has come, its playlist shows the
\* old songs and then the new ones in their order with some left out; a replace
\* never shows old songs among new ones.
InOrder ==
  \A c \in Clients : alone[c] /\ base[c].owner # None /\ Cardinality(Holes(base[c].rows)) <= 1 =>
    LET list == ListPlaylistTracks(entries[req[c].id])
        old == ListPlaylistTracks(base[c].rows)
    IN  IF req[c].op = "replace"
        THEN list = old \/ IsPrefix(list, req[c].songs)
        ELSE IsSubsequence(list, old \o req[c].songs)

\* While songs are only added, positions stay without a hole, although every
\* request counts first and inserts later.
Dense == \A p \in DOMAIN entries : DOMAIN entries[p] = 0..CountPlaylistTracks(p) - 1

\* No add that was answered "ok" is overwritten by another.
AddsKept ==
  \A c \in Clients : at[c] = "ok" /\ req[c].op = "update" =>
    \A i \in DOMAIN req[c].songs : entries[req[c].id][first[c] + i - 1] = req[c].songs[i]

\* Whoever else is editing, a reader is shown a list its playlist had, or
\* playlists its user had, at one moment of the request; only failed lookups
\* leave songs out.
ShownHad ==
  \A c \in Clients : at[c] = "ok" /\ req[c].op \in Reads =>
    IF faults = 0 \/ req[c].op = "list" THEN shown[c] \in seen[c]
    ELSE \E list \in seen[c] :
           /\ DOMAIN shown[c] = DOMAIN list
           /\ \A i \in DOMAIN list : shown[c][i] \in {list[i], None}

Quiet == \A c \in Clients : ~Busy(c)

\* "old tracks must be cleared": when all are answered, the list is what one of
\* the acknowledged replaces asked for.
OneReplaceWins ==
  Quiet =>
    LET winners == {c \in Clients : at[c] = "ok" /\ req[c].op = "replace"}
    IN  winners # {} =>
          \E c \in winners : ListPlaylistTracks(entries[req[c].id]) = req[c].songs

\* A setting that was acknowledged, and that no other request sets, is kept.
SettingsKept ==
  Quiet => \A c \in Clients :
    /\ at[c] = "ok" /\ req[c].op = "update"
    /\ \A d \in Clients \ {c} : req[d] # None => req[d].name = None
    /\ req[c].name # None
    => playlists[req[c].id].name = req[c].name
=============================================================================
