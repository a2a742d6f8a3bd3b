----------------------------- MODULE Annotation ------------------------------
(***************************************************************************)
(* What users leave on the library: stars, and plays counted by scrobble.  *)
(* Several clients of several users make requests at the same time; a      *)
(* handler makes one query after another, without a transaction.           *)
(*                                                                         *)
(* A label of at names what a client's handler does next, or its answer.   *)
(* A request is a record                                                   *)
(*   [op, user, params, ask, time, submission]:                            *)
(* params holds the ids of star, unstar and scrobble per kind of item, ask *)
(* the items whose stars a browsing handler adds to its answer.            *)
(***************************************************************************)
EXTENDS SequencesExt, Integers

CONSTANTS Users,        \* the rows of users
          Rows,         \* the items <<kind, id>> that have a row in their table
          Items,        \* what may be starred: item_id references nothing
          Clients,
          Requests,     \* what a client may ask for
          Bad,          \* an id that does not parse
          None,
          MaxRequests,  \* bound: requests in a behaviour
          MaxFaults     \* bound: queries that fail in a behaviour

Kinds == {"track", "album", "artist"}

\* what a parameter may hold
Ids == {item[2] : item \in Items} \cup {Bad}

ASSUME AnnotationAssumption ==
  /\ Rows \subseteq Items /\ Items \subseteq Kinds \X Ids
  /\ MaxRequests \in Nat /\ MaxFaults \in Nat
  /\ \A r \in Requests :
       /\ r # None
       /\ r.op \in {"star", "unstar", "getStarred2", "getAlbumList2", "browse", "scrobble"}
       /\ r.ask \in Seq(Items)
       /\ r.op = "getAlbumList2" => \A i \in DOMAIN r.ask : r.ask[i][1] = "album"
       /\ \A kind \in Kinds : r.params[kind] \in Seq(Ids)

VARIABLES stars,   \* per user its items in starred_items
          plays,   \* per track play_count
          last,    \* per track last_played_at: None, "now", or a time sent
          at, req,
          groups,  \* the parameters of the request still to be walked
          queue,   \* what is left of the one being walked, or of ask
          got,     \* the items an answer shows as starred
          sent, faults,
          must,    \* history: starred ever since the request came
          may,     \* history: starred at some moment since
          rival    \* history: an opposite request of the user ran since

tables == <<stars, plays, last>>
handlerVars == <<req, groups, queue, got>>
vars == <<tables, at, handlerVars, sent, faults, must, may, rival>>

Tracks == {item \in Items : item[1] = "track"}
Starred(u) == stars[u]

-----------------------------------------------------------------------------
(* Queries.                                                                *)

\* ON CONFLICT DO NOTHING
StarItem(u, item) ==
  /\ stars' = [stars EXCEPT ![u] = @ \cup {item}]
  /\ UNCHANGED <<plays, last>>

\* mutant: the user is not in the WHERE clause
UnstarItemOfAll(u, item) ==
  /\ stars' = [v \in Users |-> stars[v] \ {item}]
  /\ UNCHANGED <<plays, last>>

UnstarItem(u, item) ==
  /\ stars' = [stars EXCEPT ![u] = @ \ {item}]
  /\ UNCHANGED <<plays, last>>

\* mutant: the user is not in the WHERE clause
ListStarredOfAll(u, kind) ==
  {item \in Rows : item[1] = kind /\ \E v \in Users : item \in Starred(v)}

\* ListStarredTracks, ListStarredAlbums and ListStarredArtists
ListStarred(u, kind) == {item \in Rows \cap Starred(u) : item[1] = kind}

\* ListStarredItemIDsByType, without a join
ListStarredItemIDsByType(u, kind) == {item \in Starred(u) : item[1] = kind}

\* an UPDATE, of no row if there is no such track
ScrobbleTrack(track, time) ==
  /\ IF track \in Rows
     THEN /\ plays' = [plays EXCEPT ![track] = @ + 1]
          /\ last' = [last EXCEPT ![track] = IF time = None THEN "now" ELSE time]
     ELSE UNCHANGED <<plays, last>>
  /\ UNCHANGED stars

-----------------------------------------------------------------------------
Init ==
  /\ stars = [u \in Users |-> {}]
  /\ plays = [t \in Tracks |-> 0] /\ last = [t \in Tracks |-> None]
  /\ at = [c \in Clients |-> "idle"]
  /\ req = [c \in Clients |-> None]
  /\ groups = [c \in Clients |-> {}]
  /\ queue = [c \in Clients |-> <<>>]
  /\ got = [c \in Clients |-> {}]
  /\ sent = 0 /\ faults = 0
  /\ must = [c \in Clients |-> {}] /\ may = [c \in Clients |-> {}]
  /\ rival = [c \in Clients |-> FALSE]

Busy(c) == at[c] \notin {"idle", "ok", "failed"}

Goto(c, label) == at' = [at EXCEPT ![c] = label]

Step(c, from, to) == at[c] = from /\ Goto(c, to)

Fault == faults < MaxFaults /\ faults' = faults + 1

Given(r) == {kind \in Kinds : r.params[kind] # <<>>}

\* the label behind the look-up of the user; scrobble has none
First(op) ==
  CASE op \in {"star", "unstar"} -> "walk"
    [] op = "getStarred2" -> "tracks"
    [] op = "getAlbumList2" -> "ids"
    [] op = "browse" -> "flags"

\* A request that passes the checks that need no query.
Send(c, r) ==
  /\ ~Busy(c) /\ sent < MaxRequests
  /\ sent' = sent + 1
  /\ req' = [req EXCEPT ![c] = r]
  /\ groups' = [groups EXCEPT ![c] = IF r.op \in {"star", "unstar"} THEN Given(r) ELSE {}]
  /\ queue' = [queue EXCEPT ![c] = r.ask]
  /\ got' = [got EXCEPT ![c] = {}]
  /\ Goto(c, IF r.op = "scrobble" THEN "scrobble" ELSE "user")
  /\ UNCHANGED <<faults, tables>>

\* GetUserByUsername
FindUser(c) ==
  /\ at[c] = "user"
  /\ Goto(c, IF req[c].user \in Users THEN First(req[c].op) ELSE "failed")
  /\ UNCHANGED <<handlerVars, sent, faults, tables>>

\* A query fails and ends the request.
Fails(c) ==
  /\ \/ at[c] \in {"user", "tracks", "albums", "artists", "ids", "scrobble"}
     \/ at[c] = "walk" /\ queue[c] # <<>>
  /\ Fault
  /\ Goto(c, "failed")
  /\ UNCHANGED <<handlerVars, sent, tables>>

-----------------------------------------------------------------------------
(* starOrUnstar: three parameters in the order a Go map happens to have.   *)

NextParam(c) ==
  /\ at[c] = "walk" /\ queue[c] = <<>>
  /\ \E kind \in groups[c] :
       /\ groups' = [groups EXCEPT ![c] = @ \ {kind}]
       /\ queue' = [queue EXCEPT ![c] = [i \in DOMAIN req[c].params[kind] |->
                                           <<kind, req[c].params[kind][i]>>]]
  /\ UNCHANGED <<at, req, got, sent, faults, tables>>

\* The statement may be executed and its reply be lost.
SetStar(c) ==
  /\ at[c] = "walk" /\ queue[c] # <<>>
  /\ LET item == Head(queue[c])
     IN  /\ item[2] # Bad
         /\ IF req[c].op = "star" THEN StarItem(req[c].user, item)
                                  ELSE UnstarItem(req[c].user, item)
  /\ \/ UNCHANGED <<at, faults>>
     \/ Fault /\ Goto(c, "failed")
  /\ queue' = [queue EXCEPT ![c] = Tail(@)]
  /\ UNCHANGED <<req, groups, got, sent>>

BadId(c) ==
  /\ at[c] = "walk" /\ queue[c] # <<>>
  /\ Head(queue[c])[2] = Bad
  /\ Goto(c, "failed")
  /\ UNCHANGED <<handlerVars, sent, faults, tables>>

Walked(c) ==
  /\ Step(c, "walk", "ok")
  /\ queue[c] = <<>> /\ groups[c] = {}
  /\ UNCHANGED <<handlerVars, sent, faults, tables>>

-----------------------------------------------------------------------------
(* getStarred2, and the stars in the answers of the browsing handlers.     *)

List(c, from, kind, to) ==
  /\ Step(c, from, to)
  /\ got' = [got EXCEPT ![c] = @ \cup ListStarred(req[c].user, kind)]
  /\ UNCHANGED <<req, groups, queue, sent, faults, tables>>

ListStarredTracks(c) == List(c, "tracks", "track", "albums")
ListStarredAlbums(c) == List(c, "albums", "album", "artists")
ListStarredArtists(c) == List(c, "artists", "artist", "rows")

\* a song or an album whose album or artists cannot be read is left out
SkipRow(c) ==
  /\ at[c] = "rows"
  /\ Fault
  /\ \E item \in got[c] : /\ item[1] # "artist"
                          /\ got' = [got EXCEPT ![c] = @ \ {item}]
  /\ UNCHANGED <<at, req, groups, queue, sent, tables>>

Listed(c) ==
  /\ Step(c, "rows", "ok")
  /\ UNCHANGED <<handlerVars, sent, faults, tables>>

\* getAlbumList2: the stars of all albums, for those of the page
AlbumStars(c) ==
  /\ Step(c, "ids", "ok")
  /\ got' = [got EXCEPT ![c] = ToSet(req[c].ask)
                                \cap ListStarredItemIDsByType(req[c].user, "album")]
  /\ UNCHANGED <<req, groups, queue, sent, faults, tables>>

\* getAlbum, getSong, getArtist and getArtists ask item by item; a failed query
\* shows the item without its star
GetStarredAt(c) ==
  /\ at[c] = "flags" /\ queue[c] # <<>>
  /\ LET item == Head(queue[c])
     IN  \/ /\ got' = [got EXCEPT ![c] = @ \cup ({item} \cap Starred(req[c].user))]
            /\ UNCHANGED faults
         \/ Fault /\ UNCHANGED got
  /\ queue' = [queue EXCEPT ![c] = Tail(@)]
  /\ UNCHANGED <<at, req, groups, sent, tables>>

Flagged(c) ==
  /\ Step(c, "flags", "ok")
  /\ queue[c] = <<>>
  /\ UNCHANGED <<handlerVars, sent, faults, tables>>

-----------------------------------------------------------------------------
(* scrobble.                                                               *)

Played(c) == <<"track", req[c].params["track"][1]>>

\* "now playing" is answered without a query
NotSubmitted(c) ==
  /\ Step(c, "scrobble", "ok")
  /\ ~req[c].submission
  /\ UNCHANGED <<handlerVars, sent, faults, tables>>

\* Again, the reply may be lost; a client that asks again is counted again.
Submit(c) ==
  /\ at[c] = "scrobble" /\ req[c].submission
  /\ ScrobbleTrack(Played(c), req[c].time)
  /\ \/ Goto(c, "ok") /\ UNCHANGED faults
     \/ Goto(c, "failed") /\ Fault
  /\ UNCHANGED <<handlerVars, sent>>

-----------------------------------------------------------------------------
Handle(c) ==
  \/ \E r \in Requests : Send(c, r)
  \/ FindUser(c) \/ Fails(c)
  \/ NextParam(c) \/ SetStar(c) \/ BadId(c) \/ Walked(c)
  \/ ListStarredTracks(c) \/ ListStarredAlbums(c) \/ ListStarredArtists(c)
  \/ SkipRow(c) \/ Listed(c)
  \/ AlbumStars(c) \/ GetStarredAt(c) \/ Flagged(c)
  \/ NotSubmitted(c) \/ Submit(c)

Opposite(r, s) == r.user = s.user /\ {r.op, s.op} = {"star", "unstar"}

Known(c) == IF req[c].user \in Users THEN Starred(req[c].user) ELSE {}

\* History: what the tables were like since a request came.
Observe ==
  LET New(c) == ~Busy(c) /\ Busy(c)'
      Met(c) == \E d \in Clients : Busy(d)' /\ Opposite(req[c], req[d])'
  IN  /\ must' = [c \in Clients |-> IF New(c) THEN Known(c)' ELSE
                                    IF Busy(c) THEN must[c] \cap Known(c)' ELSE must[c]]
      /\ may' = [c \in Clients |-> IF New(c) THEN Known(c)' ELSE
                                   IF Busy(c) THEN may[c] \cup Known(c)' ELSE may[c]]
      /\ rival' = [c \in Clients |-> req'[c] # None /\ (Met(c) \/ (~New(c) /\ rival[c]))]

Next == (\E c \in Clients : Handle(c)) /\ Observe

Spec == Init /\ [][Next]_vars

-----------------------------------------------------------------------------
(* Properties.                                                             *)

\* the items of a star or unstar
Asked(c) ==
  UNION {{<<kind, req[c].params[kind][i]>> : i \in DOMAIN req[c].params[kind]} : kind \in Kinds}

\* A star or unstar that was answered "ok" did all it was asked for, in whatever
\* order it walked, and stays in force while the same user asks for nothing
\* opposite, whatever other users do and other requests of the user fail at.
AckedKept ==
  \A c \in Clients : at[c] = "ok" /\ ~rival[c] =>
    CASE req[c].op = "star" -> Asked(c) \subseteq Starred(req[c].user)
      [] req[c].op = "unstar" -> Asked(c) \cap Starred(req[c].user) = {}
      [] OTHER -> TRUE

\* The items a read is about.
Scope(c) == IF req[c].op = "getStarred2" THEN Rows ELSE ToSet(req[c].ask)

\* An answer shows no star its user did not have at some moment of the request,
\* and leaves out none it had throughout, unless a query failed.
StarsShown ==
  \A c \in Clients : at[c] = "ok" /\ req[c].op \in {"getStarred2", "getAlbumList2", "browse"} =>
    /\ got[c] \subseteq may[c]
    /\ faults = 0 => must[c] \cap Scope(c) \subseteq got[c]
=============================================================================
