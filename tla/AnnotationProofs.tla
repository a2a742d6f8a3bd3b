--------------------------- MODULE AnnotationProofs ---------------------------
(***************************************************************************)
(* Theorems of Annotation for any users, clients, items and requests:      *)
(* what a star or an unstar was acknowledged to do is done, and an answer  *)
(* shows the stars its user had while it was made.                         *)
(***************************************************************************)
EXTENDS Annotation, TLAPS

Labels == {"idle", "user", "walk", "tracks", "albums", "artists", "rows", "ids", "flags",
           "scrobble", "ok", "failed"}

Things == Kinds \X Ids

\* The types, which every step needs for its EXCEPTs.
Types ==
  /\ stars \in [Users -> SUBSET Things]
  /\ plays \in [Tracks -> Nat]
  /\ at \in [Clients -> Labels]
  /\ req \in [Clients -> Requests \cup {None}]
  /\ groups \in [Clients -> SUBSET Kinds]
  /\ queue \in [Clients -> Seq(Things)]
  /\ got \in [Clients -> SUBSET Things]
  /\ rival \in [Clients -> BOOLEAN]
  /\ faults \in Nat

\* A handler is the one of its request, and has found its user.
Route(c) ==
  /\ at[c] \notin {"idle", "failed"} => req[c] \in Requests
  /\ at[c] = "user" => req[c].op # "scrobble"
  /\ at[c] = "walk" => req[c].op \in {"star", "unstar"}
  /\ at[c] \in {"tracks", "albums", "artists", "rows"} => req[c].op = "getStarred2"
  /\ at[c] = "ids" => req[c].op = "getAlbumList2"
  /\ at[c] = "flags" => req[c].op = "browse"
  /\ at[c] = "scrobble" => req[c].op = "scrobble"
  /\ \/ at[c] \in {"idle", "failed", "user", "scrobble"}
     \/ req[c].op = "scrobble"
     \/ req[c].user \in Users

\* A request knows of the opposite ones that run.
Rivals ==
  \A c, d \in Clients : req[c] # None /\ Busy(d) /\ Opposite(req[c], req[d]) => rival[c]

\* What is neither done nor undone yet is still to be walked.
ToWalk(c, x) == at[c] = "walk" /\ (x[1] \in groups[c] \/ x \in ToSet(queue[c]))

Walk(c) ==
  /\ at[c] = "user" /\ req[c].op \in {"star", "unstar"} => \A x \in Asked(c) : x[1] \in groups[c]
  /\ at[c] \in {"walk", "ok"} /\ ~rival[c] =>
       /\ req[c].op = "star" => \A x \in Asked(c) : x \in Starred(req[c].user) \/ ToWalk(c, x)
       /\ req[c].op = "unstar" => \A x \in Asked(c) : x \notin Starred(req[c].user) \/ ToWalk(c, x)

\* What a read has come past and was starred all the time is in its answer.
Read(c) ==
  /\ got[c] \subseteq may[c]
  /\ at[c] = "user" /\ req[c].op = "browse" => queue[c] = req[c].ask
  /\ faults = 0 =>
       /\ \A x \in must[c] \cap Rows :
            /\ at[c] \in {"albums", "artists", "rows"} /\ x[1] = "track" => x \in got[c]
            /\ at[c] \in {"artists", "rows"} /\ x[1] = "album" => x \in got[c]
            /\ at[c] = "rows" /\ x[1] = "artist" => x \in got[c]
       /\ at[c] = "flags" =>
            \A x \in must[c] \cap ToSet(req[c].ask) : x \in got[c] \/ x \in ToSet(queue[c])
       /\ at[c] = "ok" /\ req[c].op \in {"getStarred2", "getAlbumList2", "browse"} =>
            must[c] \cap Scope(c) \subseteq got[c]

Inv ==
  /\ Types /\ Rivals
  /\ \A c \in Clients : Route(c) /\ Walk(c) /\ Read(c)

-----------------------------------------------------------------------------
(* What a step leaves alone.                                               *)

\* A handler writes to its own request only.
LEMMA OthersStay ==
  ASSUME Types, NEW d \in Clients, Handle(d), NEW c \in Clients \ {d}
  PROVE  /\ at'[c] = at[c] /\ req'[c] = req[c] /\ groups'[c] = groups[c]
         /\ queue'[c] = queue[c] /\ got'[c] = got[c]
BY DEF Types, Handle, Send, FindUser, Fails, NextParam, SetStar, BadId, Walked, List,
  ListStarredTracks, ListStarredAlbums, ListStarredArtists, SkipRow, Listed, AlbumStars,
  GetStarredAt, Flagged, NotSubmitted, Submit, Goto, Step, handlerVars

\* Only a walk writes to the stars, and only to those of its user.
LEMMA WhoStars ==
  ASSUME Types, NEW d \in Clients, Handle(d)
  PROVE  \/ stars' = stars
         \/ /\ SetStar(d)
            /\ stars' = IF req[d].op = "star"
                        THEN [stars EXCEPT ![req[d].user] = @ \cup {Head(queue[d])}]
                        ELSE [stars EXCEPT ![req[d].user] = @ \ {Head(queue[d])}]
BY DEF Types, Handle, Send, FindUser, Fails, NextParam, SetStar, BadId, Walked, List,
  ListStarredTracks, ListStarredAlbums, ListStarredArtists, SkipRow, Listed, AlbumStars,
  GetStarredAt, Flagged, NotSubmitted, Submit, ScrobbleTrack, StarItem, UnstarItem, tables

\* A request is another one only when it is sent.
LEMMA SameRequest ==
  ASSUME Types, NEW d \in Clients, Handle(d)
  PROVE  \/ \E r \in Requests : Send(d, r)
         \/ Busy(d) /\ req' = req
BY DEF Types, Handle, FindUser, Fails, NextParam, SetStar, BadId, Walked, List,
  ListStarredTracks, ListStarredAlbums, ListStarredArtists, SkipRow, Listed, AlbumStars,
  GetStarredAt, Flagged, NotSubmitted, Submit, Step, Busy, handlerVars

LEMMA FaultsGrow ==
  ASSUME Types, NEW d \in Clients, Handle(d)
  PROVE  faults' \in Nat /\ (faults' = 0 => faults = 0 /\ faults' = faults)
BY DEF Types, Handle, Send, FindUser, Fails, NextParam, SetStar, BadId, Walked, List,
  ListStarredTracks, ListStarredAlbums, ListStarredArtists, SkipRow, Listed, AlbumStars,
  GetStarredAt, Flagged, NotSubmitted, Submit, Fault

-----------------------------------------------------------------------------
(* The history variables.                                                  *)

LEMMA History ==
  ASSUME Types, Observe, NEW c \in Clients
  PROVE  /\ ~Busy(c) /\ Busy(c)' => must'[c] = Known(c)' /\ may'[c] = Known(c)'
         /\ Busy(c) => must'[c] = must[c] \cap Known(c)' /\ may'[c] = may[c] \cup Known(c)'
         /\ ~Busy(c) /\ ~Busy(c)' => must'[c] = must[c] /\ may'[c] = may[c]
BY DEF Observe

LEMMA RivalsSeen ==
  ASSUME Types, Observe
  PROVE  /\ Rivals'
         /\ rival' \in [Clients -> BOOLEAN]
         /\ \A c \in Clients :
              rival[c] /\ req'[c] # None /\ ~(~Busy(c) /\ Busy(c)') => rival'[c]
<1>1. rival' \in [Clients -> BOOLEAN]
  BY DEF Observe
<1>2. Rivals'
  BY DEF Observe, Rivals
<1>3. \A c \in Clients : rival[c] /\ req'[c] # None /\ ~(~Busy(c) /\ Busy(c)') => rival'[c]
  BY DEF Observe
<1>. QED
  BY <1>1, <1>2, <1>3

-----------------------------------------------------------------------------
(* The types.                                                              *)

LEMMA WalkTypes ==
  ASSUME AnnotationAssumption, NEW r \in Requests, NEW kind \in Kinds
  PROVE  /\ r.params[kind] \in Seq(Ids)
         /\ [i \in DOMAIN r.params[kind] |-> <<kind, r.params[kind][i]>>] \in Seq(Things)
<1>1. r.params[kind] \in Seq(Ids)
  BY DEF AnnotationAssumption
<1>. QED
  BY <1>1 DEF Things

LEMMA AskTypes ==
  ASSUME AnnotationAssumption, NEW r \in Requests
  PROVE  r.ask \in Seq(Things) /\ ToSet(r.ask) \subseteq Items
<1>1. r.ask \in Seq(Items) /\ Items \subseteq Things
  BY DEF AnnotationAssumption, Things
<1>. QED
  BY <1>1 DEF ToSet

LEMMA CountUp ==
  ASSUME NEW f \in [Tracks -> Nat], NEW t
  PROVE  [f EXCEPT ![t] = f[t] + 1] \in [Tracks -> Nat]
<1>1. CASE t \in Tracks
  BY <1>1
<1>2. CASE t \notin Tracks
  <2>1. [f EXCEPT ![t] = f[t] + 1] = f
    BY <1>2
  <2>. QED
    BY <2>1
<1>. QED
  BY <1>1, <1>2

LEMMA TypesNext ==
  ASSUME AnnotationAssumption, Types, NEW d \in Clients, Handle(d), Route(d), Observe
  PROVE  Types'
<1>1. rival' \in [Clients -> BOOLEAN] /\ faults' \in Nat
  BY RivalsSeen, FaultsGrow
<1>2. at' \in [Clients -> Labels]
  <2>1. CASE FindUser(d)
    <3>1. req[d].op \in {"star", "unstar", "getStarred2", "getAlbumList2", "browse"}
      BY <2>1 DEF FindUser, Route, AnnotationAssumption
    <3>2. First(req[d].op) \in Labels
      BY <3>1 DEF First, Labels
    <3>. QED
      BY <2>1, <3>2 DEF Types, FindUser, Goto, Labels
  <2>2. CASE ~FindUser(d)
    <3>1. CASE (\E r \in Requests : Send(d, r)) \/ Fails(d) \/ NextParam(d) \/ SetStar(d)
               \/ BadId(d) \/ Walked(d)
      <4>1. (\E label \in Labels : at' = [at EXCEPT ![d] = label]) \/ at' = at
        BY <3>1 DEF Send, Fails, NextParam, SetStar, BadId, Walked, Goto, Step, Labels
      <4>. QED
        BY <4>1 DEF Types
    <3>2. CASE ListStarredTracks(d) \/ ListStarredAlbums(d) \/ ListStarredArtists(d)
               \/ SkipRow(d) \/ Listed(d)
      <4>1. (\E label \in Labels : at' = [at EXCEPT ![d] = label]) \/ at' = at
        BY <3>2 DEF List, ListStarredTracks, ListStarredAlbums, ListStarredArtists, SkipRow,
                    Listed, Goto, Step, Labels
      <4>. QED
        BY <4>1 DEF Types
    <3>3. CASE AlbumStars(d) \/ GetStarredAt(d) \/ Flagged(d) \/ NotSubmitted(d) \/ Submit(d)
      <4>1. (\E label \in Labels : at' = [at EXCEPT ![d] = label]) \/ at' = at
        BY <3>3 DEF AlbumStars, GetStarredAt, Flagged, NotSubmitted, Submit, Goto, Step, Labels
      <4>. QED
        BY <4>1 DEF Types
    <3>. QED
      BY <2>2, <3>1, <3>2, <3>3 DEF Handle
  <2>. QED
    BY <2>1, <2>2
<1>3. plays' \in [Tracks -> Nat]
  <2>1. CASE Submit(d)
    <3>1. plays' = plays \/ plays' = [plays EXCEPT ![Played(d)] = plays[Played(d)] + 1]
      BY <2>1 DEF Submit, ScrobbleTrack
    <3>2. plays \in [Tracks -> Nat]
      BY DEF Types
    <3>3. [plays EXCEPT ![Played(d)] = plays[Played(d)] + 1] \in [Tracks -> Nat]
      BY <3>2, CountUp, Zenon
    <3>. QED
      BY <3>1, <3>2, <3>3, Zenon
  <2>2. CASE SetStar(d)
    BY <2>2 DEF Types, SetStar, StarItem, UnstarItem
  <2>3. CASE ~Submit(d) /\ ~SetStar(d)
    BY <2>3 DEF Types, Handle, Send, FindUser, Fails, NextParam, BadId, Walked, List,
      ListStarredTracks, ListStarredAlbums, ListStarredArtists, SkipRow, Listed, AlbumStars,
      GetStarredAt, Flagged, NotSubmitted, tables
  <2>. QED
    BY <2>1, <2>2, <2>3
<1>4. req' \in [Clients -> Requests \cup {None}]
  <2>1. CASE \E r \in Requests : Send(d, r)
    BY <2>1 DEF Types, Send
  <2>. QED
    BY <2>1, SameRequest DEF Types
<1>5. stars' \in [Users -> SUBSET Things]
  <2>1. CASE SetStar(d)
    <3>1. Head(queue[d]) \in Things
      BY <2>1 DEF Types, SetStar
    <3>2. req[d].user \in Users
      BY <2>1 DEF SetStar, Route
    <3>. QED
      <4>1. /\ stars[req[d].user] \cup {Head(queue[d])} \in SUBSET Things
            /\ stars[req[d].user] \ {Head(queue[d])} \in SUBSET Things
        BY <3>1, <3>2 DEF Types
      <4>2. \/ stars' = stars
            \/ stars' = [stars EXCEPT ![req[d].user] = @ \cup {Head(queue[d])}]
            \/ stars' = [stars EXCEPT ![req[d].user] = @ \ {Head(queue[d])}]
        BY WhoStars, Zenon
      <4>3. stars \in [Users -> SUBSET Things]
        BY DEF Types
      <4>. QED
        BY <4>1, <4>2, <4>3
  <2>2. CASE ~SetStar(d)
    <3>1. stars' = stars
      BY <2>2, WhoStars
    <3>. QED
      BY <3>1 DEF Types
  <2>. QED
    BY <2>1, <2>2
<1>6. queue' \in [Clients -> Seq(Things)]
  <2>1. CASE \E r \in Requests : Send(d, r)
    BY <2>1, AskTypes DEF Types, Send
  <2>2. CASE NextParam(d)
    <3>1. PICK kind \in groups[d] :
            queue' = [queue EXCEPT ![d] = [i \in DOMAIN req[d].params[kind] |->
                                             <<kind, req[d].params[kind][i]>>]]
      BY <2>2 DEF NextParam
    <3>2. kind \in Kinds /\ req[d] \in Requests
      BY <2>2 DEF NextParam, Types, Route
    <3>. QED
      BY <3>1, <3>2, WalkTypes DEF Types
  <2>3. CASE SetStar(d) \/ GetStarredAt(d)
    <3>1. queue[d] \in Seq(Things) /\ queue[d] # <<>> /\ queue' = [queue EXCEPT ![d] = Tail(queue[d])]
      BY <2>3 DEF Types, SetStar, GetStarredAt
    <3>. QED
      BY <3>1 DEF Types
  <2>4. CASE queue' = queue
    BY <2>4 DEF Types
  <2>. QED
    BY <2>1, <2>2, <2>3, <2>4 DEF Handle, FindUser, Fails, BadId, Walked, List, ListStarredTracks,
      ListStarredAlbums, ListStarredArtists, SkipRow, Listed, AlbumStars, Flagged, NotSubmitted,
      Submit, handlerVars
<1>7. groups' \in [Clients -> SUBSET Kinds]
  <2>1. CASE \E r \in Requests : Send(d, r)
    BY <2>1 DEF Types, Send, Given
  <2>2. CASE NextParam(d)
    BY <2>2 DEF Types, NextParam
  <2>3. CASE groups' = groups
    BY <2>3 DEF Types
  <2>. QED
    BY <2>1, <2>2, <2>3 DEF Handle, FindUser, Fails, SetStar, BadId, Walked, List,
      ListStarredTracks, ListStarredAlbums, ListStarredArtists, SkipRow, Listed, AlbumStars,
      GetStarredAt, Flagged, NotSubmitted, Submit, handlerVars
<1>8. got' \in [Clients -> SUBSET Things]
  <2>1. Items \subseteq Things /\ Rows \subseteq Things
    BY DEF AnnotationAssumption, Things
  <2>2. CASE AlbumStars(d)
    <3>1. ToSet(req[d].ask) \subseteq Items
      BY <2>2, AskTypes DEF AlbumStars, Step, Route
    <3>. QED
      BY <2>1, <2>2, <3>1 DEF Types, AlbumStars
  <2>3. CASE GetStarredAt(d)
    <3>1. Head(queue[d]) \in Things
      BY <2>3 DEF Types, GetStarredAt
    <3>2. \/ got' = got
          \/ got' = [got EXCEPT ![d] = got[d] \cup ({Head(queue[d])} \cap Starred(req[d].user))]
      BY <2>3 DEF GetStarredAt
    <3>3. got[d] \cup ({Head(queue[d])} \cap Starred(req[d].user)) \subseteq Things
      BY <3>1 DEF Types
    <3>. QED
      BY <3>2, <3>3 DEF Types
  <2>4. CASE ListStarredTracks(d) \/ ListStarredAlbums(d) \/ ListStarredArtists(d)
    <3>1. PICK kind \in Kinds : got' = [got EXCEPT ![d] = got[d] \cup ListStarred(req[d].user, kind)]
      BY <2>4 DEF ListStarredTracks, ListStarredAlbums, ListStarredArtists, List, Kinds
    <3>2. got[d] \cup ListStarred(req[d].user, kind) \subseteq Things
      BY <2>1 DEF Types, ListStarred
    <3>. QED
      BY <3>1, <3>2 DEF Types
  <2>5. CASE SkipRow(d)
    BY <2>5 DEF Types, SkipRow
  <2>6. CASE \E r \in Requests : Send(d, r)
    BY <2>6 DEF Types, Send
  <2>7. CASE got' = got
    BY <2>7 DEF Types
  <2>. QED
    BY <2>2, <2>3, <2>4, <2>5, <2>6, <2>7 DEF Handle, FindUser, Fails, NextParam, SetStar, BadId,
      Walked, Listed, Flagged, NotSubmitted, Submit, handlerVars
<1>. QED
  BY <1>1, <1>2, <1>3, <1>4, <1>5, <1>6, <1>7, <1>8 DEF Types

-----------------------------------------------------------------------------
(* The requests.                                                           *)

LEMMA RouteNext ==
  ASSUME AnnotationAssumption, Types, NEW d \in Clients, Handle(d), Route(d),
         NEW c \in Clients, Route(c)
  PROVE  Route(c)'
<1>1. CASE c # d
  BY <1>1, OthersStay DEF Route
<1>2. CASE c = d
  <2>1. CASE \E r \in Requests : Send(d, r)
    BY <1>2, <2>1 DEF Types, Send, Goto, Route
  <2>2. CASE FindUser(d)
    <3>1. req[d].op \in {"star", "unstar", "getStarred2", "getAlbumList2", "browse"}
      BY <2>2 DEF FindUser, Route, AnnotationAssumption
    <3>2. /\ req[d].op \in {"star", "unstar"} => First(req[d].op) = "walk"
          /\ req[d].op = "getStarred2" => First(req[d].op) = "tracks"
          /\ req[d].op = "getAlbumList2" => First(req[d].op) = "ids"
          /\ req[d].op = "browse" => First(req[d].op) = "flags"
      BY DEF First
    <3>. QED
      BY <1>2, <2>2, <3>1, <3>2 DEF Types, FindUser, Goto, Route, handlerVars
  <2>3. CASE Fails(d) \/ BadId(d) \/ SetStar(d)
    BY <1>2, <2>3 DEF Types, Fails, BadId, SetStar, Goto, Route, handlerVars
  <2>4. CASE NextParam(d) \/ GetStarredAt(d) \/ SkipRow(d)
    BY <1>2, <2>4 DEF NextParam, GetStarredAt, SkipRow, Route
  <2>5. CASE Walked(d) \/ Listed(d) \/ AlbumStars(d) \/ Flagged(d) \/ NotSubmitted(d) \/ Submit(d)
    BY <1>2, <2>5 DEF Types, Walked, Listed, AlbumStars, Flagged, NotSubmitted, Submit, Step, Goto,
      Route, handlerVars
  <2>6. CASE ListStarredTracks(d) \/ ListStarredAlbums(d) \/ ListStarredArtists(d)
    BY <1>2, <2>6 DEF Types, ListStarredTracks, ListStarredAlbums, ListStarredArtists, List, Step,
      Goto, Route
  <2>. QED
    BY <2>1, <2>2, <2>3, <2>4, <2>5, <2>6 DEF Handle
<1>. QED
  BY <1>1, <1>2

\* A rival that was seen is not forgotten while the request lasts.
LEMMA RivalStays ==
  ASSUME AnnotationAssumption, Types, NEW d \in Clients, Handle(d), Observe,
         NEW c \in Clients, Route(c)', at'[c] # "failed", ~rival'[c],
         c # d \/ ~(\E r \in Requests : Send(d, r)), at'[c] # "idle"
  PROVE  ~rival[c] /\ req'[c] = req[c] /\ req[c] \in Requests /\ req[c] # None
<1>1. req'[c] = req[c] /\ ~(~Busy(c) /\ Busy(c)')
  <2>1. CASE c # d
    BY <2>1, OthersStay DEF Busy
  <2>2. CASE c = d
    BY <2>2, SameRequest
  <2>. QED
    BY <2>1, <2>2
<1>2. req[c] \in Requests /\ req[c] # None
  BY <1>1 DEF Route, AnnotationAssumption
<1>3. rival[c] \in BOOLEAN
  BY DEF Types
<1>. QED
  BY <1>1, <1>2, <1>3, RivalsSeen

LEMMA QueueParts ==
  ASSUME NEW q \in Seq(Things)
  PROVE  /\ q = <<>> => ToSet(q) = {}
         /\ q # <<>> => ToSet(q) \subseteq {Head(q)} \cup ToSet(Tail(q))
<1>1. q = <<>> => ToSet(q) = {}
  BY DEF ToSet
<1>2. ASSUME q # <<>>, NEW i \in DOMAIN q
      PROVE  q[i] = Head(q) \/ q[i] \in ToSet(Tail(q))
  <2>1. CASE i = 1
    BY <2>1
  <2>2. CASE i # 1
    <3>1. i - 1 \in DOMAIN Tail(q) /\ Tail(q)[i - 1] = q[i]
      BY <1>2, <2>2
    <3>. QED
      BY <3>1 DEF ToSet
  <2>. QED
    BY <2>1, <2>2
<1>. QED
  BY <1>1, <1>2 DEF ToSet

LEMMA WalkNext ==
  ASSUME AnnotationAssumption, Types, Rivals, Observe,
         NEW d \in Clients, Handle(d), Route(d),
         NEW c \in Clients, Route(c), Route(c)', Walk(c)
  PROVE  Walk(c)'
<1>1. CASE c = d /\ \E r \in Requests : Send(d, r)
  <2>1. PICK r \in Requests : Send(d, r)
    BY <1>1
  <2>2. /\ at'[c] \in {"user", "scrobble"} /\ req'[c] = r
        /\ r.op \in {"star", "unstar"} => groups'[c] = Given(r)
    BY <1>1, <2>1 DEF Types, Send, Goto
  <2>3. \A x \in Asked(c)' : x[1] \in Given(r)
    BY <2>2 DEF Asked, Given
  <2>. QED
    BY <2>2, <2>3 DEF Walk
<1>2. CASE c # d \/ ~(\E r \in Requests : Send(d, r))
  <2>1. CASE at'[c] = "user"
    <3>1. at[c] = "user" /\ groups'[c] = groups[c] /\ req'[c] = req[c]
      <4>1. CASE c # d
        BY <2>1, <4>1, OthersStay
      <4>2. CASE c = d
        BY <1>2, <2>1, <4>2 DEF Types, Handle, FindUser, Fails, NextParam, SetStar, BadId, Walked, List,
          ListStarredTracks, ListStarredAlbums, ListStarredArtists, SkipRow, Listed, AlbumStars,
          GetStarredAt, Flagged, NotSubmitted, Submit, Goto, Step, First, Route, AnnotationAssumption
      <4>. QED
        BY <4>1, <4>2
    <3>. QED
      BY <2>1, <3>1 DEF Walk, Asked
  <2>2. CASE at'[c] \in {"walk", "ok"} /\ ~rival'[c]
    <3>1. ~rival[c] /\ req'[c] = req[c] /\ req[c] \in Requests /\ req[c] # None
      BY <1>2, <2>2, RivalStays
    <3>2. Asked(c)' = Asked(c)
      BY <3>1 DEF Asked
    <3>3. CASE req[c].op \notin {"star", "unstar"}
      BY <2>2, <3>1, <3>3 DEF Walk
    <3>4. CASE req[c].op \in {"star", "unstar"} /\ c # d
      <4>1. /\ at'[c] = at[c] /\ groups'[c] = groups[c] /\ queue'[c] = queue[c]
            /\ req[c].user \in Users
        BY <2>2, <3>1, <3>4, OthersStay DEF Route
      <4>2. \A x : ToWalk(c, x)' = ToWalk(c, x)
        BY <4>1 DEF ToWalk
      <4>3. /\ req[c].op = "star" => Starred(req[c].user) \subseteq Starred(req[c].user)'
            /\ req[c].op = "unstar" => Starred(req[c].user)' \subseteq Starred(req[c].user)
        <5>1. CASE stars' = stars
          BY <3>1, <5>1 DEF Starred
        <5>2. CASE SetStar(d) /\ req[d].user # req[c].user
          <6>1. stars'[req[c].user] = stars[req[c].user]
            <7>1. CASE stars' = stars
              BY <7>1
            <7>2. CASE stars' = [stars EXCEPT ![req[d].user] = @ \cup {Head(queue[d])}]
              BY <4>1, <5>2, <7>2 DEF Types
            <7>3. CASE stars' = [stars EXCEPT ![req[d].user] = @ \ {Head(queue[d])}]
              BY <4>1, <5>2, <7>3 DEF Types
            <7>. QED
              BY <7>1, <7>2, <7>3, WhoStars
          <6>. QED
            BY <3>1, <6>1 DEF Starred
        <5>3. CASE SetStar(d) /\ req[d].user = req[c].user
          <6>1. Busy(d) /\ req[d].op \in {"star", "unstar"}
            BY <5>3 DEF SetStar, Busy, Route
          <6>2. req[d].op = req[c].op
            BY <3>1, <3>4, <5>3, <6>1 DEF Rivals, Opposite
          <6>. QED
            <7>1. CASE req[d].op = "star"
              BY <3>1, <4>1, <5>3, <6>2, <7>1 DEF SetStar, StarItem, Types, Starred
            <7>2. CASE req[d].op = "unstar"
              BY <3>1, <4>1, <5>3, <6>2, <7>2 DEF SetStar, UnstarItem, Types, Starred
            <7>. QED
              BY <6>1, <7>1, <7>2
        <5>. QED
          BY <5>1, <5>2, <5>3, WhoStars
      <4>. QED
        BY <2>2, <3>1, <3>2, <4>1, <4>2, <4>3 DEF Walk
    <3>5. CASE req[c].op \in {"star", "unstar"} /\ c = d
      <4>1. FindUser(d) \/ NextParam(d) \/ SetStar(d) \/ Walked(d)
        BY <1>2, <2>2, <3>5 DEF Types, Handle, Route, Fails, BadId, List, ListStarredTracks,
          ListStarredAlbums, ListStarredArtists, SkipRow, Listed, AlbumStars, GetStarredAt, Flagged,
          NotSubmitted, Submit, Goto, Step
      <4>2. CASE FindUser(d)
        <5>1. at[c] = "user" /\ groups'[c] = groups[c] /\ at'[c] = "walk"
          BY <2>2, <3>5, <4>2 DEF Types, FindUser, Goto, First, handlerVars
        <5>. QED
          BY <3>1, <3>2, <3>5, <5>1 DEF Walk, ToWalk
      <4>3. CASE NextParam(d)
        <5>1. PICK kind \in groups[c] :
                /\ groups'[c] = groups[c] \ {kind}
                /\ queue'[c] = [i \in DOMAIN req[c].params[kind] |-> <<kind, req[c].params[kind][i]>>]
          BY <3>5, <4>3 DEF NextParam, Types
        <5>2. at[c] = "walk" /\ at'[c] = "walk" /\ queue[c] = <<>> /\ stars' = stars
          BY <3>5, <4>3 DEF NextParam, tables
        <5>3. \A x \in Asked(c) : x[1] = kind => x \in ToSet(queue'[c])
          BY <5>1 DEF Asked, ToSet
        <5>4. \A x \in Asked(c) : ToWalk(c, x) => ToWalk(c, x)'
          BY <5>1, <5>2, <5>3 DEF ToWalk, ToSet
        <5>. QED
          BY <3>1, <3>2, <5>2, <5>4 DEF Walk, Starred
      <4>4. CASE SetStar(d)
        <5>1. /\ at[c] = "walk" /\ at'[c] = "walk" /\ queue[c] # <<>> /\ queue[c] \in Seq(Things)
              /\ queue'[c] = Tail(queue[c]) /\ groups'[c] = groups[c] /\ req[c].user \in Users
          BY <2>2, <3>5, <4>4 DEF SetStar, Types, Goto, Route
        <5>2. \A x : ToWalk(c, x) => ToWalk(c, x)' \/ x = Head(queue[c])
          BY <5>1, QueueParts DEF ToWalk
        <5>3. /\ req[c].op = "star" =>
                   Starred(req[c].user)' = Starred(req[c].user) \cup {Head(queue[c])}
              /\ req[c].op = "unstar" =>
                   Starred(req[c].user)' = Starred(req[c].user) \ {Head(queue[c])}
          BY <3>1, <3>5, <4>4, <5>1 DEF SetStar, StarItem, UnstarItem, Types, Starred
        <5>. QED
          BY <3>1, <3>2, <5>1, <5>2, <5>3 DEF Walk
      <4>5. CASE Walked(d)
        <5>1. at[c] = "walk" /\ queue[c] = <<>> /\ groups[c] = {} /\ stars' = stars
          BY <3>5, <4>5 DEF Walked, Step, tables
        <5>2. \A x : ~ToWalk(c, x)
          BY <5>1 DEF ToWalk, ToSet
        <5>. QED
          BY <2>2, <3>1, <3>2, <5>1, <5>2 DEF Walk, Starred
      <4>. QED
        BY <4>1, <4>2, <4>3, <4>4, <4>5
    <3>. QED
      BY <3>3, <3>4, <3>5
  <2>. QED
    BY <2>1, <2>2 DEF Walk
<1>. QED
  BY <1>1, <1>2

LEMMA ReadNext ==
  ASSUME AnnotationAssumption, Types, Types', Observe,
         NEW d \in Clients, Handle(d), Route(d),
         NEW c \in Clients, Route(c), Route(c)', Read(c)
  PROVE  Read(c)'
<1>1. ~(~Busy(c) /\ Busy(c)') => must'[c] \subseteq must[c] /\ may[c] \subseteq may'[c]
  BY History
<1>2. faults' = 0 => faults = 0
  BY FaultsGrow
<1>3. CASE c # d
  <2>1. /\ at'[c] = at[c] /\ req'[c] = req[c] /\ got'[c] = got[c] /\ queue'[c] = queue[c]
        /\ must'[c] \subseteq must[c] /\ may[c] \subseteq may'[c] /\ Scope(c)' = Scope(c)
    BY <1>1, <1>3, OthersStay DEF Busy, Scope
  <2>. QED
    BY <1>2, <2>1 DEF Read
<1>4. CASE c = d /\ \E r \in Requests : Send(d, r)
  <2>1. at'[c] \in {"user", "scrobble"} /\ got'[c] = {} /\ queue'[c] = req'[c].ask
    BY <1>4 DEF Types, Send, Goto
  <2>. QED
    BY <2>1 DEF Read
<1>5. CASE c = d /\ ~(\E r \in Requests : Send(d, r))
  <2>1. /\ Busy(c) /\ req'[c] = req[c] /\ Scope(c)' = Scope(c)
        /\ must'[c] \subseteq must[c] /\ may[c] \subseteq may'[c]
    BY <1>1, <1>5, SameRequest DEF Scope
  <2>2. req[c].user \in Users =>
          must'[c] \subseteq Starred(req[c].user)' /\ Starred(req[c].user)' \subseteq may'[c]
    BY <2>1, History DEF Known
  <2>3. CASE FindUser(c)
    <3>1. /\ got'[c] = got[c] /\ queue'[c] = queue[c] /\ at[c] = "user"
          /\ \/ at'[c] = "failed" \/ at'[c] = First(req[c].op)
      BY <2>3 DEF Types, FindUser, Goto, handlerVars
    <3>2. req[c].op \in {"star", "unstar", "getStarred2", "getAlbumList2", "browse"}
      BY <3>1 DEF Route, AnnotationAssumption
    <3>3. /\ at'[c] \in {"failed", "walk", "tracks", "ids", "flags"}
          /\ at'[c] = "flags" => req[c].op = "browse"
      BY <3>1, <3>2 DEF First
    <3>. QED
      BY <2>1, <3>1, <3>3 DEF Read
  <2>4. CASE Fails(c) \/ BadId(c) \/ NextParam(c) \/ SetStar(c)
    <3>1. got'[c] = got[c] /\ at'[c] \in {"walk", "failed"}
      BY <2>4 DEF Types, Fails, BadId, NextParam, SetStar, Goto, handlerVars
    <3>. QED
      BY <2>1, <3>1 DEF Read
  <2>5. CASE Walked(c) \/ NotSubmitted(c) \/ Submit(c)
    <3>1. /\ got'[c] = got[c] /\ at'[c] \in {"ok", "failed"}
          /\ req[c].op \in {"star", "unstar", "scrobble"}
      BY <2>5 DEF Types, Walked, NotSubmitted, Submit, Step, Goto, handlerVars, Route
    <3>. QED
      BY <2>1, <3>1 DEF Read
  <2>6. CASE ListStarredTracks(c) \/ ListStarredAlbums(c) \/ ListStarredArtists(c)
    <3>1. PICK kind \in Kinds :
            /\ got'[c] = got[c] \cup ListStarred(req[c].user, kind)
            /\ \/ kind = "track" /\ at[c] = "tracks" /\ at'[c] = "albums"
               \/ kind = "album" /\ at[c] = "albums" /\ at'[c] = "artists"
               \/ kind = "artist" /\ at[c] = "artists" /\ at'[c] = "rows"
      BY <2>6 DEF ListStarredTracks, ListStarredAlbums, ListStarredArtists, List, Step, Goto, Types,
        Kinds
    <3>2. stars' = stars /\ faults' = faults
      BY <2>6 DEF ListStarredTracks, ListStarredAlbums, ListStarredArtists, List, tables
    <3>3. req[c].user \in Users
      BY <3>1 DEF Route
    <3>4. must'[c] \subseteq Starred(req[c].user) /\ Starred(req[c].user) \subseteq may'[c]
      BY <2>1, <2>2, <3>2, <3>3 DEF Starred
    <3>5. got'[c] \subseteq may'[c]
      BY <2>1, <3>1, <3>4 DEF Read, ListStarred
    <3>6. \A x \in must'[c] \cap Rows : x[1] = kind => x \in got'[c]
      BY <3>1, <3>4 DEF ListStarred
    <3>. QED
      BY <2>1, <3>1, <3>2, <3>5, <3>6 DEF Read
  <2>7. CASE SkipRow(c)
    <3>1. got'[c] \subseteq got[c] /\ at'[c] = "rows" /\ faults' # 0
      BY <2>7 DEF SkipRow, Fault, Types
    <3>. QED
      BY <2>1, <3>1 DEF Read
  <2>8. CASE Listed(c)
    <3>1. got'[c] = got[c] /\ at[c] = "rows" /\ at'[c] = "ok" /\ req[c].op = "getStarred2"
      BY <2>8 DEF Types, Listed, Step, Goto, handlerVars, Route
    <3>2. \A x \in Rows : x[1] \in Kinds
      BY DEF AnnotationAssumption
    <3>3. faults = 0 => must[c] \cap Rows \subseteq got[c]
      BY <3>1, <3>2 DEF Read, Kinds
    <3>. QED
      BY <1>2, <2>1, <3>1, <3>3 DEF Read, Scope
  <2>9. CASE AlbumStars(c)
    <3>1. /\ at[c] = "ids" /\ at'[c] = "ok" /\ req[c].op = "getAlbumList2" /\ req[c].user \in Users
          /\ req[c] \in Requests /\ stars' = stars
          /\ got'[c] = ToSet(req[c].ask) \cap ListStarredItemIDsByType(req[c].user, "album")
      BY <2>9 DEF Types, AlbumStars, Step, Goto, tables, Route
    <3>2. must'[c] \subseteq Starred(req[c].user) /\ Starred(req[c].user) \subseteq may'[c]
      BY <2>1, <2>2, <3>1 DEF Starred
    <3>3. \A x \in ToSet(req[c].ask) : x[1] = "album"
      BY <3>1 DEF AnnotationAssumption, ToSet
    <3>4. got'[c] \subseteq may'[c] /\ must'[c] \cap ToSet(req[c].ask) \subseteq got'[c]
      BY <3>1, <3>2, <3>3 DEF ListStarredItemIDsByType
    <3>. QED
      BY <2>1, <3>1, <3>4 DEF Read, Scope
  <2>10. CASE GetStarredAt(c)
    <3>1. /\ at[c] = "flags" /\ at'[c] = "flags" /\ queue[c] # <<>> /\ queue[c] \in Seq(Things)
          /\ queue'[c] = Tail(queue[c]) /\ stars' = stars /\ req[c].user \in Users
          /\ \/ got'[c] = got[c] \cup ({Head(queue[c])} \cap Starred(req[c].user))
             \/ got'[c] = got[c] /\ faults' # 0
      BY <2>10 DEF Types, GetStarredAt, Fault, tables, Route
    <3>2. must'[c] \subseteq Starred(req[c].user) /\ Starred(req[c].user) \subseteq may'[c]
      BY <2>1, <2>2, <3>1 DEF Starred
    <3>3. got'[c] \subseteq may'[c]
      BY <2>1, <3>1, <3>2 DEF Read
    <3>4. faults' = 0 => \A x \in must'[c] \cap ToSet(req[c].ask) : x \in got'[c] \/ x \in ToSet(queue'[c])
      BY <1>2, <2>1, <3>1, <3>2, QueueParts DEF Read
    <3>. QED
      BY <2>1, <3>1, <3>3, <3>4 DEF Read
  <2>11. CASE Flagged(c)
    <3>1. /\ at[c] = "flags" /\ at'[c] = "ok" /\ req[c].op = "browse" /\ queue[c] = <<>>
          /\ got'[c] = got[c]
      BY <2>11 DEF Types, Flagged, Step, Goto, handlerVars, Route
    <3>2. faults = 0 => must[c] \cap ToSet(req[c].ask) \subseteq got[c]
      BY <3>1 DEF Read, ToSet
    <3>. QED
      BY <1>2, <2>1, <3>1, <3>2 DEF Read, Scope
  <2>. QED
    BY <1>5, <2>3, <2>4, <2>5, <2>6, <2>7, <2>8, <2>9, <2>10, <2>11 DEF Handle
<1>. QED
  BY <1>3, <1>4, <1>5

-----------------------------------------------------------------------------
(* The invariant and the theorems.                                         *)

LEMMA InvInit == Init => Inv
<1>. SUFFICES ASSUME Init PROVE Inv
  OBVIOUS
<1>1. Types
  BY DEF Init, Types, Labels
<1>2. Rivals
  BY DEF Init, Rivals, Busy
<1>3. \A c \in Clients : Route(c) /\ Walk(c) /\ Read(c)
  BY DEF Init, Route, Walk, Read
<1>. QED
  BY <1>1, <1>2, <1>3 DEF Inv

LEMMA InvNext == AnnotationAssumption /\ Inv /\ [Next]_vars => Inv'
<1>. SUFFICES ASSUME AnnotationAssumption, Inv, [Next]_vars PROVE Inv'
  OBVIOUS
<1>1. CASE UNCHANGED vars
  BY <1>1 DEF Inv, Types, Rivals, Route, Walk, Read, Busy, Asked, Scope, Starred, ToWalk,
    vars, tables, handlerVars
<1>2. ASSUME NEW d \in Clients, Handle(d), Observe
      PROVE  Inv'
  <2>1. Types'
    BY <1>2, TypesNext DEF Inv
  <2>2. Rivals'
    BY <1>2, RivalsSeen DEF Inv
  <2>3. ASSUME NEW c \in Clients
        PROVE  Route(c)' /\ Walk(c)' /\ Read(c)'
    <3>1. Route(c)'
      BY <1>2, RouteNext DEF Inv
    <3>2. Walk(c)'
      BY <1>2, <3>1, WalkNext DEF Inv
    <3>3. Read(c)'
      BY <1>2, <2>1, <3>1, ReadNext DEF Inv
    <3>. QED
      BY <3>1, <3>2, <3>3
  <2>. QED
    BY <2>1, <2>2, <2>3 DEF Inv
<1>. QED
  BY <1>1, <1>2 DEF Next

LEMMA Invariant == Spec => []Inv
BY InvInit, InvNext, AnnotationAssumption, PTL DEF Spec

\* An acknowledged star or unstar has done all it was asked for, and lasts while
\* its user asks for nothing opposite, whatever order it walked in and whatever
\* the other requests do or fail at.
THEOREM AcknowledgedKept == Spec => []AckedKept
<1>1. Inv => AckedKept
  BY DEF Inv, Walk, ToWalk, AckedKept
<1>. QED
  BY <1>1, Invariant, PTL

\* An answer shows the stars its user had while it was made.
THEOREM ShownWereStarred == Spec => []StarsShown
<1>1. Inv => StarsShown
  BY DEF Inv, Read, StarsShown
<1>. QED
  BY <1>1, Invariant, PTL
=============================================================================
