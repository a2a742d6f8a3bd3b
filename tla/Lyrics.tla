------------------------------- MODULE Lyrics --------------------------------
(***************************************************************************)
(* getLyricsBySongId and getLyrics: which song, which source, which lines. *)
(* The sources are the .lrc file next to the song and LRCLIB; a text is    *)
(* the sequence of its lines, <<>> for the empty text.  A line is a record *)
(* [kind, tag, words]:                                                     *)
(*   "plain"  does not begin with "["      "open"  has no "]"              *)
(*   "meta"   a tag without a digit first  "time"  a tag with one          *)
(* A tag is split by ":", and each part by ".", into numbers [ok, value,   *)
(* digits]; ok is whether strconv.Atoi takes it.                           *)
(***************************************************************************)
EXTENDS Sequences, Integers, FiniteSets

CONSTANTS Libraries,    \* sequences of songs [title, artist], by title
          Requests,     \* [op, song, title, artist]; artist may be None
          ILike(_, _),     \* whether a title contains another (ILIKE)
          SearchLimit,  \* 50, the candidates getLyrics looks at
          Texts,        \* what the file and LRCLIB may hold
          Answers,      \* sequences of texts, what a search of LRCLIB may find
          None,         \* no file, no song, any artist
          Broken        \* an unreadable file, an answer that is an error

Number == [ok : BOOLEAN, value : Int, digits : Nat]

\* strings.Split leaves at least one part
Tag == Seq(Seq(Number) \ {<<>>})

ASSUME TextsAssumption ==
  /\ \A text \in Texts :
       /\ text \in Seq({text[i] : i \in DOMAIN text})
       /\ \A i \in DOMAIN text : text[i].tag \in Tag
  /\ Answers \subseteq Seq(Texts)

ASSUME LibrariesAssumption ==
  /\ \A songs \in Libraries : songs \in Seq({songs[i] : i \in DOMAIN songs})
  /\ SearchLimit \in Nat

ASSUME NoneAssumption ==
  /\ None \notin Nat /\ None \notin Texts /\ None \notin Answers
  /\ Broken \notin Texts /\ Broken \notin Answers
  /\ None # Broken /\ None # <<>> /\ Broken # <<>>

VARIABLES songs, fallback,  \* the library, SONORA_LYRICS_LRCLIB_FALLBACK
          at, req,
          candidates,       \* the songs getLyrics has still to look at
          song,             \* the one that lyrics are looked up for
          text, read, lines,    \* the lines of the text that are read, those that are sung
          file, exact, results,  \* history: what the sources answered, or None
          broken            \* history: whether a query failed

sources == <<file, exact, results>>
vars == <<songs, fallback, at, req, candidates, song, text, read, lines, sources, broken>>

Init ==
  /\ songs \in Libraries /\ fallback \in BOOLEAN
  /\ at = "idle" /\ req = None /\ candidates = {} /\ song = None
  /\ text = <<>> /\ read = 0 /\ lines = <<>>
  /\ file = None /\ exact = None /\ results = None /\ broken = FALSE

Final == {"done", "notfound", "failed", "aborted"}

Step(from, to) == at = from /\ at' = to

Send(r) ==
  /\ at = "idle"
  /\ req' = r
  /\ at' = IF r.op = "getLyrics" THEN "search" ELSE "track"
  /\ UNCHANGED <<songs, fallback, candidates, song, text, read, lines, sources, broken>>

\* a query fails: 404 for getLyricsBySongId, 500 for getLyrics
Fails ==
  /\ at \in {"track", "artist", "search", "candidate"}
  /\ at = "candidate" => candidates # {}
  /\ at' = IF req.op = "getLyrics" THEN "failed" ELSE "notfound"
  /\ broken' = TRUE
  /\ UNCHANGED <<songs, fallback, req, candidates, song, text, read, lines, sources>>

\* GetTrack and then its artist
Track ==
  /\ at = "track"
  /\ IF req.song \in DOMAIN songs
     THEN at' = "artist" /\ song' = req.song
     ELSE at' = "notfound" /\ UNCHANGED song
  /\ UNCHANGED <<songs, fallback, req, candidates, text, read, lines, sources, broken>>

Artist ==
  /\ Step("artist", "file")
  /\ UNCHANGED <<songs, fallback, req, candidates, song, text, read, lines, sources, broken>>

\* the first in the order of the titles, which is the order of the songs
SearchTracks(title) ==
  {s \in DOMAIN songs : /\ ILike(songs[s].title, title)
                        /\ Cardinality({i \in 1..s : ILike(songs[i].title, title)}) <= SearchLimit}

Search ==
  /\ Step("search", "candidate")
  /\ candidates' = SearchTracks(req.title)
  /\ UNCHANGED <<songs, fallback, req, song, text, read, lines, sources, broken>>

Matches(s) == req.artist = None \/ songs[s].artist = req.artist

\* mutant: the loop goes on behind a match
CandidateLast ==
  /\ at = "candidate"
  /\ \E s \in candidates :
       /\ \A c \in candidates : s <= c
       /\ candidates' = candidates \ {s}
       /\ song' = IF Matches(s) THEN s ELSE song
       /\ at' = IF song' # None /\ candidates' = {} THEN "file" ELSE at
  /\ UNCHANGED <<songs, fallback, req, text, read, lines, sources, broken>>

\* the first candidate whose artist is asked for, whatever its whole title
Candidate ==
  /\ at = "candidate"
  /\ \E s \in candidates :
       /\ \A c \in candidates : s <= c
       /\ candidates' = candidates \ {s}
       /\ IF Matches(s)
          THEN at' = "file" /\ song' = s
          ELSE UNCHANGED <<at, song>>
  /\ UNCHANGED <<songs, fallback, req, text, read, lines, sources, broken>>

\* an answer without lyrics
NoCandidate ==
  /\ Step("candidate", "done")
  /\ candidates = {}
  /\ UNCHANGED <<songs, fallback, req, candidates, song, text, read, lines, sources, broken>>

-----------------------------------------------------------------------------
(* Lookup.                                                                 *)

ReadFile ==
  /\ at = "file"
  /\ file' \in Texts \cup {None, Broken}
  /\ CASE file' = Broken -> at' = "failed" /\ UNCHANGED text
       [] file' = None   -> at' = (IF fallback THEN "exact" ELSE "done") /\ UNCHANGED text
       [] OTHER          -> at' = "parse" /\ text' = file'
  /\ UNCHANGED <<songs, fallback, req, candidates, song, read, lines, exact, results, broken>>

\* mutant: what LRCLIB has without time stamps ends the lookup
FetchFromLRCLIBOnly ==
  /\ at = "exact"
  /\ exact' \in Texts \cup {Broken}
  /\ IF exact' = Broken
     THEN at' = "failed" /\ UNCHANGED text
     ELSE at' = "parse" /\ text' = exact'
  /\ UNCHANGED <<songs, fallback, req, candidates, song, read, lines, file, results, broken>>

\* 404 and an entry without synced lyrics are the empty text
FetchFromLRCLIB ==
  /\ at = "exact"
  /\ exact' \in Texts \cup {Broken}
  /\ CASE exact' = Broken -> at' = "failed" /\ UNCHANGED text
       [] exact' = <<>>   -> at' = "fuzzy" /\ UNCHANGED text
       [] OTHER           -> at' = "parse" /\ text' = exact'
  /\ UNCHANGED <<songs, fallback, req, candidates, song, read, lines, file, results, broken>>

\* the first of the texts that is not empty
FirstSynced(texts, t) ==
  \E i \in DOMAIN texts :
    /\ texts[i] # <<>> /\ t = texts[i]
    /\ \A j \in 1..i - 1 : texts[j] = <<>>

\* mutant: nothing found by searching is looked up again
SearchAgain ==
  /\ at = "fuzzy"
  /\ results' \in Answers \cup {Broken}
  /\ \/ results' = Broken /\ at' = "failed" /\ UNCHANGED text
     \/ /\ results' # Broken /\ \A i \in DOMAIN results' : results'[i] = <<>>
        /\ at' = "file" /\ UNCHANGED text
     \/ results' # Broken /\ FirstSynced(results', text') /\ at' = "parse"
  /\ UNCHANGED <<songs, fallback, req, candidates, song, read, lines, file, exact, broken>>

\* the first result with synced lyrics
SearchLRCLIB ==
  /\ at = "fuzzy"
  /\ results' \in Answers \cup {Broken}
  /\ \/ results' = Broken /\ at' = "failed" /\ UNCHANGED text
     \/ /\ results' # Broken /\ \A i \in DOMAIN results' : results'[i] = <<>>
        /\ at' = "done" /\ UNCHANGED text
     \/ results' # Broken /\ FirstSynced(results', text') /\ at' = "parse"
  /\ UNCHANGED <<songs, fallback, req, candidates, song, read, lines, file, exact, broken>>

-----------------------------------------------------------------------------
(* Parse.  Indexing a missing part panics, which net/http recovers from by *)
(* dropping the connection.                                                *)

ParseTimestamp(tag) ==
  LET Atoi(part, i) == part[i].ok
  IN  IF Len(tag) < 2 THEN "panic"
      ELSE IF Len(tag[1]) > 1 \/ ~Atoi(tag[1], 1) \/ ~Atoi(tag[2], 1) THEN "error"
      ELSE IF Len(tag[2]) < 2 THEN "panic"
      ELSE IF ~Atoi(tag[2], 2) THEN "error" ELSE "ok"

TimestampMs(tag) ==
  tag[1][1].value * 60000 + tag[2][1].value * 1000 + tag[2][2].value * 10

\* whether Parse takes the line for one that is sung
Timed(line) == line.kind = "time"

Sing(line) ==
  lines' = Append(lines, [start |-> TimestampMs(line.tag), words |-> line.words])

\* mutant: a stamp that does not parse costs its line only
ParseSkips ==
  /\ at = "parse" /\ read < Len(text)
  /\ read' = read + 1
  /\ LET line == text[read']
     IN  \/ ~Timed(line) /\ UNCHANGED <<at, lines>>
         \/ Timed(line) /\ ParseTimestamp(line.tag) = "ok" /\ Sing(line) /\ UNCHANGED at
         \/ Timed(line) /\ ParseTimestamp(line.tag) = "error" /\ UNCHANGED <<at, lines>>
         \/ /\ Timed(line) /\ ParseTimestamp(line.tag) = "panic"
            /\ at' = "aborted" /\ lines' = <<>>
  /\ UNCHANGED <<songs, fallback, req, candidates, song, text, sources, broken>>

\* line by line, until one of them goes wrong
ParseLine ==
  /\ at = "parse" /\ read < Len(text)
  /\ read' = read + 1
  /\ LET line == text[read']
     IN  \/ ~Timed(line) /\ UNCHANGED <<at, lines>>
         \/ Timed(line) /\ ParseTimestamp(line.tag) = "ok" /\ Sing(line) /\ UNCHANGED at
         \/ /\ Timed(line) /\ ParseTimestamp(line.tag) = "error"
            /\ at' = "failed" /\ lines' = <<>>
         \/ /\ Timed(line) /\ ParseTimestamp(line.tag) = "panic"
            /\ at' = "aborted" /\ lines' = <<>>
  /\ UNCHANGED <<songs, fallback, req, candidates, song, text, sources, broken>>

ParseEnd ==
  /\ Step("parse", "done")
  /\ read = Len(text)
  /\ UNCHANGED <<songs, fallback, req, candidates, song, text, read, lines, sources, broken>>

-----------------------------------------------------------------------------
Handle ==
  \/ Fails \/ Track \/ Artist \/ Search \/ Candidate \/ NoCandidate
  \/ ReadFile \/ ParseLine \/ ParseEnd

LRCLIB == FetchFromLRCLIB \/ SearchLRCLIB

Next == Handle \/ LRCLIB \/ \E r \in Requests : Send(r)

Spec == Init /\ [][Next]_vars

\* The handler runs on; the requests to LRCLIB have no timeout.
FairSpec == Spec /\ WF_vars(Handle)

-----------------------------------------------------------------------------
(* Properties.                                                             *)

\* The text there is to show, from what the sources hold.
Best ==
  LET Synced(t) == t \notin {None, Broken, <<>>}
  IN  IF file # None THEN file
      ELSE IF Synced(exact) THEN exact
      ELSE IF results \notin {None, Broken} /\ (\E i \in DOMAIN results : Synced(results[i]))
      THEN results[CHOOSE i \in DOMAIN results :
                     Synced(results[i]) /\ \A j \in 1..i - 1 : ~Synced(results[j])]
      ELSE <<>>

\* "When no local file exists, Sonora falls back to the LRCLIB API (exact match
\* first, then fuzzy search).  The fallback can be disabled": nothing is asked
\* of LRCLIB unless it has to be, and an answer is the best there is.
BestSource ==
  /\ exact # None => fallback /\ file = None
  /\ results # None => exact = <<>>
  /\ at = "done" /\ song # None =>
       /\ text = Best
       /\ fallback /\ Best = <<>> => file # None \/ results # None

\* The time a stamp names, to the digits of its fraction.
Sung(tag) ==
  (60 * tag[1][1].value + tag[2][1].value) * 1000
  + tag[2][2].value * (CASE tag[2][2].digits = 1 -> 100
                         [] tag[2][2].digits = 2 -> 10
                         [] tag[2][2].digits = 3 -> 1)

\* How many of the first i lines are sung.
TimedUpTo(i) == Cardinality({j \in 1..i : Timed(text[j])})

\* An answer has every line of its text that is sung, in order, at its time if
\* the fraction has two digits: a text that goes wrong anywhere is no answer.
AllLines ==
  at = "done" =>
    /\ Len(lines) = TimedUpTo(Len(text))
    /\ \A i \in DOMAIN text :
         Timed(text[i]) =>
           LET line == lines[TimedUpTo(i)]
           IN  /\ line.words = text[i].words
               /\ text[i].tag[2][2].digits = 2 => line.start = Sung(text[i].tag)

\* The same for any fraction.
InTime ==
  at = "done" => \A i \in DOMAIN text :
                   Timed(text[i]) => lines[TimedUpTo(i)].start = Sung(text[i].tag)

Fits(s) == ILike(songs[s].title, req.title) /\ Matches(s)

\* getLyrics is about the first song that fits, and says there is none only if
\* none does among the first SearchLimit titles.
FirstFit ==
  at = "done" /\ req.op = "getLyrics" =>
    IF song # None
    THEN Fits(song) /\ \A s \in 1..song - 1 : ~Fits(s)
    ELSE \A s \in DOMAIN songs :
           Fits(s) => Cardinality({i \in 1..s : ILike(songs[i].title, req.title)}) > SearchLimit

\* If a song has the very title and artist asked for, it is the one.
ExactTitle ==
  at = "done" /\ req.op = "getLyrics" =>
    \A s \in DOMAIN songs :
      songs[s].title = req.title /\ Matches(s) => song # None /\ songs[song].title = req.title

\* A request is answered in the end, unless LRCLIB keeps it waiting for good.
LookupEnds ==
  at # "idle" ~> (at \in Final \/ [](at = "exact") \/ [](at = "fuzzy"))
=============================================================================
