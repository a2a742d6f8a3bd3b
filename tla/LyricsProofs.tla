---------------------------- MODULE LyricsProofs -----------------------------
(***************************************************************************)
(* Theorems of Lyrics for any library, any texts and answers, any requests *)
(* and any SearchLimit.                                                    *)
(***************************************************************************)
EXTENDS Lyrics, FiniteSetTheorems, TLAPS

-----------------------------------------------------------------------------
(* Counting.                                                               *)

LEMMA SubsetCounts ==
  ASSUME NEW n \in Nat, NEW S \in SUBSET (1..n), NEW R \in SUBSET S
  PROVE  /\ IsFiniteSet(S) /\ IsFiniteSet(R)
         /\ Cardinality(S) \in Nat /\ Cardinality(R) \in Nat
         /\ Cardinality(R) <= Cardinality(S)
<1>1. IsFiniteSet(1..n)
  BY FS_Interval
<1>2. IsFiniteSet(S) /\ IsFiniteSet(R)
  BY <1>1, FS_Subset
<1>3. Cardinality(R) <= Cardinality(S)
  BY <1>2, FS_Subset
<1>. QED
  BY <1>2, <1>3, FS_CardinalityType

-----------------------------------------------------------------------------
(* FirstFit: which song getLyrics answers for.                             *)

Fitting == {s \in DOMAIN songs : Fits(s)}

\* the songs that were looked at and passed over do not fit
SearchInv ==
  /\ songs \in Libraries
  /\ at \in {"idle", "search", "candidate"} => song = None
  /\ at \in {"search", "candidate"} => req.op = "getLyrics"
  /\ at = "artist" => req.op # "getLyrics" /\ song \in DOMAIN songs
  /\ at = "track" => req.op # "getLyrics"
  /\ at = "candidate" =>
       /\ candidates \subseteq SearchTracks(req.title)
       /\ \A s \in SearchTracks(req.title) \ candidates : ~Matches(s)
  /\ at \in {"file", "exact", "fuzzy", "parse"} => song \in DOMAIN songs
  /\ at \in {"file", "exact", "fuzzy", "parse", "done"} /\ req.op = "getLyrics" /\ song # None =>
       song \in DOMAIN songs /\ Fits(song) /\ \A s \in 1..song - 1 : ~Fits(s)
  /\ at = "done" /\ req.op = "getLyrics" /\ song = None =>
       \A s \in SearchTracks(req.title) : ~Matches(s)

LEMMA SongsAreNumbered ==
  ASSUME songs \in Libraries
  PROVE  Len(songs) \in Nat /\ DOMAIN songs = 1..Len(songs) /\ None \notin DOMAIN songs
BY LibrariesAssumption, NoneAssumption

\* A title before one that is found, and like it, is found too.
LEMMA FoundFromTheTop ==
  ASSUME songs \in Libraries, NEW title, NEW s \in SearchTracks(title), NEW t \in 1..s - 1,
         ILike(songs[t].title, title)
  PROVE  t \in SearchTracks(title)
<1>. DEFINE upTo(n) == {i \in 1..n : ILike(songs[i].title, title)}
<1>1. s \in 1..Len(songs) /\ Len(songs) \in Nat /\ t \in DOMAIN songs /\ t \in Int /\ s \in Nat
  BY SongsAreNumbered DEF SearchTracks
<1>2. upTo(t) \subseteq upTo(s) /\ upTo(s) \subseteq 1..s
  BY <1>1
<1>3. Cardinality(upTo(t)) <= Cardinality(upTo(s)) /\ Cardinality(upTo(s)) \in Nat
      /\ Cardinality(upTo(t)) \in Nat
  <2>. HIDE DEF upTo
  <2>. QED
    BY <1>1, <1>2, SubsetCounts
<1>4. Cardinality(upTo(s)) <= SearchLimit
  BY DEF SearchTracks
<1>. QED
  BY <1>1, <1>3, <1>4, LibrariesAssumption DEF SearchTracks

LEMMA SearchInit == Init => SearchInv
BY DEF Init, SearchInv

LEMMA SearchNext == SearchInv /\ [Next]_vars => SearchInv'
<1>. SUFFICES ASSUME SearchInv, [Next]_vars PROVE SearchInv'
  OBVIOUS
<1>1. ASSUME NEW r \in Requests, Send(r) PROVE SearchInv'
  BY <1>1 DEF SearchInv, Send
<1>2. CASE Fails
  BY <1>2 DEF SearchInv, Fails
<1>3. CASE Track
  <2>1. at = "track" /\ req' = req /\ songs' = songs /\ req.op # "getLyrics"
    BY <1>3 DEF Track, SearchInv
  <2>2. CASE req.song \in DOMAIN songs
    BY <1>3, <2>1, <2>2 DEF SearchInv, Track
  <2>3. CASE req.song \notin DOMAIN songs
    BY <1>3, <2>1, <2>3 DEF SearchInv, Track
  <2>. QED
    BY <2>2, <2>3
<1>5. CASE Search
  BY <1>5 DEF SearchInv, Search, Step, SearchTracks
<1>6. CASE Candidate
  <2>1. PICK s \in candidates :
          /\ \A c \in candidates : s <= c
          /\ candidates' = candidates \ {s}
          /\ IF Matches(s) THEN at' = "file" /\ song' = s ELSE UNCHANGED <<at, song>>
    BY <1>6 DEF Candidate
  <2>2. at = "candidate" /\ UNCHANGED <<songs, req>> /\ req.op = "getLyrics" /\ song = None
    BY <1>6 DEF Candidate, SearchInv
  <2>3. s \in SearchTracks(req.title) /\ s \in DOMAIN songs /\ songs \in Libraries
    BY <2>2 DEF SearchInv, SearchTracks
  <2>4. s \in Nat /\ DOMAIN songs \subseteq Nat
    BY <2>3, SongsAreNumbered
  <2>5. CASE Matches(s)
    <3>1. Fits(s)
      BY <2>3, <2>5 DEF Fits, SearchTracks
    <3>2. ASSUME NEW t \in 1..s - 1, Fits(t) PROVE FALSE
      <4>1. t \in SearchTracks(req.title)
        BY <2>3, <3>2, FoundFromTheTop DEF Fits
      <4>2. t \notin candidates
        BY <2>1, <2>4, <3>2
      <4>. QED
        BY <2>2, <3>2, <4>1, <4>2 DEF SearchInv, Fits
    <3>3. Fits(s)' /\ \A t \in 1..s - 1 : ~Fits(t)'
      BY <2>2, <3>1, <3>2 DEF Fits, Matches
    <3>4. at' = "file" /\ song' = s
      BY <2>1, <2>5
    <3>. QED
      BY <2>2, <2>3, <3>3, <3>4 DEF SearchInv, Fits, Matches
  <2>6. CASE ~Matches(s)
    <3>1. at' = at /\ song' = song /\ SearchTracks(req.title)' = SearchTracks(req.title)
          /\ \A t : Matches(t)' = Matches(t)
      BY <2>1, <2>2, <2>6 DEF SearchTracks, Matches
    <3>2. candidates' \subseteq SearchTracks(req.title)
      BY <2>1, <2>2 DEF SearchInv
    <3>3. \A t \in SearchTracks(req.title) \ candidates' : ~Matches(t)
      BY <2>1, <2>2, <2>6 DEF SearchInv
    <3>. QED
      BY <2>2, <2>3, <3>1, <3>2, <3>3 DEF SearchInv
  <2>. QED
    BY <2>5, <2>6
<1>7. CASE NoCandidate
  <2>1. at = "candidate" /\ at' = "done" /\ UNCHANGED <<songs, req, song>> /\ candidates = {} /\ song = None
    BY <1>7 DEF NoCandidate, Step, SearchInv
  <2>2. \A s \in SearchTracks(req.title) : ~Matches(s)
    BY <2>1 DEF SearchInv
  <2>. QED
    BY <2>1, <2>2 DEF SearchInv, SearchTracks, Matches
<1>8. ASSUME /\ UNCHANGED <<songs, req, song, candidates>>
             /\ \/ at = "artist" /\ at' = "file"
                \/ at = "file" /\ at' \in {"failed", "exact", "done", "parse"}
                \/ at = "exact" /\ at' \in {"failed", "fuzzy", "parse"}
                \/ at = "fuzzy" /\ at' \in {"failed", "done", "parse"}
                \/ at = "parse" /\ at' \in {"failed", "aborted", "done", "parse"}
                \/ at' = at
      PROVE  SearchInv'
  <2>1. /\ \A s : Fits(s)' = Fits(s)
        /\ SearchTracks(req.title)' = SearchTracks(req.title)
        /\ \A s : Matches(s)' = Matches(s)
    BY <1>8 DEF Fits, SearchTracks, Matches
  <2>2. song \in DOMAIN songs => song # None
    BY SongsAreNumbered DEF SearchInv
  <2>. QED
    BY <1>8, <2>1, <2>2 DEF SearchInv
<1>9. CASE Artist
  BY <1>8, <1>9 DEF Artist, Step
<1>10. CASE Fails
  BY <1>10 DEF SearchInv, Fails
<1>11. CASE ReadFile
  BY <1>8, <1>11 DEF ReadFile
<1>12. CASE LRCLIB
  BY <1>8, <1>12 DEF LRCLIB, FetchFromLRCLIB, SearchLRCLIB
<1>13. CASE ParseLine
  BY <1>8, <1>13 DEF ParseLine
<1>14. CASE ParseEnd
  BY <1>8, <1>14 DEF ParseEnd, Step
<1>15. CASE UNCHANGED vars
  BY <1>8, <1>15 DEF vars
<1>. QED
  BY <1>1, <1>2, <1>3, <1>5, <1>6, <1>7, <1>9, <1>11, <1>12, <1>13, <1>14, <1>15 DEF Next, Handle

\* getLyrics (LegacyLyricsHandler) answers for the first song whose title is like
\* the one asked for and whose artist is the one asked for, and for none only if
\* no such song is among the first SearchLimit with such a title.
THEOREM FirstFitHolds == Spec => []FirstFit
<1>1. SearchInv => FirstFit
  <2>. SUFFICES ASSUME SearchInv, at = "done", req.op = "getLyrics" PROVE FirstFit
    BY DEF FirstFit
  <2>1. CASE song # None
    BY <2>1 DEF FirstFit, SearchInv
  <2>2. CASE song = None
    <3>1. SUFFICES ASSUME NEW s \in DOMAIN songs, Fits(s)
                   PROVE  Cardinality({i \in 1..s : ILike(songs[i].title, req.title)}) > SearchLimit
      BY <2>2 DEF FirstFit
    <3>2. s \notin SearchTracks(req.title)
      BY <2>2, <3>1 DEF SearchInv, Fits
    <3>3. s \in Nat
      BY <3>1, SongsAreNumbered DEF SearchInv
    <3>4. Cardinality({i \in 1..s : ILike(songs[i].title, req.title)}) \in Nat
      BY <3>3, SubsetCounts
    <3>. QED
      BY <3>1, <3>2, <3>4, LibrariesAssumption DEF SearchTracks, Fits
  <2>. QED
    BY <2>1, <2>2
<1>. QED
  BY <1>1, SearchInit, SearchNext, PTL DEF Spec

-----------------------------------------------------------------------------
(* BestSource: which text an answer shows.                                 *)

Synced(t) == t \notin {None, Broken, <<>>}

\* The text there is, from what the sources said: the file, the very song, the
\* first that a search found.
Chosen ==
  \/ file \in Texts /\ text = file
  \/ file = None /\ fallback /\ exact \in Texts /\ exact # <<>> /\ text = exact
  \/ file = None /\ fallback /\ exact = <<>> /\ results \in Answers /\ FirstSynced(results, text)

NoneFound ==
  /\ file = None /\ text = <<>>
  /\ \/ ~fallback /\ exact = None /\ results = None
     \/ /\ fallback /\ exact = <<>> /\ results \in Answers
        /\ \A i \in DOMAIN results : results[i] = <<>>

SourceInv ==
  /\ exact # None => fallback /\ file = None
  /\ results # None => exact = <<>>
  /\ exact \in Texts \cup {None, Broken}
  /\ results \in Answers \cup {None, Broken}
  /\ at \in {"idle", "track", "artist", "search", "candidate", "file"} =>
       file = None /\ exact = None /\ results = None /\ text = <<>>
  /\ at \in {"idle", "track", "search", "candidate"} => song = None
  /\ at = "exact" => /\ file = None /\ fallback /\ exact = None
                     /\ results = None /\ text = <<>>
  /\ at = "fuzzy" => /\ file = None /\ fallback /\ exact = <<>>
                     /\ results = None /\ text = <<>>
  /\ at = "parse" => Chosen
  /\ at = "done" /\ song # None => Chosen \/ NoneFound

LEMMA SourceInit == Init => SourceInv
BY NoneAssumption DEF Init, SourceInv

LEMMA SourceNext == SourceInv /\ [Next]_vars => SourceInv'
<1>. SUFFICES ASSUME SourceInv, [Next]_vars PROVE SourceInv'
  OBVIOUS
<1>1. ASSUME NEW r \in Requests, Send(r) PROVE SourceInv'
  BY <1>1 DEF SourceInv, Send, sources
<1>2. CASE Fails
  BY <1>2 DEF SourceInv, Fails, sources
<1>3. CASE Track \/ Artist \/ Search
  BY <1>3 DEF SourceInv, Track, Artist, Search, Step, sources
<1>4. CASE Candidate \/ NoCandidate
  BY <1>4 DEF SourceInv, Candidate, NoCandidate, Step, sources
<1>5. CASE ReadFile
  BY <1>5, NoneAssumption DEF SourceInv, ReadFile, Chosen, NoneFound
<1>6. CASE FetchFromLRCLIB
  BY <1>6, NoneAssumption DEF SourceInv, FetchFromLRCLIB, Chosen
<1>7. CASE SearchLRCLIB
  <2>1. /\ file = None /\ fallback /\ exact = <<>> /\ text = <<>>
        /\ UNCHANGED <<file, fallback, exact, song>> /\ results' \in Answers \cup {Broken}
    BY <1>7 DEF SearchLRCLIB, SourceInv
  <2>2. CASE results' = Broken /\ at' = "failed"
    BY <1>7, <2>1, <2>2, NoneAssumption DEF SourceInv
  <2>3. CASE /\ results' # Broken /\ \A i \in DOMAIN results' : results'[i] = <<>>
             /\ at' = "done" /\ UNCHANGED text
    BY <2>1, <2>3, NoneAssumption DEF SourceInv, NoneFound
  <2>4. CASE results' # Broken /\ FirstSynced(results', text') /\ at' = "parse"
    <3>1. Chosen'
      BY <2>1, <2>4 DEF Chosen, FirstSynced
    <3>. QED
      BY <2>1, <2>4, <3>1, NoneAssumption DEF SourceInv
  <2>. QED
    BY <1>7, <2>2, <2>3, <2>4 DEF SearchLRCLIB
<1>8. CASE ParseLine \/ ParseEnd \/ UNCHANGED vars
  <2>1. UNCHANGED <<file, fallback, exact, results, text, song>>
    BY <1>8 DEF ParseLine, ParseEnd, vars, sources
  <2>2. Chosen' = Chosen /\ NoneFound' = NoneFound
    BY <2>1 DEF Chosen, NoneFound, FirstSynced
  <2>3. at' = at \/ (at = "parse" /\ at' \in {"failed", "aborted", "done"})
    BY <1>8 DEF ParseLine, ParseEnd, Step, vars
  <2>. QED
    BY <2>1, <2>2, <2>3 DEF SourceInv
<1>. QED
  BY <1>1, <1>2, <1>3, <1>4, <1>5, <1>6, <1>7, <1>8 DEF Next, Handle, LRCLIB

LEMMA ChosenIsBest == ASSUME SourceInv, Chosen PROVE text = Best
<1>1. CASE file \in Texts /\ text = file
  BY <1>1, NoneAssumption DEF Best
<1>2. CASE file = None /\ exact \in Texts /\ exact # <<>> /\ text = exact
  BY <1>2, NoneAssumption DEF Best
<1>3. CASE /\ file = None /\ exact = <<>> /\ results \in Answers
           /\ FirstSynced(results, text)
  <2>1. PICK i \in DOMAIN results : /\ results[i] # <<>> /\ text = results[i]
                                    /\ \A j \in 1..i - 1 : results[j] = <<>>
    BY <1>3 DEF FirstSynced
  <2>2. results \in Seq(Texts)
    BY <1>3, TextsAssumption
  <2>. DEFINE first(k) == /\ results[k] \notin {None, Broken, <<>>}
                          /\ \A j \in 1..k - 1 : results[j] \in {None, Broken, <<>>}
  <2>3. \A k \in DOMAIN results : results[k] \in Texts /\ k \in Nat \ {0}
    BY <2>2
  <2>4. first(i)
    BY <2>1, <2>3, NoneAssumption
  <2>5. \A k \in DOMAIN results : first(k) => k = i
    <3>. SUFFICES ASSUME NEW k \in DOMAIN results, first(k) PROVE k = i
      OBVIOUS
    <3>1. ~(i < k)
      BY <2>3, <2>4
    <3>2. ~(k < i)
      BY <2>3, <2>4
    <3>. QED
      BY <2>3, <3>1, <3>2
  <2>6. (CHOOSE k \in DOMAIN results : first(k)) = i
    BY <2>4, <2>5
  <2>7. results \notin {None, Broken}
    BY <1>3, NoneAssumption
  <2>. QED
    BY <1>3, <2>1, <2>4, <2>6, <2>7, NoneAssumption DEF Best
<1>. QED
  BY <1>1, <1>2, <1>3 DEF Chosen

LEMMA NoneIsBest == ASSUME NoneFound PROVE text = Best
BY NoneAssumption DEF Best, NoneFound

\* LRCLIB is not asked before it has to be, and an answer shows the file, or the
\* entry of the very song, or the first that a search finds, in this order
\* (Lookup).
THEOREM BestSourceHolds == Spec => []BestSource
<1>1. SourceInv => BestSource
  <2>1. SUFFICES ASSUME SourceInv, at = "done", song # None
                 PROVE  text = Best /\ (fallback /\ Best = <<>> => file # None \/ results # None)
    BY DEF SourceInv, BestSource
  <2>2. CASE Chosen
    BY <2>1, <2>2, ChosenIsBest, NoneAssumption DEF Chosen
  <2>3. CASE NoneFound
    BY <2>1, <2>3, NoneIsBest, NoneAssumption DEF NoneFound
  <2>. QED
    BY <2>1, <2>2, <2>3 DEF SourceInv
<1>. QED
  BY <1>1, SourceInit, SourceNext, PTL DEF Spec

-----------------------------------------------------------------------------
(* AllLines: the parser, line by line.                                     *)

LineOf(line) == [start |-> TimestampMs(line.tag), words |-> line.words]

\* What has been read is in the result, each line at the place that the lines
\* before it leave it.
SungUpTo(n) ==
  /\ lines \in Seq({LineOf(text[i]) : i \in DOMAIN text})
  /\ Len(lines) = TimedUpTo(n)
  /\ \A i \in 1..n :
       Timed(text[i]) => /\ ParseTimestamp(text[i].tag) = "ok"
                         /\ lines[TimedUpTo(i)] = LineOf(text[i])

Unread == text = <<>> /\ read = 0 /\ lines = <<>>

ParseInv ==
  /\ at \in {"idle", "track", "artist", "search", "candidate", "file", "exact", "fuzzy"} => Unread
  /\ at = "parse" => text \in Texts /\ read \in 0..Len(text) /\ SungUpTo(read)
  /\ at = "done" => Unread \/ (text \in Texts /\ read = Len(text) /\ SungUpTo(read))

LEMMA TextIsLines ==
  ASSUME text \in Texts
  PROVE  /\ Len(text) \in Nat /\ DOMAIN text = 1..Len(text)
         /\ \A i \in DOMAIN text : text[i].tag \in Tag
<1>1. text \in Seq({text[i] : i \in DOMAIN text})
  BY TextsAssumption
<1>2. \A i \in DOMAIN text : text[i].tag \in Tag
  BY TextsAssumption
<1>. QED
  BY <1>1, <1>2

LEMMA TimedUpToZero == TimedUpTo(0) = 0
<1>1. {j \in 1..0 : Timed(text[j])} = {}
  OBVIOUS
<1>. QED
  BY <1>1, FS_EmptySet DEF TimedUpTo

LEMMA TimedUpToGrows ==
  ASSUME NEW n \in Nat, NEW i \in 0..n
  PROVE  TimedUpTo(i) \in Nat /\ TimedUpTo(n) \in Nat /\ TimedUpTo(i) <= TimedUpTo(n)
<1>. DEFINE upTo(k) == {j \in 1..k : Timed(text[j])}
<1>1. upTo(i) \subseteq upTo(n) /\ upTo(n) \subseteq 1..n
  OBVIOUS
<1>. HIDE DEF upTo
<1>2. /\ Cardinality(upTo(i)) \in Nat /\ Cardinality(upTo(n)) \in Nat
      /\ Cardinality(upTo(i)) <= Cardinality(upTo(n))
  BY <1>1, SubsetCounts
<1>. QED
  BY <1>2 DEF TimedUpTo, upTo

LEMMA TimedUpToNext ==
  ASSUME NEW n \in Nat
  PROVE  TimedUpTo(n + 1) = TimedUpTo(n) + IF Timed(text[n + 1]) THEN 1 ELSE 0
<1>. DEFINE upTo(k) == {j \in 1..k : Timed(text[j])}
<1>1. IsFiniteSet(upTo(n)) /\ Cardinality(upTo(n)) \in Nat
  <2>1. upTo(n) \subseteq 1..n
    OBVIOUS
  <2>. QED
    BY <2>1, SubsetCounts
<1>2. CASE Timed(text[n + 1])
  <2>1. upTo(n + 1) = upTo(n) \cup {n + 1} /\ n + 1 \notin upTo(n)
    BY <1>2
  <2>2. Cardinality(upTo(n + 1)) = Cardinality(upTo(n)) + 1
    <3>. HIDE DEF upTo
    <3>. QED
      BY <1>1, <2>1, FS_AddElement
  <2>. QED
    BY <1>2, <2>2 DEF TimedUpTo
<1>3. CASE ~Timed(text[n + 1])
  <2>1. upTo(n + 1) = upTo(n)
    BY <1>3
  <2>. QED
    BY <1>1, <1>3, <2>1 DEF TimedUpTo
<1>. QED
  BY <1>2, <1>3

\* Where a line that is sung goes is after those before it.
LEMMA SungPlace ==
  ASSUME NEW n \in Nat, NEW i \in 1..n, Timed(text[i])
  PROVE  TimedUpTo(i) \in 1..TimedUpTo(n) /\ TimedUpTo(n) \in Nat
<1>1. i - 1 \in Nat /\ i \in 0..n /\ i - 1 \in 0..n
  OBVIOUS
<1>2. TimedUpTo((i - 1) + 1) = TimedUpTo(i - 1) + 1
  <2>1. (i - 1) + 1 = i
    OBVIOUS
  <2>. QED
    BY <1>1, <2>1, TimedUpToNext
<1>3. TimedUpTo(i - 1) \in Nat /\ TimedUpTo(i) \in Nat /\ TimedUpTo(n) \in Nat
      /\ TimedUpTo(i) <= TimedUpTo(n)
  BY <1>1, TimedUpToGrows
<1>4. (i - 1) + 1 = i
  OBVIOUS
<1>. QED
  BY <1>2, <1>3, <1>4

LEMMA ParseInit == Init => ParseInv
BY DEF Init, ParseInv, Unread

LEMMA StartsToParse ==
  ASSUME Unread, text' \in Texts, UNCHANGED <<read, lines>>
  PROVE  text' \in Texts /\ read' \in 0..Len(text)' /\ SungUpTo(read)'
<1>1. Len(text)' \in Nat
  BY TextsAssumption
<1>2. TimedUpTo(0)' = 0
  <2>1. {j \in 1..0 : Timed(text'[j])} = {}
    OBVIOUS
  <2>. QED
    BY <2>1, FS_EmptySet DEF TimedUpTo
<1>. QED
  BY <1>1, <1>2 DEF Unread, SungUpTo

LEMMA LineSung ==
  ASSUME ParseInv, ParseLine, Timed(text[read + 1]), ParseTimestamp(text[read + 1].tag) = "ok",
         Sing(text[read + 1]), at' = at
  PROVE  ParseInv'
<1>1. /\ at = "parse" /\ text \in Texts /\ read \in 0..Len(text) /\ SungUpTo(read)
      /\ read < Len(text) /\ read' = read + 1 /\ text' = text
  BY DEF ParseLine, ParseInv
<1>2. /\ Len(text) \in Nat /\ read \in Nat /\ read + 1 \in DOMAIN text
      /\ DOMAIN text = 1..Len(text)
  BY <1>1, TextIsLines
<1>. DEFINE all == {LineOf(text[i]) : i \in DOMAIN text}
<1>3. lines \in Seq(all) /\ lines' = Append(lines, LineOf(text[read + 1]))
      /\ LineOf(text[read + 1]) \in all
  BY <1>1, <1>2 DEF SungUpTo, Sing, LineOf
<1>4. TimedUpTo(read + 1) = TimedUpTo(read) + 1 /\ TimedUpTo(read) \in Nat
      /\ Len(lines) = TimedUpTo(read)
  BY <1>1, <1>2, TimedUpToNext, TimedUpToGrows DEF SungUpTo
<1>. HIDE DEF all
<1>5. lines' \in Seq(all) /\ Len(lines') = TimedUpTo(read + 1)
      /\ lines'[TimedUpTo(read + 1)] = LineOf(text[read + 1])
      /\ \A k \in 1..TimedUpTo(read) : lines'[k] = lines[k]
  BY <1>3, <1>4
<1>6. ASSUME NEW i \in 1..read + 1, Timed(text[i])
      PROVE  /\ ParseTimestamp(text[i].tag) = "ok"
             /\ lines'[TimedUpTo(i)] = LineOf(text[i])
  <2>1. CASE i = read + 1
    BY <1>5, <2>1
  <2>2. CASE i \in 1..read
    <3>1. TimedUpTo(i) \in 1..TimedUpTo(read)
      BY <1>2, <1>6, <2>2, SungPlace
    <3>2. /\ ParseTimestamp(text[i].tag) = "ok"
          /\ lines[TimedUpTo(i)] = LineOf(text[i])
      BY <1>1, <1>6, <2>2 DEF SungUpTo
    <3>. QED
      BY <1>5, <3>1, <3>2
  <2>. QED
    BY <1>2, <2>1, <2>2
<1>7. SungUpTo(read)'
  <2>1. \A n : TimedUpTo(n)' = TimedUpTo(n)
    BY <1>1 DEF TimedUpTo
  <2>. QED
    BY <1>1, <1>5, <1>6, <2>1 DEF SungUpTo, all
<1>. QED
  BY <1>1, <1>2, <1>7 DEF ParseInv

LEMMA ParseNext == ParseInv /\ [Next]_vars => ParseInv'
<1>. SUFFICES ASSUME ParseInv, [Next]_vars PROVE ParseInv'
  OBVIOUS
<1>0. ASSUME UNCHANGED <<text, lines, read>> PROVE SungUpTo(read)' = SungUpTo(read)
  BY <1>0 DEF SungUpTo, TimedUpTo
<1>1. ASSUME NEW r \in Requests, Send(r) PROVE ParseInv'
  BY <1>1 DEF ParseInv, Send, Unread
<1>2. CASE Fails \/ Track \/ Artist \/ Search \/ Candidate \/ NoCandidate
  <2>1. /\ UNCHANGED <<text, read, lines>> /\ Unread
        /\ at' \in {"idle", "track", "artist", "search", "candidate", "file", "notfound",
                   "failed", "done"}
    BY <1>2 DEF ParseInv, Fails, Track, Artist, Search, Candidate, NoCandidate, Step
  <2>. QED
    BY <2>1 DEF ParseInv, Unread
<1>3. CASE ReadFile
  <2>1. at = "file" /\ Unread /\ UNCHANGED <<read, lines>>
    BY <1>3 DEF ReadFile, ParseInv
  <2>2. CASE at' \in {"failed", "exact", "done"} /\ text' = text
    BY <2>1, <2>2 DEF ParseInv, Unread
  <2>3. CASE at' = "parse" /\ text' \in Texts
    BY <2>1, <2>3, StartsToParse DEF ParseInv
  <2>. QED
    BY <1>3, <2>2, <2>3, NoneAssumption DEF ReadFile
<1>4. CASE FetchFromLRCLIB
  <2>1. at = "exact" /\ Unread /\ UNCHANGED <<read, lines>>
    BY <1>4 DEF FetchFromLRCLIB, ParseInv
  <2>2. CASE at' \in {"failed", "fuzzy"} /\ text' = text
    BY <2>1, <2>2 DEF ParseInv, Unread
  <2>3. CASE at' = "parse" /\ text' \in Texts
    BY <2>1, <2>3, StartsToParse DEF ParseInv
  <2>. QED
    BY <1>4, <2>2, <2>3, NoneAssumption DEF FetchFromLRCLIB
<1>5. CASE SearchLRCLIB
  <2>1. at = "fuzzy" /\ Unread /\ UNCHANGED <<read, lines>>
    BY <1>5 DEF SearchLRCLIB, ParseInv
  <2>2. CASE at' \in {"failed", "done"} /\ text' = text
    BY <2>1, <2>2 DEF ParseInv, Unread
  <2>3. CASE at' = "parse" /\ results' # Broken /\ FirstSynced(results', text')
    <3>1. results' \in Seq(Texts)
      BY <1>5, <2>3, TextsAssumption DEF SearchLRCLIB
    <3>2. text' \in Texts
      BY <2>3, <3>1 DEF FirstSynced
    <3>. QED
      BY <2>1, <2>3, <3>2, StartsToParse DEF ParseInv
  <2>. QED
    BY <1>5, <2>2, <2>3 DEF SearchLRCLIB
<1>6. CASE ParseLine
  <2>1. /\ at = "parse" /\ text \in Texts /\ read \in 0..Len(text) /\ SungUpTo(read)
        /\ read < Len(text) /\ read' = read + 1 /\ text' = text
    BY <1>6 DEF ParseLine, ParseInv
  <2>2. Len(text) \in Nat /\ read \in Nat
    BY <2>1, TextIsLines
  <2>3. CASE ~Timed(text[read + 1]) /\ UNCHANGED <<at, lines>>
    <3>1. TimedUpTo(read + 1) = TimedUpTo(read) /\ \A n : TimedUpTo(n)' = TimedUpTo(n)
      <4>1. TimedUpTo(read) \in Nat
        BY <2>2, TimedUpToGrows
      <4>2. TimedUpTo(read + 1) = TimedUpTo(read)
        BY <2>2, <2>3, <4>1, TimedUpToNext
      <4>. QED
        BY <2>1, <4>2 DEF TimedUpTo
    <3>2. \A i \in 1..read + 1 : Timed(text[i]) => i \in 1..read
      BY <2>2, <2>3
    <3>3. SungUpTo(read)'
      BY <2>1, <2>3, <3>1, <3>2 DEF SungUpTo
    <3>. QED
      BY <2>1, <2>2, <2>3, <3>3 DEF ParseInv
  <2>4. CASE Timed(text[read + 1]) /\ ParseTimestamp(text[read + 1].tag) = "ok"
             /\ Sing(text[read + 1]) /\ UNCHANGED at
    BY <1>6, <2>4, LineSung
  <2>5. CASE at' \in {"failed", "aborted"}
    BY <2>5 DEF ParseInv
  <2>. QED
    BY <1>6, <2>1, <2>3, <2>4, <2>5 DEF ParseLine
<1>7. CASE ParseEnd
  BY <1>0, <1>7 DEF ParseEnd, ParseInv, Step
<1>8. CASE UNCHANGED vars
  BY <1>0, <1>8 DEF vars, ParseInv, Unread
<1>. QED
  BY <1>1, <1>2, <1>3, <1>4, <1>5, <1>6, <1>7, <1>8 DEF Next, Handle, LRCLIB

\* The milliseconds of a stamp that parses are those it names, if its fraction
\* has two digits.
LEMMA StampIsSung ==
  ASSUME NEW tag \in Tag, ParseTimestamp(tag) = "ok", tag[2][2].digits = 2
  PROVE  TimestampMs(tag) = Sung(tag)
<1>1. Len(tag) \in Nat /\ Len(tag) >= 2
  BY DEF ParseTimestamp, Tag
<1>2. tag[1] \in Seq(Number) /\ tag[2] \in Seq(Number) /\ Len(tag[2]) >= 2
  BY <1>1 DEF ParseTimestamp, Tag
<1>3. tag[2][1] \in Number /\ tag[2][2] \in Number
  BY <1>2
<1>4. /\ tag[1][1].value \in Int /\ tag[2][1].value \in Int /\ tag[2][2].value \in Int
  <2>1. tag[1] \in Seq(Number) /\ tag[1] # <<>>
    BY <1>1 DEF Tag
  <2>2. tag[1][1] \in Number
    BY <2>1
  <2>. QED
    BY <1>3, <2>2 DEF Number
<1>5. Sung(tag) = (60 * tag[1][1].value + tag[2][1].value) * 1000 + tag[2][2].value * 10
  <2>1. (CASE tag[2][2].digits = 1 -> 100 [] tag[2][2].digits = 2 -> 10
           [] tag[2][2].digits = 3 -> 1) = 10
    OBVIOUS
  <2>. QED
    BY <2>1 DEF Sung
<1>. QED
  BY <1>4, <1>5 DEF TimestampMs

\* An answer has every line of the text that is sung, in its order and with its
\* words, at the time of a stamp with two digits after the point (Parse).
THEOREM AllLinesHolds == Spec => []AllLines
<1>1. ParseInv => AllLines
  <2>. SUFFICES ASSUME ParseInv, at = "done" PROVE AllLines
    BY DEF AllLines
  <2>1. CASE Unread
    BY <2>1, TimedUpToZero DEF Unread, AllLines
  <2>2. CASE text \in Texts /\ read = Len(text) /\ SungUpTo(read)
    <3>1. /\ Len(text) \in Nat /\ DOMAIN text = 1..Len(text)
          /\ \A i \in DOMAIN text : text[i].tag \in Tag
      BY <2>2, TextIsLines
    <3>2. SUFFICES ASSUME NEW i \in DOMAIN text, Timed(text[i])
                   PROVE  /\ lines[TimedUpTo(i)].words = text[i].words
                          /\ text[i].tag[2][2].digits = 2 =>
                               lines[TimedUpTo(i)].start = Sung(text[i].tag)
      BY <2>2 DEF AllLines, SungUpTo
    <3>3. ParseTimestamp(text[i].tag) = "ok" /\ lines[TimedUpTo(i)] = LineOf(text[i])
      BY <2>2, <3>1, <3>2 DEF SungUpTo
    <3>. QED
      BY <3>1, <3>3, StampIsSung DEF LineOf
  <2>. QED
    BY <2>1, <2>2 DEF ParseInv
<1>. QED
  BY <1>1, ParseInit, ParseNext, PTL DEF Spec
=============================================================================
