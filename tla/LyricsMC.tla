------------------------------ MODULE LyricsMC -------------------------------
(***************************************************************************)
(* Songs, requests and texts for Lyrics.                                   *)
(***************************************************************************)
EXTENDS Lyrics

N(value, digits) == [ok |-> TRUE, value |-> value, digits |-> digits]

X == [ok |-> FALSE, value |-> 0, digits |-> 1]

Line(kind, tag, words) == [kind |-> kind, tag |-> tag, words |-> words]

Stamp(minute, second, fraction) ==
  Line("time", << <<N(minute, 2)>>, <<N(second, 2), fraction>> >>, second)

\* "[ar:Some Artist]", two lines that are sung, a line of text, "[no closing"
Good == << Line("meta", <<>>, 0), Stamp(0, 12, N(34, 2)), Line("plain", <<>>, 1),
           Stamp(61, 5, N(0, 2)), Line("open", <<>>, 2) >>

\* "[00:07.5]", "[0x:07.00]", "[00:07.x]", "[1.5:07.00]", "[00:0x.00]"
Tenths == << Stamp(0, 7, N(5, 1)) >>
BadMinute == << Stamp(0, 12, N(34, 2)), Line("time", << <<X>>, <<N(7, 2), N(0, 2)>> >>, 3) >>
BadFraction == << Line("time", << <<N(0, 2)>>, <<N(7, 2), X>> >>, 3), Stamp(0, 12, N(34, 2)) >>
BadSecond == << Line("time", << <<N(0, 2)>>, <<X, N(0, 2)>> >>, 3) >>
TwoPoints == << Line("time", << <<N(1, 1), N(5, 1)>>, <<N(7, 2), N(0, 2)>> >>, 3) >>

\* "[12]" and "[00:07]"
NoColon == << Stamp(0, 12, N(34, 2)), Line("time", << <<N(12, 2)>> >>, 3) >>
NoFraction == << Line("time", << <<N(0, 2)>>, <<N(7, 2)>> >>, 3) >>

MCTexts == { <<>>, Good, Tenths, BadMinute, BadFraction, BadSecond, TwoPoints, NoColon,
             NoFraction, << Line("plain", <<>>, 1) >> }

\* nothing, or two results
MCAnswers == {<<>>} \cup {<<a, b>> : a \in MCTexts, b \in MCTexts}

Song(title, artist) == [title |-> title, artist |-> artist]

\* "Big Love", "Love" and "Love Me" are in the order of their titles
MCLibraries ==
  { << Song("Big Love", "a"), Song("Love", "b"), Song("Love", "a"), Song("Rain", "b") >>,
    << Song("Big Love", "b"), Song("Love", "b"), Song("Love Me", "a") >> }

MCILike(title, part) ==
  title = part \/ (part = "Love" /\ title \in {"Big Love", "Love Me"})

MCRequests ==
  { [op |-> "getLyricsBySongId", song |-> s, title |-> "", artist |-> None] : s \in {1, 9} }
  \cup { [op |-> "getLyrics", song |-> 0, title |-> t, artist |-> a] :
           t \in {"Love", "Rain"}, a \in {"a", "b", None} }
=============================================================================
