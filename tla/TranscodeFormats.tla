-------------------------- MODULE TranscodeFormats --------------------------
(***************************************************************************)
(* What a stream request resolves to: whether the track is transcoded, to  *)
(* which format, and under which path of the cache directory.  A path is   *)
(* the pair the code joins into "<dir>/<track id>.<extension>".            *)
(***************************************************************************)
EXTENDS Naturals

CONSTANTS Tracks,       \* the rows of the tracks table
          SampleRate,   \* their sample_rate column
          Requested,    \* the values clients send as the "format" parameter
          None          \* no lock, no file, no path

ASSUME FormatAssumption ==
  /\ SampleRate \in [Tracks -> Nat]
  /\ None \notin Tracks

Extensions == {"opus", "m4a", "mp3"}

\* the formats ffmpeg is asked for, each with the extension of its cache file
transcodeFormats ==
  [f \in {"opus", "aac", "mp3"} |-> IF f = "aac" THEN "m4a" ELSE f]

\* opus for an empty or unknown format
ResolveFormat(requested) ==
  IF requested \in DOMAIN transcodeFormats THEN transcodeFormats[requested] ELSE "opus"

NeedsTranscode(track, requested) ==
  SampleRate[track] > 48000 /\ requested # "raw"

\* mutant: one cache file for all formats
CachePathNoExtension(track, extension) == <<track, "opus">>

CachePath(track, extension) == <<track, extension>>

Paths == Tracks \X Extensions
=============================================================================
