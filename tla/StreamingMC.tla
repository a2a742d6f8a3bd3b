---------------------------- MODULE StreamingMC ----------------------------
(***************************************************************************)
(* Values for the constants of Streaming: a track above the 48 kHz limit   *)
(* and one exactly at it.                                                  *)
(***************************************************************************)
EXTENDS Streaming, TLC

CONSTANTS hires, dvd

MCSampleRate == [t \in Tracks |-> IF t = hires THEN 96000 ELSE 48000]

RequestSymmetry == Permutations(Requests)
=============================================================================
