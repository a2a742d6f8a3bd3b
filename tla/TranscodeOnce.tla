---------------------------- MODULE TranscodeOnce ----------------------------
(***************************************************************************)
(* What the transcode cache promises, with no locks, files or processes:   *)
(* one request at a time builds the rendition of a path, a rendition that  *)
(* is ready is never built again, and only a ready one is served.  A crash *)
(* loses what is being built and nothing that is ready.                    *)
(***************************************************************************)
CONSTANTS Requests, Paths

VARIABLES builders,   \* per path, the requests that are transcoding it
          ready,      \* the paths whose rendition is in the cache
          got         \* the <<request, path>> pairs served from the cache

vars == <<builders, ready, got>>

Init ==
  /\ builders = [p \in Paths |-> {}]
  /\ ready = {}
  /\ got = {}

Build(r, p) ==
  /\ builders[p] = {}
  /\ p \notin ready
  /\ builders' = [builders EXCEPT ![p] = {r}]
  /\ UNCHANGED <<ready, got>>

Publish(r, p) ==
  /\ builders[p] = {r}
  /\ builders' = [builders EXCEPT ![p] = {}]
  /\ ready' = ready \cup {p}
  /\ UNCHANGED got

Serve(r, p) ==
  /\ p \in ready
  /\ got' = got \cup {<<r, p>>}
  /\ UNCHANGED <<builders, ready>>

Crash ==
  /\ builders' = [p \in Paths |-> {}]
  /\ UNCHANGED <<ready, got>>

Next ==
  \/ \E r \in Requests, p \in Paths : Build(r, p) \/ Publish(r, p) \/ Serve(r, p)
  \/ Crash

Spec == Init /\ [][Next]_vars
=============================================================================
