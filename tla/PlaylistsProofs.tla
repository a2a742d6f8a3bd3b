---------------------------- MODULE PlaylistsProofs ----------------------------
(***************************************************************************)
(* Theorems of Playlists, for any number of clients and any requests:      *)
(* whatever fails, what an edited playlist shows stays in order, a reader  *)
(* is shown a list there was, and an edit nobody comes in between of does  *)
(* what it was asked to do when it found no hole.  The hypotheses are      *)
(* about who edits: with one editor no hole is ever found, and with        *)
(* editors that only add none is ever made.                                *)
(*                                                                         *)
(* First the lists: rows are read by their rank, and "rows follow list t   *)
(* on kept" says that they show the elements of t at the indices kept, in  *)
(* their order.  Removing, shifting and adding rows keep that, which is    *)
(* how an order is preserved without induction over the list.              *)
(***************************************************************************)
EXTENDS Playlists, FiniteSetTheorems, TLAPS

-----------------------------------------------------------------------------
(* Counting and ordering.                                                  *)

LEMMA Interval ==
  ASSUME NEW a \in Int, NEW n \in Nat
  PROVE  IsFiniteSet(a..a + n - 1) /\ Cardinality(a..a + n - 1) = n
<1>1. a + n - 1 \in Int
  OBVIOUS
<1>2. /\ IsFiniteSet(a..a + n - 1)
      /\ Cardinality(a..a + n - 1) = IF a > a + n - 1 THEN 0 ELSE (a + n - 1) - a + 1
  BY <1>1, FS_Interval, Zenon
<1>. QED
  BY <1>2

LEMMA Counts ==
  ASSUME NEW n \in Nat
  PROVE  /\ IsFiniteSet(0..n - 1) /\ Cardinality(0..n - 1) = n
         /\ IsFiniteSet(1..n) /\ Cardinality(1..n) = n
<1>1. 0 + n - 1 = n - 1 /\ 1 + n - 1 = n
  OBVIOUS
<1>. QED
  BY <1>1, Interval

\* Numbers that differ and are below the size of a set are all there are below it.
LEMMA Numbered ==
  ASSUME NEW S, IsFiniteSet(S), NEW f \in [S -> 0..Cardinality(S) - 1],
         \A p, q \in S : f[p] = f[q] => p = q
  PROVE  \A i \in 0..Cardinality(S) - 1 : \E p \in S : f[p] = i
<1>. DEFINE n == Cardinality(S)
<1>1. n \in Nat
  BY FS_CardinalityType
<1>2. IsFiniteSet(0..n - 1) /\ Cardinality(0..n - 1) = n
  BY <1>1, Counts
<1>3. f \in Injection(S, 0..n - 1)
  BY DEF Injection, IsInjective
<1>. HIDE DEF n
<1>4. f \in Surjection(S, 0..n - 1)
  BY <1>2, <1>3, FS_Injection DEF n
<1>. QED
  BY <1>4 DEF Surjection, n

LEMMA SameSize ==
  ASSUME NEW S, IsFiniteSet(S), NEW T, NEW f \in [S -> T],
         \A p, q \in S : f[p] = f[q] => p = q,
         \A t \in T : \E s \in S : f[s] = t
  PROVE  IsFiniteSet(T) /\ Cardinality(T) = Cardinality(S)
<1>1. f \in Bijection(S, T)
  BY DEF Bijection, Injection, Surjection, IsInjective
<1>. QED
  BY <1>1, FS_Bijection DEF ExistsBijection

-----------------------------------------------------------------------------
(* The rows of a playlist, and the list that is read from them.            *)

RowsOK(rows) ==
  /\ IsFiniteSet(DOMAIN rows) /\ DOMAIN rows \subseteq Int
  /\ rows = [pos \in DOMAIN rows |-> rows[pos]]

Size(rows) == Cardinality(DOMAIN rows)

LEMMA SizeIsNat == ASSUME NEW rows, RowsOK(rows) PROVE Size(rows) \in Nat
BY FS_CardinalityType DEF Size, RowsOK

LEMMA RankNat ==
  ASSUME NEW rows, RowsOK(rows), NEW pos \in Int
  PROVE  /\ IsFiniteSet({q \in DOMAIN rows : q < pos})
         /\ Rank(rows, pos) \in Nat
         /\ pos \in DOMAIN rows => Rank(rows, pos) \in 0..Size(rows) - 1
<1>. DEFINE before == {q \in DOMAIN rows : q < pos}
<1>1. IsFiniteSet(DOMAIN rows) /\ before \subseteq DOMAIN rows /\ pos \notin before
  BY DEF RowsOK
<1>. HIDE DEF before
<1>2. IsFiniteSet(before) /\ Cardinality(before) <= Size(rows)
      /\ (Cardinality(before) = Size(rows) => before = DOMAIN rows)
  BY <1>1, FS_Subset DEF Size
<1>3. Cardinality(before) \in Nat /\ Size(rows) \in Nat
  BY <1>2, SizeIsNat, FS_CardinalityType
<1>4. pos \in DOMAIN rows => before # DOMAIN rows
  BY <1>1
<1>. QED
  BY <1>2, <1>3, <1>4 DEF before, Rank

LEMMA RankGrows ==
  ASSUME NEW rows, RowsOK(rows), NEW p \in DOMAIN rows, NEW q \in Int, p < q
  PROVE  Rank(rows, p) < Rank(rows, q)
<1>. DEFINE before(k) == {r \in DOMAIN rows : r < k}
<1>1. p \in Int /\ DOMAIN rows \subseteq Int
  BY DEF RowsOK
<1>2. before(p) \subseteq before(q) /\ p \in before(q) /\ p \notin before(p)
  BY <1>1
<1>3. IsFiniteSet(before(q)) /\ Rank(rows, p) = Cardinality(before(p))
      /\ Rank(rows, q) = Cardinality(before(q))
      /\ Rank(rows, p) \in Nat /\ Rank(rows, q) \in Nat
  BY <1>1, RankNat DEF Rank
<1>. HIDE DEF before
<1>4. Cardinality(before(p)) <= Cardinality(before(q))
      /\ (Cardinality(before(q)) = Cardinality(before(p)) => before(q) = before(p))
  BY <1>2, <1>3, FS_Subset
<1>. QED
  BY <1>2, <1>3, <1>4

LEMMA RankOnce ==
  ASSUME NEW rows, RowsOK(rows), NEW p \in DOMAIN rows, NEW q \in DOMAIN rows,
         Rank(rows, p) = Rank(rows, q)
  PROVE  p = q
<1>1. p \in Int /\ q \in Int
  BY DEF RowsOK
<1>2. Rank(rows, p) \in Nat
  BY <1>1, RankNat
<1>3. ~(p < q) /\ ~(q < p)
  BY <1>1, <1>2, RankGrows
<1>. QED
  BY <1>1, <1>3

LEMMA RankReached ==
  ASSUME NEW rows, RowsOK(rows), NEW i \in 0..Size(rows) - 1
  PROVE  \E pos \in DOMAIN rows : Rank(rows, pos) = i
<1>. DEFINE f == [pos \in DOMAIN rows |-> Rank(rows, pos)]
<1>1. f \in [DOMAIN rows -> 0..Size(rows) - 1]
  <2>1. \A pos \in DOMAIN rows : Rank(rows, pos) \in 0..Size(rows) - 1
    BY RankNat DEF RowsOK
  <2>. QED
    BY <2>1
<1>2. \A p, q \in DOMAIN rows : f[p] = f[q] => p = q
  BY RankOnce
<1>. HIDE DEF f
<1>3. IsFiniteSet(DOMAIN rows)
  BY DEF RowsOK
<1>4. \A k \in 0..Size(rows) - 1 : \E p \in DOMAIN rows : f[p] = k
  BY <1>1, <1>2, <1>3, Numbered DEF Size
<1>. QED
  BY <1>4 DEF f

\* A row is in the list at the place of its rank.
LEMMA ListPlace ==
  ASSUME NEW rows, RowsOK(rows)
  PROVE  /\ ListPlaylistTracks(rows) \in Seq({rows[pos] : pos \in DOMAIN rows})
         /\ DOMAIN ListPlaylistTracks(rows) = 1..Size(rows)
         /\ Len(ListPlaylistTracks(rows)) = Size(rows) /\ Size(rows) \in Nat
         /\ \A pos \in DOMAIN rows : /\ Rank(rows, pos) + 1 \in 1..Size(rows)
                                     /\ ListPlaylistTracks(rows)[Rank(rows, pos) + 1] = rows[pos]
<1>. DEFINE list == ListPlaylistTracks(rows)
<1>1. Size(rows) \in Nat
  BY SizeIsNat
<1>2. list = [i \in 1..Size(rows) |->
                rows[CHOOSE pos \in DOMAIN rows : Rank(rows, pos) = i - 1]]
  BY DEF ListPlaylistTracks, Size
<1>3. ASSUME NEW i \in 1..Size(rows)
      PROVE  (CHOOSE pos \in DOMAIN rows : Rank(rows, pos) = i - 1) \in DOMAIN rows
  <2>1. i - 1 \in 0..Size(rows) - 1
    BY <1>1
  <2>2. \E pos \in DOMAIN rows : Rank(rows, pos) = i - 1
    BY <2>1, RankReached
  <2>. QED
    BY <2>2
<1>4. list \in [1..Size(rows) -> {rows[pos] : pos \in DOMAIN rows}]
  BY <1>2, <1>3
<1>5. list \in Seq({rows[pos] : pos \in DOMAIN rows}) /\ Len(list) = Size(rows)
      /\ DOMAIN list = 1..Size(rows)
  <2>. HIDE DEF list
  <2>. QED
    BY <1>1, <1>4
<1>6. ASSUME NEW pos \in DOMAIN rows
      PROVE  Rank(rows, pos) + 1 \in 1..Size(rows) /\ list[Rank(rows, pos) + 1] = rows[pos]
  <2>1. Rank(rows, pos) \in 0..Size(rows) - 1
    BY RankNat DEF RowsOK
  <2>2. Rank(rows, pos) + 1 \in 1..Size(rows) /\ (Rank(rows, pos) + 1) - 1 = Rank(rows, pos)
    BY <1>1, <2>1
  <2>3. (CHOOSE q \in DOMAIN rows : Rank(rows, q) = (Rank(rows, pos) + 1) - 1) = pos
    BY <2>2, RankOnce
  <2>. QED
    BY <1>2, <2>2, <2>3
<1>. QED
  BY <1>1, <1>5, <1>6

\* The rows have the members of t at the indices in kept, in the order of t.
Follows(rows, t, kept) ==
  \E g \in [DOMAIN rows -> kept] :
    /\ \A p, q \in DOMAIN rows : p < q => g[p] < g[q]
    /\ \A k \in kept : \E p \in DOMAIN rows : g[p] = k
    /\ \A p \in DOMAIN rows : rows[p] = t[g[p]]

\* They are then the list that is left of t.
LEMMA FollowsList ==
  ASSUME NEW rows, RowsOK(rows), NEW t, NEW kept \in SUBSET Int, Follows(rows, t, kept)
  PROVE  /\ RowsOK(Restrict(t, kept))
         /\ Cardinality(kept) = Size(rows)
         /\ ListPlaylistTracks(rows) = ListPlaylistTracks(Restrict(t, kept))
<1>. DEFINE some == Restrict(t, kept)
<1>1. PICK g \in [DOMAIN rows -> kept] :
        /\ \A p, q \in DOMAIN rows : p < q => g[p] < g[q]
        /\ \A k \in kept : \E p \in DOMAIN rows : g[p] = k
        /\ \A p \in DOMAIN rows : rows[p] = t[g[p]]
  BY DEF Follows
<1>2. DOMAIN rows \subseteq Int /\ IsFiniteSet(DOMAIN rows)
  BY DEF RowsOK
<1>3. \A p, q \in DOMAIN rows : (p < q <=> g[p] < g[q]) /\ (g[p] = g[q] => p = q)
  BY <1>1, <1>2
<1>4. IsFiniteSet(kept) /\ Cardinality(kept) = Size(rows)
  <2>1. /\ IsFiniteSet(DOMAIN rows) /\ g \in [DOMAIN rows -> kept]
        /\ \A p, q \in DOMAIN rows : g[p] = g[q] => p = q
        /\ \A k \in kept : \E p \in DOMAIN rows : g[p] = k
    BY <1>1, <1>2, <1>3
  <2>2. IsFiniteSet(kept) /\ Cardinality(kept) = Cardinality(DOMAIN rows)
    BY ONLY <2>1, SameSize, Zenon
  <2>. QED
    BY <2>2 DEF Size
<1>5. DOMAIN some = kept /\ \A k \in kept : some[k] = t[k]
  BY DEF Restrict
<1>6. RowsOK(some) /\ Size(some) = Size(rows)
  <2>1. some = [k \in DOMAIN some |-> some[k]]
    BY DEF Restrict
  <2>. HIDE DEF some
  <2>. QED
    BY <1>4, <1>5, <2>1 DEF RowsOK, Size
<1>. HIDE DEF some
<1>7. ASSUME NEW p \in DOMAIN rows PROVE Rank(some, g[p]) = Rank(rows, p)
  <2>. DEFINE before == {q \in DOMAIN rows : q < p}
              images == {k \in DOMAIN some : k < g[p]}
              h == [q \in before |-> g[q]]
  <2>1. IsFiniteSet(before)
    BY <1>2, RankNat
  <2>2. h \in [before -> images]
    BY <1>1, <1>3, <1>5
  <2>3. \A q, r \in before : h[q] = h[r] => q = r
    BY <1>3
  <2>4. ASSUME NEW k \in images PROVE \E q \in before : h[q] = k
    <3>1. k \in kept /\ k < g[p]
      BY <1>5
    <3>2. PICK q \in DOMAIN rows : g[q] = k
      BY <1>1, <3>1
    <3>3. q \in before
      BY <1>3, <3>1, <3>2
    <3>. QED
      BY <3>2, <3>3
  <2>. HIDE DEF before, images, h
  <2>5. Cardinality(images) = Cardinality(before)
    BY <2>1, <2>2, <2>3, <2>4, SameSize
  <2>. QED
    BY <2>5 DEF Rank, before, images
<1>. DEFINE a == ListPlaylistTracks(rows)
            b == ListPlaylistTracks(some)
<1>8. /\ a = [i \in 1..Size(rows) |-> a[i]] /\ b = [i \in 1..Size(rows) |-> b[i]]
      /\ Size(rows) \in Nat
  BY <1>6, SizeIsNat DEF ListPlaylistTracks, Size
<1>9. ASSUME NEW i \in 1..Size(rows) PROVE a[i] = b[i]
  <2>1. i - 1 \in 0..Size(rows) - 1 /\ (i - 1) + 1 = i
    BY <1>8
  <2>2. PICK p \in DOMAIN rows : Rank(rows, p) = i - 1
    BY <2>1, RankReached
  <2>3. g[p] \in DOMAIN some /\ Rank(some, g[p]) = i - 1 /\ some[g[p]] = rows[p]
    BY <1>1, <1>5, <1>7, <2>2
  <2>4. a[(i - 1) + 1] = rows[p]
    BY <2>2, ListPlace
  <2>5. b[(i - 1) + 1] = some[g[p]]
    BY <1>6, <2>3, ListPlace
  <2>. QED
    BY <2>1, <2>3, <2>4, <2>5
<1>10. a = b
  <2>. HIDE DEF a, b
  <2>. QED
    BY <1>8, <1>9
<1>. QED
  BY <1>4, <1>6, <1>10 DEF some

-----------------------------------------------------------------------------
(* The types of the variables, and the labels a request comes by.          *)

AllLabels == {"idle", "create", "get", "replace", "update", "delete", "show", "list",
              "remove", "shift", "add", "song", "ok", "failed"}

TrackRows == UNION {[D -> Songs] : D \in {P \in SUBSET Int : IsFiniteSet(P)}}

Typed ==
  /\ at \in [Clients -> AllLabels]
  /\ DOMAIN req = Clients /\ DOMAIN row = Clients /\ DOMAIN left = Clients
  /\ DOMAIN shown = Clients /\ DOMAIN base = Clients
  /\ next \in [Clients -> Nat \ {0}]
  /\ first \in [Clients -> Nat]
  /\ alone \in [Clients -> BOOLEAN]
  /\ faults \in Nat

TablesTyped ==
  /\ playlists \in Seq(PlaylistRow \cup {None})
  /\ entries \in Seq(TrackRows)
  /\ Len(entries) = Len(playlists)

\* The labels at which a request has a playlist of its own to work on.
Working == {"replace", "update", "delete", "show", "remove", "shift", "add", "song"}

RouteOf(c) ==
  /\ at[c] # "idle" => req[c] \in Requests[c]
  /\ at[c] \in {"create", "replace", "update", "delete", "show", "list"} => req[c].op = at[c]
  /\ at[c] = "get" => req[c].op \notin {"create", "list"}
  /\ at[c] \in {"remove", "shift"} => req[c].op = "update" /\ left[c] \in Seq(Int)
  /\ at[c] = "shift" => left[c] # <<>>
  /\ at[c] = "add" => /\ req[c].op \in {"create", "replace", "update"}
                      /\ req[c].op # "update" => first[c] = 0
  /\ at[c] = "song" => req[c].op = "show"
  /\ at[c] \in Working => Target(c) \in DOMAIN playlists
  /\ at[c] \notin {"add", "song", "ok", "failed"} => next[c] = 1 /\ first[c] = 0
  /\ at[c] = "update" => row[c] \in PlaylistRow

OnRoute == \A c \in Clients : RouteOf(c)

\* A write that is alone is the only one in flight.
AloneInv ==
  \A c \in Clients : alone[c] =>
    /\ at[c] # "idle" /\ req[c].op \notin Reads
    /\ \A d \in Clients \ {c} : ~Writing(d)

Handling == Typed /\ TablesTyped /\ OnRoute /\ AloneInv

LEMMA TrackRowsOK ==
  ASSUME NEW rows \in TrackRows
  PROVE  RowsOK(rows) /\ \A pos \in DOMAIN rows : rows[pos] \in Songs
BY DEF TrackRows, RowsOK

LEMMA RowsTyped ==
  ASSUME NEW D \in SUBSET Int, IsFiniteSet(D), NEW rows \in [D -> Songs]
  PROVE  rows \in TrackRows
BY DEF TrackRows

LEMMA NoRows == << >> \in TrackRows /\ DOMAIN << >> = {}
<1>1. IsFiniteSet({})
  BY FS_EmptySet
<1>2. << >> \in [{} -> Songs]
  OBVIOUS
<1>. QED
  BY <1>1, <1>2, RowsTyped

LEMMA LessRows ==
  ASSUME NEW rows \in TrackRows, NEW S
  PROVE  /\ Restrict(rows, DOMAIN rows \ S) \in TrackRows
         /\ DOMAIN Restrict(rows, DOMAIN rows \ S) = DOMAIN rows \ S
         /\ \A pos \in DOMAIN rows \ S : Restrict(rows, DOMAIN rows \ S)[pos] = rows[pos]
<1>1. IsFiniteSet(DOMAIN rows) /\ DOMAIN rows \subseteq Int
  BY TrackRowsOK DEF RowsOK
<1>2. IsFiniteSet(DOMAIN rows \ S) /\ DOMAIN rows \ S \subseteq Int
  BY <1>1, FS_Subset
<1>3. Restrict(rows, DOMAIN rows \ S) \in [DOMAIN rows \ S -> Songs]
  BY TrackRowsOK DEF Restrict
<1>. QED
  BY <1>2, <1>3, RowsTyped DEF Restrict

LEMMA MoreRows ==
  ASSUME NEW rows \in TrackRows, NEW pos \in Int, NEW song \in Songs
  PROVE  [q \in DOMAIN rows \cup {pos} |-> IF q = pos THEN song ELSE rows[q]] \in TrackRows
<1>1. IsFiniteSet(DOMAIN rows) /\ DOMAIN rows \subseteq Int
  BY TrackRowsOK DEF RowsOK
<1>2. IsFiniteSet(DOMAIN rows \cup {pos}) /\ DOMAIN rows \cup {pos} \in SUBSET Int
  BY <1>1, FS_AddElement
<1>3. [q \in DOMAIN rows \cup {pos} |-> IF q = pos THEN song ELSE rows[q]]
        \in [DOMAIN rows \cup {pos} -> Songs]
  BY TrackRowsOK
<1>. QED
  BY <1>2, <1>3, RowsTyped

LEMMA ShiftedRows ==
  ASSUME NEW rows \in TrackRows, NEW pos \in Int,
         \A q, r \in DOMAIN rows : Moved(q, pos) = Moved(r, pos) => q = r
  PROVE  /\ Shifted(rows, pos) \in TrackRows
         /\ DOMAIN Shifted(rows, pos) = {Moved(q, pos) : q \in DOMAIN rows}
         /\ \A q \in DOMAIN rows : Shifted(rows, pos)[Moved(q, pos)] = rows[q]
         /\ Size(Shifted(rows, pos)) = Size(rows)
<1>. DEFINE moved == {Moved(q, pos) : q \in DOMAIN rows}
            move == [q \in DOMAIN rows |-> Moved(q, pos)]
<1>1. IsFiniteSet(DOMAIN rows) /\ DOMAIN rows \subseteq Int
  BY TrackRowsOK DEF RowsOK
<1>2. /\ move \in [DOMAIN rows -> moved]
      /\ \A p, q \in DOMAIN rows : move[p] = move[q] => p = q
      /\ \A m \in moved : \E q \in DOMAIN rows : move[q] = m
  OBVIOUS
<1>3. moved \subseteq Int
  BY <1>1 DEF Moved
<1>4. Shifted(rows, pos) = [m \in moved |-> rows[CHOOSE q \in DOMAIN rows : Moved(q, pos) = m]]
  BY DEF Shifted
<1>5. \A q \in DOMAIN rows : (CHOOSE r \in DOMAIN rows : Moved(r, pos) = Moved(q, pos)) = q
  OBVIOUS
<1>6. \A q \in DOMAIN rows : Moved(q, pos) \in moved /\ Shifted(rows, pos)[Moved(q, pos)] = rows[q]
  BY <1>4, <1>5
<1>7. \A m \in moved : \E q \in DOMAIN rows : Moved(q, pos) = m
  OBVIOUS
<1>. HIDE DEF moved, move
<1>8. IsFiniteSet(moved) /\ Cardinality(moved) = Cardinality(DOMAIN rows)
  BY ONLY <1>1, <1>2, SameSize, Zenon
<1>9. \A m \in moved : Shifted(rows, pos)[m] \in Songs
  BY <1>6, <1>7, TrackRowsOK
<1>10. Shifted(rows, pos) \in [moved -> Songs] /\ DOMAIN Shifted(rows, pos) = moved
  BY <1>4, <1>9
<1>11. Shifted(rows, pos) \in TrackRows
  BY <1>3, <1>8, <1>10, RowsTyped
<1>. QED
  BY <1>6, <1>8, <1>10, <1>11 DEF moved, Size

\* Descending is the same numbers, none after a smaller one.
LEMMA DescendingOrder ==
  ASSUME NEW remove \in Seq(Int)
  PROVE  /\ Descending(remove) \in Seq(Int)
         /\ Len(Descending(remove)) = Len(remove)
         /\ Range(Descending(remove)) = Range(remove)
         /\ \A i, j \in DOMAIN Descending(remove) :
              i < j => Descending(remove)[i] >= Descending(remove)[j]
         /\ IsInjective(remove) =>
              \A i, j \in DOMAIN Descending(remove) :
                i < j => Descending(remove)[i] > Descending(remove)[j]
<1>. DEFINE Before(j, k) == IF remove[j] = remove[k] THEN j < k ELSE remove[j] > remove[k]
            before(k) == {j \in DOMAIN remove : Before(j, k)}
            place(k) == Cardinality(before(k))
            n == Len(remove)
            f == [k \in DOMAIN remove |-> place(k)]
            d == Descending(remove)
<1>1. n \in Nat /\ DOMAIN remove = 1..n /\ \A k \in 1..n : remove[k] \in Int
  OBVIOUS
<1>2. IsFiniteSet(DOMAIN remove) /\ Cardinality(DOMAIN remove) = n
  BY <1>1, Counts
<1>3. ASSUME NEW k \in DOMAIN remove
      PROVE  IsFiniteSet(before(k)) /\ place(k) \in 0..n - 1
  <2>1. before(k) \subseteq DOMAIN remove /\ k \notin before(k)
    BY <1>1
  <2>. HIDE DEF before, n
  <2>2. IsFiniteSet(before(k)) /\ Cardinality(before(k)) <= n
        /\ (Cardinality(before(k)) = n => before(k) = DOMAIN remove)
    BY <1>2, <2>1, FS_Subset
  <2>3. Cardinality(before(k)) \in Nat
    BY <2>2, FS_CardinalityType
  <2>. QED
    BY <1>1, <2>1, <2>2, <2>3
<1>4. ASSUME NEW j \in DOMAIN remove, NEW k \in DOMAIN remove, Before(j, k)
      PROVE  place(j) < place(k)
  <2>1. before(j) \subseteq before(k) /\ j \in before(k) /\ j \notin before(j)
    BY <1>1, <1>4
  <2>. HIDE DEF before
  <2>2. IsFiniteSet(before(k)) /\ place(j) \in 0..n - 1 /\ place(k) \in 0..n - 1
    BY <1>3
  <2>3. Cardinality(before(j)) <= Cardinality(before(k))
        /\ (Cardinality(before(k)) = Cardinality(before(j)) => before(k) = before(j))
    BY <2>1, <2>2, FS_Subset
  <2>. QED
    BY <1>1, <2>1, <2>2, <2>3
<1>5. \A j, k \in DOMAIN remove : Before(j, k) \/ Before(k, j) \/ j = k
  BY <1>1
<1>6. \A k \in DOMAIN remove : place(k) \in 0..n - 1
  BY <1>3
<1>7. \A j, k \in DOMAIN remove : Before(j, k) => place(j) < place(k)
  BY <1>4
<1>8. d = [i \in DOMAIN remove |-> remove[CHOOSE k \in DOMAIN remove : place(k) = i - 1]]
  BY DEF Descending
<1>. HIDE DEF place, d
<1>9. \A j, k \in DOMAIN remove : place(j) = place(k) => j = k
  BY <1>1, <1>5, <1>6, <1>7
<1>10. f \in [DOMAIN remove -> 0..Cardinality(DOMAIN remove) - 1]
       /\ \A j, k \in DOMAIN remove : f[j] = f[k] => j = k
  BY <1>2, <1>6, <1>9
<1>. HIDE DEF f
<1>11. \A i \in 0..Cardinality(DOMAIN remove) - 1 : \E k \in DOMAIN remove : f[k] = i
  BY <1>2, <1>10, Numbered
<1>12. ASSUME NEW i \in 1..n
       PROVE  \E k \in DOMAIN remove : place(k) = i - 1 /\ d[i] = remove[k]
  <2>1. i - 1 \in 0..n - 1
    BY <1>1
  <2>2. \E k \in DOMAIN remove : place(k) = i - 1
    BY <1>2, <1>11, <2>1 DEF f
  <2>. QED
    BY <1>1, <1>8, <2>2
<1>13. DOMAIN d = 1..n /\ d \in [1..n -> Int]
  <2>1. \A i \in 1..n : d[i] \in Int
    BY <1>1, <1>12
  <2>. QED
    BY <1>1, <1>8, <2>1
<1>14. d \in Seq(Int) /\ Len(d) = n
  BY <1>1, <1>13
<1>15. Range(d) = Range(remove)
  <2>1. ASSUME NEW k \in DOMAIN remove PROVE \E i \in 1..n : d[i] = remove[k]
    <3>1. place(k) + 1 \in 1..n /\ (place(k) + 1) - 1 = place(k)
      BY <1>1, <1>6
    <3>2. PICK j \in DOMAIN remove : place(j) = (place(k) + 1) - 1 /\ d[place(k) + 1] = remove[j]
      BY <1>12, <3>1
    <3>. QED
      BY <1>9, <3>1, <3>2
  <2>. QED
    BY <1>1, <1>12, <1>13, <2>1 DEF Range
<1>16. ASSUME NEW i \in 1..n, NEW j \in 1..n, i < j
       PROVE  d[i] >= d[j] /\ (IsInjective(remove) => d[i] > d[j])
  <2>1. PICK k \in DOMAIN remove : place(k) = i - 1 /\ d[i] = remove[k]
    BY <1>12
  <2>2. PICK l \in DOMAIN remove : place(l) = j - 1 /\ d[j] = remove[l]
    BY <1>12
  <2>3. place(k) < place(l)
    BY <1>1, <1>16, <2>1, <2>2
  <2>4. ~Before(l, k) /\ k # l
    BY <1>6, <1>7, <2>3
  <2>5. d[i] >= d[j]
    BY <1>1, <1>5, <2>1, <2>2, <2>4
  <2>6. IsInjective(remove) => d[i] # d[j]
    BY <2>1, <2>2, <2>4 DEF IsInjective
  <2>7. d[i] \in Int /\ d[j] \in Int
    BY <1>13
  <2>. QED
    BY ONLY <2>5, <2>6, <2>7
<1>. QED
  BY <1>13, <1>14, <1>15, <1>16 DEF d

\* What the queries get of an index that fits.
LEMMA Int32Of ==
  ASSUME NEW n \in Int
  PROVE  Int32(n) \in Int /\ (n \in 0..Width - 1 => Int32(n) = n)
<1>1. 2 * Width \in Nat \ {0} /\ n + Width \in Int /\ Width \in Nat
  BY PlaylistsAssumption
<1>2. (n + Width) % (2 * Width) \in Int
  BY <1>1
<1>3. ASSUME NEW m \in Nat \ {0}, NEW x \in 0..m - 1 PROVE x % m = x
  OBVIOUS
<1>4. n \in 0..Width - 1 => n + Width \in 0..2 * Width - 1
  BY <1>1
<1>5. n \in 0..Width - 1 => (n + Width) % (2 * Width) = n + Width
  BY <1>1, <1>3, <1>4
<1>. QED
  BY <1>1, <1>2, <1>5 DEF Int32

LEMMA TruncatedOf ==
  ASSUME NEW s \in Seq(Int)
  PROVE  /\ Truncated(s) \in Seq(Int)
         /\ (\A i \in DOMAIN s : s[i] \in 0..Width - 1) => Truncated(s) = s
<1>1. DOMAIN s = 1..Len(s) /\ Len(s) \in Nat /\ \A i \in DOMAIN s : s[i] \in Int
  OBVIOUS
<1>2. \A i \in DOMAIN s : Int32(s[i]) \in Int /\ (s[i] \in 0..Width - 1 => Int32(s[i]) = s[i])
  BY <1>1, Int32Of
<1>3. Truncated(s) \in Seq(Int)
  BY <1>1, <1>2 DEF Truncated
<1>4. ASSUME \A i \in DOMAIN s : s[i] \in 0..Width - 1 PROVE Truncated(s) = s
  BY <1>1, <1>2, <1>4 DEF Truncated
<1>. QED
  BY <1>3, <1>4

\* A shift behind a position that has no row is never refused.
LEMMA FreeShift ==
  ASSUME NEW p, NEW m \in Nat, NEW d \in Int, DOMAIN entries[p] = (0..m - 1) \ {d}
  PROVE  Movable(p, d)
BY DEF Movable, Moved

LEMMA HandlingInit == Init => Handling
<1>. SUFFICES ASSUME Init PROVE Handling
  OBVIOUS
<1>1. Typed
  BY PlaylistsAssumption DEF Init, Typed, AllLabels
<1>2. TablesTyped
  <2>1. Len(InitialSongs) \in Nat /\ \A i \in 1..Len(InitialSongs) : InitialSongs[i] \in Songs
    BY PlaylistsAssumption
  <2>2. 0..Len(InitialSongs) - 1 \in SUBSET Int /\ IsFiniteSet(0..Len(InitialSongs) - 1)
    BY <2>1, Counts
  <2>3. Rows(InitialSongs) \in [0..Len(InitialSongs) - 1 -> Songs]
    BY <2>1 DEF Rows
  <2>4. Rows(InitialSongs) \in TrackRows
    BY <2>2, <2>3, RowsTyped
  <2>5. [owner |-> Owner, name |-> "mix", public |-> FALSE] \in PlaylistRow
    BY DEF PlaylistRow
  <2>. QED
    BY <2>4, <2>5 DEF Init, TablesInit, TablesTyped
<1>3. OnRoute /\ AloneInv
  BY DEF Init, OnRoute, RouteOf, AloneInv, Working
<1>. QED
  BY <1>1, <1>2, <1>3 DEF Handling

LEMMA ReplaceOne ==
  ASSUME NEW S, NEW s \in Seq(S), NEW p \in DOMAIN s, NEW x \in S
  PROVE  /\ [s EXCEPT ![p] = x] \in Seq(S) /\ Len([s EXCEPT ![p] = x]) = Len(s)
         /\ DOMAIN [s EXCEPT ![p] = x] = DOMAIN s
OBVIOUS

LEMMA ReplaceRows ==
  ASSUME TablesTyped, NEW p \in DOMAIN entries, NEW rows \in TrackRows,
         entries' = [entries EXCEPT ![p] = rows], playlists' = playlists
  PROVE  TablesTyped' /\ DOMAIN playlists \subseteq DOMAIN playlists'
BY DEF TablesTyped

\* An update writes a row of the same owner.
LEMMA UpdatedRow ==
  ASSUME TablesTyped, NEW c \in Clients, Update(c), Exists(req[c].id),
         row[c] \in PlaylistRow, req[c] \in Requests[c]
  PROVE  /\ TablesTyped' /\ DOMAIN playlists \subseteq DOMAIN playlists'
         /\ playlists'[req[c].id] # None
         /\ playlists'[req[c].id].owner = playlists[req[c].id].owner
<1>. DEFINE name == IF req[c].name = None THEN row[c].name ELSE req[c].name
            public == IF req[c].public = None THEN row[c].public ELSE req[c].public
            new == [[playlists[req[c].id] EXCEPT !.name = name] EXCEPT !.public = public]
<1>1. /\ playlists' = [playlists EXCEPT ![req[c].id].name = name, ![req[c].id].public = public]
      /\ entries' = entries
  BY DEF Update, UpdatePlaylist
<1>2. row[c] \in PlaylistRow /\ req[c] \in Asked
  BY DEF Asked
<1>3. name \in {"mix"} \cup {r.name : r \in Asked} /\ public \in {FALSE} \cup {r.public : r \in Asked}
  BY <1>2 DEF PlaylistRow
<1>. HIDE DEF name, public
<1>4. req[c].id \in DOMAIN playlists /\ playlists[req[c].id] \in PlaylistRow
  BY DEF Exists, TablesTyped
<1>5. new \in PlaylistRow /\ new.owner = playlists[req[c].id].owner
  BY <1>3, <1>4 DEF PlaylistRow
<1>6. playlists' = [playlists EXCEPT ![req[c].id] = new]
  BY <1>1, <1>4 DEF TablesTyped
<1>. HIDE DEF new
<1>7. playlists'[req[c].id] = new /\ new # None
  BY <1>4, <1>5, <1>6, PlaylistsAssumption
<1>8. TablesTyped' /\ DOMAIN playlists \subseteq DOMAIN playlists'
  BY <1>1, <1>4, <1>5, <1>6, ReplaceOne DEF TablesTyped
<1>. QED
  BY <1>5, <1>7, <1>8

LEMMA TablesStep ==
  ASSUME Handling, NEW c \in Clients, Handle(c)
  PROVE  TablesTyped' /\ DOMAIN playlists \subseteq DOMAIN playlists'
<1>. USE DEF Goto, Step
<1>0. /\ TablesTyped /\ DOMAIN entries = DOMAIN playlists
      /\ at[c] # "idle" => req[c] \in Requests[c]
      /\ at[c] \in {"replace", "delete", "update"} => req[c].op = at[c]
      /\ at[c] \in {"remove", "shift"} => req[c].op = "update" /\ left[c] \in Seq(Int)
      /\ at[c] = "shift" => left[c] # <<>>
      /\ at[c] \in Working => Target(c) \in DOMAIN playlists
      /\ at[c] = "update" => row[c] \in PlaylistRow
      /\ first[c] \in Nat /\ next[c] \in Nat
  BY DEF Handling, OnRoute, RouteOf, TablesTyped, Typed
<1>1. CASE Create(c)
  <2>1. [owner |-> req[c].user, name |-> req[c].name, public |-> FALSE] \in PlaylistRow
    BY <1>0, <1>1 DEF PlaylistRow, Asked, Create
  <2>2. << >> \in TrackRows
    BY NoRows
  <2>. QED
    BY <1>0, <1>1, <2>1, <2>2 DEF Create, CreatePlaylist, TablesTyped
<1>2. CASE Update(c)
  <2>1. CASE ~Exists(req[c].id)
    BY <1>0, <1>2, <2>1 DEF Update, tableVars, TablesTyped
  <2>2. CASE Exists(req[c].id)
    <3>1. row[c] \in PlaylistRow /\ req[c] \in Requests[c]
      BY <1>0, <1>2 DEF Update
    <3>. QED
      BY <1>0, <1>2, <2>2, <3>1, UpdatedRow
  <2>. QED
    BY <2>1, <2>2
<1>3. CASE Delete(c)
  <2>1. req[c].id \in DOMAIN playlists
    BY <1>0, <1>3 DEF Delete, Working, Target
  <2>2. << >> \in TrackRows /\ None \in PlaylistRow \cup {None}
    BY NoRows
  <2>3. /\ playlists' = [playlists EXCEPT ![req[c].id] = None]
        /\ entries' = [entries EXCEPT ![req[c].id] = << >>]
    BY <1>3 DEF Delete, DeletePlaylist
  <2>. QED
    BY <1>0, <2>1, <2>2, <2>3, ReplaceOne DEF TablesTyped
<1>4. CASE Clear(c)
  BY <1>0, <1>4, NoRows, ReplaceRows DEF Clear, ClearPlaylistTracks, Working, Target
<1>5. CASE RemoveTrack(c)
  <2>. DEFINE p == req[c].id
              rows == Restrict(entries[p], DOMAIN entries[p] \ {Head(left[c])})
  <2>1. p \in DOMAIN entries /\ entries[p] \in TrackRows
    BY <1>0, <1>5 DEF RemoveTrack, Working, Target, TablesTyped
  <2>2. rows \in TrackRows
    BY <2>1, LessRows
  <2>3. entries' = [entries EXCEPT ![p] = rows] /\ playlists' = playlists
    BY <1>5, <2>1 DEF RemoveTrack, RemovePlaylistTrackAtPosition
  <2>. HIDE DEF rows
  <2>. QED
    BY <1>0, <2>1, <2>2, <2>3, ReplaceRows
<1>6. CASE Shift(c)
  <2>. DEFINE p == req[c].id
              rows == Shifted(entries[p], Head(left[c]))
  <2>1. p \in DOMAIN entries /\ entries[p] \in TrackRows /\ Head(left[c]) \in Int
    BY <1>0, <1>6 DEF Shift, Working, Target, TablesTyped
  <2>2. /\ entries' = [entries EXCEPT ![p] = rows] /\ playlists' = playlists
        /\ \A q, r \in DOMAIN entries[p] : Moved(q, Head(left[c])) = Moved(r, Head(left[c])) => q = r
    BY <1>6, <2>1 DEF Shift, ShiftPlaylistTracksAfterPosition, Movable
  <2>3. rows \in TrackRows
    BY <2>1, <2>2, ShiftedRows
  <2>. HIDE DEF rows
  <2>. QED
    BY <1>0, <2>1, <2>2, <2>3, ReplaceRows
<1>7. CASE Add(c)
  <2>. DEFINE p == Target(c)
              song == req[c].songs[next[c]]
              rows == [q \in DOMAIN entries[p] \cup {Position(c)} |->
                         IF q = Position(c) THEN song ELSE entries[p][q]]
  <2>1. p \in DOMAIN entries /\ entries[p] \in TrackRows /\ song \in Songs /\ Position(c) \in Int
    BY <1>0, <1>7 DEF Add, AddPlaylistTrack, Insertable, Working, TablesTyped, Position
  <2>2. rows \in TrackRows
    BY <2>1, MoreRows
  <2>3. entries' = [entries EXCEPT ![p] = rows] /\ playlists' = playlists
    BY <1>7, <2>1 DEF Add, AddPlaylistTrack
  <2>. HIDE DEF rows
  <2>. QED
    BY <1>0, <2>1, <2>2, <2>3, ReplaceRows
<1>8. CASE UNCHANGED tableVars
  BY <1>0, <1>8 DEF tableVars, TablesTyped
<1>9. UNCHANGED tableVars \/ Create(c) \/ Update(c) \/ Delete(c) \/ Clear(c) \/ RemoveTrack(c)
      \/ Shift(c) \/ Add(c)
  BY DEF Handle, Send, Get, Count, AddFails, ShiftFails, Done, List, Show, ShowSong, SkipSong, Shown, Fails
<1>. QED
  BY <1>1, <1>2, <1>3, <1>4, <1>5, <1>6, <1>7, <1>8, <1>9

LEMMA TypedStep ==
  ASSUME Handling, NEW c \in Clients, Handle(c)
  PROVE  Typed'
<1>. USE DEF Goto, Step
<1>0. Typed /\ (at[c] # "idle" => req[c] \in Requests[c]) /\ (at[c] = "get" => req[c].op \in AllLabels)
  <2>1. at[c] = "get" => req[c].op \in AllLabels
    BY PlaylistsAssumption DEF Handling, OnRoute, RouteOf, AllLabels
  <2>. QED
    BY <2>1 DEF Handling, OnRoute, RouteOf
<1>1. at' \in [Clients -> AllLabels]
  <2>1. ASSUME NEW r \in Requests[c], Send(c, r) PROVE at' \in [Clients -> AllLabels]
    <3>1. PICK x \in {"create", "list", "get"} : at' = [at EXCEPT ![c] = x]
      BY <2>1 DEF Send
    <3>. QED
      BY <1>0, <3>1 DEF Typed, AllLabels
  <2>2. CASE Get(c)
    BY <1>0, <2>2 DEF Get, Typed, AllLabels
  <2>3. CASE Update(c)
    BY <1>0, <2>3 DEF Update, Typed, AllLabels
  <2>4. CASE UNCHANGED at \/ \E x \in AllLabels : at' = [at EXCEPT ![c] = x]
    BY <1>0, <2>4 DEF Typed
  <2>5. ~(\E r \in Requests[c] : Send(c, r)) /\ ~Get(c) /\ ~Update(c) =>
          UNCHANGED at \/ \E x \in AllLabels : at' = [at EXCEPT ![c] = x]
    BY DEF Handle, Create, Clear, Delete, RemoveTrack, Shift, Count, Add, AddFails, ShiftFails, Done, List, Show,
           ShowSong, SkipSong, Shown, Fails, AllLabels
  <2>. QED
    BY <2>1, <2>2, <2>3, <2>4, <2>5
<1>2. first' \in [Clients -> Nat]
  <2>1. CASE Count(c)
    <3>1. req[c].id \in DOMAIN entries
      BY <2>1 DEF Count, Handling, OnRoute, RouteOf, Working, Target, TablesTyped
    <3>2. RowsOK(entries[req[c].id])
      BY <3>1, TrackRowsOK DEF Handling, TablesTyped
    <3>3. CountPlaylistTracks(req[c].id) \in Nat
      BY <3>2, SizeIsNat DEF Size, CountPlaylistTracks
    <3>. QED
      BY <1>0, <2>1, <3>3 DEF Count, Typed
  <2>2. UNCHANGED first \/ first' = [first EXCEPT ![c] = 0] \/ Count(c)
    BY DEF Handle, Send, Get, Update, Create, Clear, Delete, RemoveTrack, Shift, Add, AddFails, ShiftFails, Done,
           List, Show, ShowSong, SkipSong, Shown, Fails, handlerVars
  <2>. QED
    BY <1>0, <2>1, <2>2 DEF Typed
<1>3. next' \in [Clients -> Nat \ {0}]
  <2>1. UNCHANGED next \/ next' = [next EXCEPT ![c] = 1] \/ next' = [next EXCEPT ![c] = @ + 1]
    BY DEF Handle, Send, Get, Update, Create, Clear, Delete, RemoveTrack, Shift, Count, Add, AddFails, ShiftFails,
           Done, List, Show, ShowSong, SkipSong, Shown, Fails, handlerVars
  <2>. QED
    BY <1>0, <2>1 DEF Typed
<1>4. alone' \in [Clients -> BOOLEAN] /\ faults' \in Nat
  <2>1. ASSUME NEW r \in Requests[c], Send(c, r) PROVE alone' \in [Clients -> BOOLEAN] /\ faults' \in Nat
    BY <1>0, <2>1 DEF Send, Typed
  <2>2. ~(\E r \in Requests[c] : Send(c, r)) => UNCHANGED alone /\ faults' \in {faults, faults + 1}
    BY DEF Handle, Get, Update, Create, Clear, Delete, RemoveTrack, Shift, Count, Add, AddFails, ShiftFails,
           Done, List, Show, ShowSong, SkipSong, Shown, Fails, history
  <2>. QED
    BY <1>0, <2>1, <2>2 DEF Typed
<1>5. /\ DOMAIN req' = Clients /\ DOMAIN row' = Clients /\ DOMAIN left' = Clients
      /\ DOMAIN shown' = Clients /\ DOMAIN base' = Clients
  BY <1>0 DEF Typed, Handle, Send, Get, Update, Create, Clear, Delete, RemoveTrack, Shift, Count, Add,
      AddFails, ShiftFails, Done, List, Show, ShowSong, SkipSong, Shown, Fails, handlerVars, history
<1>. QED
  BY <1>1, <1>2, <1>3, <1>4, <1>5 DEF Typed

\* What a step of one client leaves as it was of the others.
LEMMA OthersKept ==
  ASSUME Typed, NEW c \in Clients, NEW d \in Clients \ {c}, Handle(c)
  PROVE  /\ at'[d] = at[d] /\ req'[d] = req[d] /\ row'[d] = row[d] /\ left'[d] = left[d]
         /\ next'[d] = next[d] /\ first'[d] = first[d] /\ shown'[d] = shown[d] /\ base'[d] = base[d]
<1>. USE DEF Goto, Step
<1>1. at'[d] = at[d] /\ req'[d] = req[d] /\ row'[d] = row[d] /\ left'[d] = left[d]
  BY DEF Typed, Handle, Send, Get, Update, Create, Clear, Delete, RemoveTrack, Shift, Count, Add,
      AddFails, ShiftFails, Done, List, Show, ShowSong, SkipSong, Shown, Fails, handlerVars, history
<1>2. next'[d] = next[d] /\ first'[d] = first[d] /\ shown'[d] = shown[d] /\ base'[d] = base[d]
  BY DEF Typed, Handle, Send, Get, Update, Create, Clear, Delete, RemoveTrack, Shift, Count, Add,
      AddFails, ShiftFails, Done, List, Show, ShowSong, SkipSong, Shown, Fails, handlerVars, history
<1>. QED
  BY <1>1, <1>2

LEMMA OnRouteStep ==
  ASSUME Handling, NEW c \in Clients, Handle(c)
  PROVE  OnRoute'
<1>. USE DEF Goto, Step
<1>0. Typed /\ TablesTyped /\ TablesTyped' /\ DOMAIN playlists \subseteq DOMAIN playlists' /\ RouteOf(c)
  BY TablesStep DEF Handling, OnRoute
<1>. SUFFICES RouteOf(c)'
  <2>1. ASSUME NEW d \in Clients \ {c} PROVE RouteOf(d)'
    <3>1. RouteOf(d)
      BY DEF Handling, OnRoute
    <3>. QED
      BY <1>0, <3>1, OthersKept DEF RouteOf, Target
  <2>. QED
    BY <2>1 DEF OnRoute
<1>1. ASSUME NEW r \in Requests[c], Send(c, r) PROVE RouteOf(c)'
  BY <1>0, <1>1 DEF Send, RouteOf, Typed, Working
<1>2. CASE Create(c)
  <2>1. Len(playlists) + 1 \in DOMAIN playlists'
    BY <1>0, <1>2 DEF Create, CreatePlaylist, TablesTyped
  <2>. QED
    BY <1>0, <1>2, <2>1 DEF Create, RouteOf, Typed, Working, Target
<1>3. CASE Get(c)
  <2>1. req[c].op \in {"create", "replace", "update", "delete", "show", "list"}
    BY <1>0, <1>3, PlaylistsAssumption DEF RouteOf, Get
  <2>2. ASSUME Exists(req[c].id)
        PROVE  req[c].id \in DOMAIN playlists' /\ playlists[req[c].id] \in PlaylistRow
    <3>1. req[c].id \in DOMAIN playlists /\ playlists[req[c].id] # None
      BY <2>2 DEF Exists
    <3>2. playlists \in Seq(PlaylistRow \cup {None})
      BY <1>0 DEF TablesTyped
    <3>3. playlists[req[c].id] \in PlaylistRow \cup {None}
      BY <3>1, <3>2
    <3>. QED
      BY <1>0, <3>1, <3>3
  <2>. QED
    BY <1>0, <1>3, <2>1, <2>2 DEF Get, RouteOf, Typed, Working, Target
<1>4. CASE Clear(c) \/ Delete(c)
  BY <1>0, <1>4 DEF Clear, Delete, RouteOf, Typed, Working, Target, handlerVars
<1>5. CASE Update(c)
  <2>1. CASE at'[c] = "failed"
    BY <1>0, <1>5, <2>1 DEF Update, RouteOf, Typed, Working
  <2>2. CASE at'[c] # "failed"
    <3>1. Bad \notin Range(req[c].remove) /\ at' = [at EXCEPT ![c] = "remove"]
          /\ left' = [left EXCEPT ![c] = Truncated(Descending(req[c].remove))] /\ at[c] = "update"
          /\ UNCHANGED <<req, row, next, first>>
      BY <1>0, <1>5, <2>2 DEF Update, Typed
    <3>2. req[c].remove \in Seq(Int \cup {Bad})
      BY <1>0, <3>1, PlaylistsAssumption DEF RouteOf
    <3>3. req[c].remove \in Seq(Int)
      BY <3>1, <3>2 DEF Range
    <3>4. Truncated(Descending(req[c].remove)) \in Seq(Int)
      BY <3>3, DescendingOrder, TruncatedOf
    <3>. QED
      BY <1>0, <3>1, <3>4 DEF RouteOf, Typed, Working, Target
  <2>. QED
    BY <2>1, <2>2
<1>6. CASE RemoveTrack(c) \/ Count(c)
  BY <1>0, <1>6 DEF RemoveTrack, Count, RouteOf, Typed, Working, Target, handlerVars
<1>7. CASE Shift(c)
  BY <1>0, <1>7 DEF Shift, RouteOf, Typed, Working, Target
<1>8. CASE Add(c) \/ AddFails(c) \/ ShiftFails(c) \/ Done(c)
  BY <1>0, <1>8 DEF Add, AddFails, ShiftFails, Done, RouteOf, Typed, Working, Target, handlerVars
<1>9. CASE List(c) \/ Show(c) \/ ShowSong(c) \/ SkipSong(c) \/ Shown(c)
  BY <1>0, <1>9 DEF List, Show, ShowSong, SkipSong, Shown, RouteOf, Typed, Working, Target, handlerVars
<1>10. CASE Fails(c)
  BY <1>0, <1>10 DEF Fails, Busy, Answered, RouteOf, Typed, Working, handlerVars
<1>. QED
  BY <1>1, <1>2, <1>3, <1>4, <1>5, <1>6, <1>7, <1>8, <1>9, <1>10 DEF Handle

\* Nobody who is not sending comes to be writing, and alone stays what it is.
LEMMA WritingKept ==
  ASSUME Handling, NEW c \in Clients, Handle(c), ~\E r \in Requests[c] : Send(c, r)
  PROVE  /\ alone' = alone /\ base' = base /\ req' = req
         /\ Busy(c) /\ at'[c] # "idle"
         /\ \A d \in Clients : Writing(d)' => Writing(d)
<1>. USE DEF Goto, Step
<1>1. alone' = alone /\ base' = base /\ req' = req
  BY DEF Handle, Get, Update, Create, Clear, Delete, RemoveTrack, Shift, Count, Add,
      AddFails, ShiftFails, Done, List, Show, ShowSong, SkipSong, Shown, Fails, handlerVars, history
<1>2. at[c] \notin {"idle", "ok", "failed"}
  BY DEF Handle, Get, Update, Create, Clear, Delete, RemoveTrack, Shift, Count, Add,
      AddFails, ShiftFails, Done, List, Show, ShowSong, SkipSong, Shown, Fails, Busy, Answered
<1>3. Busy(c)
  BY <1>2 DEF Busy, Answered
<1>4. at'[c] # "idle"
  <2>1. Typed /\ (at[c] = "get" => req[c].op # "idle")
    BY PlaylistsAssumption DEF Handling, OnRoute, RouteOf
  <2>. QED
    BY <1>2, <2>1 DEF Typed, Handle, Get, Update, Create, Clear, Delete, RemoveTrack, Shift,
      Count, Add, AddFails, ShiftFails, Done, List, Show, ShowSong, SkipSong, Shown, Fails
<1>5. \A d \in Clients : Writing(d)' => Writing(d)
  <2>1. ASSUME NEW d \in Clients \ {c} PROVE at'[d] = at[d]
    BY OthersKept DEF Handling
  <2>. QED
    BY <1>1, <1>3, <2>1 DEF Writing, Busy, Answered
<1>. QED
  BY <1>1, <1>3, <1>4, <1>5

LEMMA AloneStep ==
  ASSUME Handling, NEW c \in Clients, Handle(c)
  PROVE  AloneInv'
<1>1. ASSUME NEW r \in Requests[c], Send(c, r) PROVE AloneInv'
  <2>1. /\ req' = [req EXCEPT ![c] = r] /\ DOMAIN req = Clients /\ ~Busy(c)
        /\ alone' = IF r.op \in Reads THEN [alone EXCEPT ![c] = FALSE]
                    ELSE [d \in Clients |-> d = c /\ \A e \in Clients : ~Writing(e)]
        /\ at'[c] # "idle" /\ \A d \in Clients \ {c} : at'[d] = at[d]
    BY <1>1 DEF Send, Goto, Handling, Typed
  <2>2. AloneInv /\ alone \in [Clients -> BOOLEAN]
    BY DEF Handling, Typed
  <2>3. CASE r.op \in Reads
    BY <2>1, <2>2, <2>3 DEF AloneInv, Writing, Busy, Answered
  <2>4. CASE r.op \notin Reads
    <3>1. ASSUME NEW d \in Clients, alone'[d] PROVE d = c /\ \A e \in Clients : ~Writing(e)
      BY <2>1, <2>4, <3>1
    <3>2. \A e \in Clients \ {c} : Writing(e)' = Writing(e)
      BY <2>1 DEF Writing, Busy, Answered
    <3>3. req'[c] = r
      BY <2>1
    <3>. QED
      BY <2>1, <2>4, <3>1, <3>2, <3>3 DEF AloneInv
  <2>. QED
    BY <2>3, <2>4
<1>2. CASE ~\E r \in Requests[c] : Send(c, r)
  <2>1. ASSUME NEW d \in Clients \ {c} PROVE at'[d] = at[d]
    BY OthersKept DEF Handling
  <2>. QED
    BY <1>2, <2>1, WritingKept DEF Handling, AloneInv
<1>. QED
  BY <1>1, <1>2

LEMMA HandlingNext == Handling /\ [Next]_vars => Handling'
<1>. SUFFICES ASSUME Handling, [Next]_vars PROVE Handling'
  OBVIOUS
<1>1. ASSUME NEW c \in Clients, Handle(c) PROVE Handling'
  BY <1>1, TypedStep, TablesStep, OnRouteStep, AloneStep DEF Handling
<1>2. CASE UNCHANGED vars
  BY <1>2 DEF vars, handlerVars, history, tableVars, Handling, Typed, TablesTyped, OnRoute, RouteOf,
              AloneInv, Target, Writing, Busy, Answered
<1>. QED
  BY <1>1, <1>2 DEF Next

\* Whoever takes a step while a write is alone, leaves that write and the tables to it.
LEMMA Apart ==
  ASSUME Handling, NEW c \in Clients, NEW d \in Clients \ {c}, Handle(d), alone'[c]
  PROVE  alone[c] /\ UNCHANGED tableVars
<1>1. ASSUME NEW r \in Requests[d], Send(d, r) PROVE alone[c] /\ UNCHANGED tableVars
  BY <1>1 DEF Send, Handling, Typed
<1>2. CASE ~\E r \in Requests[d] : Send(d, r)
  <2>1. alone[c] /\ Busy(d)
    BY <1>2, WritingKept
  <2>2. req[d].op \in Reads
    BY <2>1 DEF Handling, AloneInv, Writing
  <2>3. RouteOf(d)
    BY DEF Handling, OnRoute
  <2>4. UNCHANGED tableVars
    BY <1>2, <2>2, <2>3 DEF Handle, Get, Update, Create, Clear, Delete, RemoveTrack, Shift, Count, Add,
      AddFails, ShiftFails, Done, List, Show, ShowSong, SkipSong, Shown, Fails, Step, RouteOf, Reads, tableVars
  <2>. QED
    BY <2>1, <2>4
<1>. QED
  BY <1>1, <1>2

-----------------------------------------------------------------------------
(* What readers are shown.                                                 *)

\* A reader in flight has seen the tables as they are now.
SeenNow ==
  /\ DOMAIN seen = Clients
  /\ \A c \in Clients : Busy(c) => View(req[c]) \subseteq seen[c]

\* What a request has gathered is a list it has seen, without the songs whose
\* lookups failed.
Gathered(c) ==
  /\ at[c] = "song" \/ (at[c] = "ok" /\ req[c].op = "show") =>
       \E list \in seen[c] :
         /\ DOMAIN shown[c] = DOMAIN list
         /\ \A i \in DOMAIN list : shown[c][i] \in {list[i], None}
         /\ faults = 0 => shown[c] = list
  /\ at[c] = "ok" /\ req[c].op = "list" => shown[c] \in seen[c]

ReadsInv == SeenNow /\ \A c \in Clients : Gathered(c)

LEMMA FaultsGrow ==
  ASSUME Handling, NEW c \in Clients, Handle(c)
  PROVE  faults' = 0 => faults = 0
<1>1. faults' = faults \/ faults' = faults + 1
  BY DEF Handle, Send, Get, Update, Create, Clear, Delete, RemoveTrack, Shift, Count, Add,
      AddFails, ShiftFails, Done, List, Show, ShowSong, SkipSong, Shown, Fails
<1>. QED
  BY <1>1 DEF Handling, Typed

LEMMA ReadsNext == Handling /\ ReadsInv /\ [Next]_vars => ReadsInv'
<1>. SUFFICES ASSUME Handling, ReadsInv, [Next]_vars PROVE ReadsInv'
  OBVIOUS
<1>. USE DEF Goto, Step
<1>1. CASE UNCHANGED vars
  BY <1>1 DEF vars, handlerVars, history, tableVars, ReadsInv, SeenNow, Gathered, View, Busy, Answered,
              ListPlaylistsByOwner, Exists, CountPlaylistTracks
<1>2. ASSUME NEW d \in Clients, Handle(d), Observe PROVE ReadsInv'
  <2>1. SeenNow'
    <3>1. DOMAIN seen' = Clients
      BY <1>2 DEF Observe
    <3>2. ASSUME NEW c \in Clients, Busy(c)' PROVE View(req[c])' \subseteq seen'[c]
      <4>1. Busy(c) => req'[c] = req[c]
        <5>1. CASE c # d
          BY <1>2, <5>1, OthersKept DEF Handling
        <5>2. CASE c = d
          BY <1>2, <5>2 DEF Handling, Typed, Handle, Send, Get, Update, Create, Clear, Delete,
             RemoveTrack, Shift, Count, Add, AddFails, ShiftFails, Done, List, Show, ShowSong, SkipSong, Shown, Fails,
             handlerVars
        <5>. QED
          BY <5>1, <5>2
      <4>. DEFINE view == View(req[c])'
      <4>2. seen'[c] = view \/ seen'[c] = seen[c] \cup view
        BY <1>2, <3>2 DEF Observe
      <4>. QED
        BY <4>2
    <3>. QED
      BY <3>1, <3>2 DEF SeenNow
  <2>2. ASSUME NEW c \in Clients
        PROVE  Busy(c) \/ ~Busy(c)' => seen[c] \subseteq seen'[c]
    <3>1. seen'[c] = IF ~Busy(c) /\ Busy(c)' THEN View(req[c])'
                     ELSE IF Busy(c) THEN seen[c] \cup View(req[c])' ELSE seen[c]
      BY <1>2 DEF Observe
    <3>. QED
      BY <3>1
  <2>3. ASSUME NEW c \in Clients \ {d} PROVE Gathered(c)'
    <3>1. at'[c] = at[c] /\ req'[c] = req[c] /\ shown'[c] = shown[c] /\ (faults' = 0 => faults = 0)
      BY <1>2, OthersKept, FaultsGrow DEF Handling
    <3>2. seen[c] \subseteq seen'[c]
      BY <2>2, <3>1 DEF Busy, Answered
    <3>3. Gathered(c)
      BY DEF ReadsInv
    <3>. QED
      BY <3>1, <3>2, <3>3 DEF Gathered
  <2>4. Gathered(d)'
    <3>0. /\ Gathered(d) /\ RouteOf(d) /\ Typed
          /\ at[d] \notin {"idle", "ok", "failed"} => seen[d] \subseteq seen'[d]
      BY <2>2 DEF ReadsInv, Handling, OnRoute, Busy, Answered
    <3>1. CASE List(d)
      <4>1. /\ at[d] = "list" /\ req[d].op = "list" /\ req' = req
            /\ shown'[d] = ListPlaylistsByOwner(req[d].user) /\ at'[d] = "ok"
        BY <3>0, <3>1 DEF List, RouteOf, Typed
      <4>2. shown'[d] \in View(req[d])
        BY <4>1 DEF View
      <4>3. shown'[d] \in seen'[d]
        BY <3>0, <4>1, <4>2 DEF ReadsInv, SeenNow, Busy, Answered
      <4>. QED
        BY <4>1, <4>3 DEF Gathered
    <3>2. CASE Show(d)
      <4>1. /\ at[d] = "show" /\ req[d].op = "show" /\ req' = req /\ Target(d) \in DOMAIN playlists
            /\ shown'[d] = ListPlaylistTracks(entries[req[d].id]) /\ at'[d] = "song"
        BY <3>0, <3>2 DEF Show, RouteOf, Typed, Working
      <4>2. req[d].id \in DOMAIN entries
        BY <4>1 DEF Target, Handling, TablesTyped
      <4>3. shown'[d] \in View(req[d])
        BY <4>1, <4>2 DEF View
      <4>4. shown'[d] \in seen'[d]
        BY <3>0, <4>1, <4>3 DEF ReadsInv, SeenNow, Busy, Answered
      <4>. QED
        BY <4>1, <4>4 DEF Gathered
    <3>3. CASE ShowSong(d) \/ Shown(d)
      BY <3>0, <3>3 DEF ShowSong, Shown, Gathered, RouteOf, Typed, handlerVars
    <3>4. CASE SkipSong(d)
      <4>1. /\ at[d] = "song" /\ req[d].op = "show" /\ at' = at /\ req' = req
            /\ shown'[d] = [shown[d] EXCEPT ![next[d]] = None] /\ faults' = faults + 1
        BY <3>0, <3>4 DEF SkipSong, RouteOf, Typed
      <4>2. faults' # 0
        BY <3>0, <4>1 DEF Typed
      <4>. QED
        BY <3>0, <4>1, <4>2 DEF Gathered
    <3>5. CASE Send(d, req'[d]) \/ Get(d) \/ at'[d] \notin {"song", "ok"}
      <4>1. at'[d] \notin {"song", "ok"}
        <5>1. at[d] = "get" => req[d].op \notin {"song", "ok"}
          BY <3>0, PlaylistsAssumption DEF RouteOf
        <5>. QED
          BY <3>0, <3>5, <5>1 DEF Send, Get, Typed
      <4>. QED
        BY <4>1 DEF Gathered
    <3>6. CASE Delete(d) \/ Done(d)
      BY <3>0, <3>6 DEF Delete, Done, Gathered, RouteOf, Typed, handlerVars
    <3>7. ASSUME NEW r \in Requests[d], Send(d, r) PROVE at'[d] \notin {"song", "ok"}
      BY <3>0, <3>7 DEF Send, Typed
    <3>8. CASE Create(d) \/ Clear(d) \/ Update(d) \/ RemoveTrack(d) \/ Shift(d) \/ Count(d) \/ Add(d)
               \/ AddFails(d) \/ ShiftFails(d) \/ Fails(d)
      <4>1. at'[d] \notin {"song", "ok"}
        BY <3>0, <3>8 DEF Create, Clear, Update, RemoveTrack, Shift, Count, Add, AddFails, ShiftFails, Fails, Typed
      <4>. QED
        BY <4>1 DEF Gathered
    <3>. QED
      BY <1>2, <3>1, <3>2, <3>3, <3>4, <3>5, <3>6, <3>7, <3>8 DEF Handle
  <2>. QED
    BY <2>1, <2>3, <2>4 DEF ReadsInv
<1>. QED
  BY <1>1, <1>2 DEF Next

\* Whoever else is editing, a reader is shown a list its playlist had while the
\* request was in flight, or playlists its user had, with only failed lookups left out.
THEOREM ReadersSeeOneMoment == Spec => []ShownHad
<1>1. Init => Handling /\ ReadsInv
  <2>1. Init => ReadsInv
    BY DEF Init, ReadsInv, SeenNow, Gathered, Busy, Answered
  <2>. QED
    BY <2>1, HandlingInit
<1>2. Handling /\ ReadsInv /\ [Next]_vars => (Handling /\ ReadsInv)'
  BY HandlingNext, ReadsNext
<1>3. Handling /\ ReadsInv => ShownHad
  <2>. SUFFICES ASSUME Handling, ReadsInv, NEW c \in Clients, at[c] = "ok", req[c].op \in Reads
                PROVE  IF faults = 0 \/ req[c].op = "list" THEN shown[c] \in seen[c]
                       ELSE \E list \in seen[c] :
                              /\ DOMAIN shown[c] = DOMAIN list
                              /\ \A i \in DOMAIN list : shown[c][i] \in {list[i], None}
    BY DEF ShownHad
  <2>. QED
    BY DEF ReadsInv, Gathered, Reads
<1>. QED
  BY <1>1, <1>2, <1>3, PTL DEF Spec

-----------------------------------------------------------------------------
(* Rows that follow a sequence, and what the queries make of them.         *)

\* g shows that rows follow t.
Shows(g, rows, t, kept) ==
  /\ g \in [DOMAIN rows -> kept]
  /\ \A p, q \in DOMAIN rows : p < q => g[p] < g[q]
  /\ \A k \in kept : \E p \in DOMAIN rows : g[p] = k
  /\ \A p \in DOMAIN rows : rows[p] = t[g[p]]

LEMMA ShowsFollows ==
  ASSUME NEW rows, NEW t, NEW kept
  PROVE  Follows(rows, t, kept) <=> \E g : Shows(g, rows, t, kept)
BY DEF Follows, Shows

LEMMA ListTyped ==
  ASSUME NEW rows \in TrackRows
  PROVE  /\ ListPlaylistTracks(rows) \in Seq(Songs)
         /\ Len(ListPlaylistTracks(rows)) = Size(rows) /\ Size(rows) \in Nat
<1>1. RowsOK(rows) /\ {rows[pos] : pos \in DOMAIN rows} \subseteq Songs
  BY TrackRowsOK
<1>2. /\ ListPlaylistTracks(rows) \in Seq({rows[pos] : pos \in DOMAIN rows})
      /\ Len(ListPlaylistTracks(rows)) = Size(rows) /\ Size(rows) \in Nat
  BY <1>1, ListPlace
<1>. QED
  BY <1>1, <1>2

\* Rows follow the list that is read from them.
LEMMA FollowsOwn ==
  ASSUME NEW rows \in TrackRows, NEW S, NEW songs \in Seq(S)
  PROVE  /\ Follows(rows, ListPlaylistTracks(rows) \o songs, 1..Size(rows))
         /\ Len(ListPlaylistTracks(rows)) = Size(rows) /\ Size(rows) \in Nat
         /\ ListPlaylistTracks(rows) \in Seq(Songs)
<1>. DEFINE list == ListPlaylistTracks(rows)
            g == [pos \in DOMAIN rows |-> Rank(rows, pos) + 1]
            all == {rows[pos] : pos \in DOMAIN rows}
<1>1. RowsOK(rows) /\ all \subseteq Songs
  BY TrackRowsOK
<1>. HIDE DEF all
<1>2. /\ list \in Seq(all) /\ Len(list) = Size(rows) /\ Size(rows) \in Nat
      /\ \A pos \in DOMAIN rows : /\ Rank(rows, pos) + 1 \in 1..Size(rows)
                                  /\ list[Rank(rows, pos) + 1] = rows[pos]
  BY <1>1, ListPlace DEF all
<1>3. list \in Seq(Songs)
  BY <1>1, <1>2
<1>4. g \in [DOMAIN rows -> 1..Size(rows)]
  BY <1>2
<1>5. \A p, q \in DOMAIN rows : p < q => g[p] < g[q]
  <2>1. ASSUME NEW p \in DOMAIN rows, NEW q \in DOMAIN rows, p < q PROVE g[p] < g[q]
    <3>1. q \in Int
      BY <1>1 DEF RowsOK
    <3>2. Rank(rows, p) < Rank(rows, q)
      BY <1>1, <2>1, <3>1, RankGrows
    <3>3. Rank(rows, p) \in Nat /\ Rank(rows, q) \in Nat
      BY <1>1, RankNat DEF RowsOK
    <3>. QED
      BY <3>2, <3>3
  <2>. QED
    BY <2>1
<1>6. \A k \in 1..Size(rows) : \E p \in DOMAIN rows : g[p] = k
  <2>1. ASSUME NEW k \in 1..Size(rows) PROVE \E p \in DOMAIN rows : g[p] = k
    <3>1. k - 1 \in 0..Size(rows) - 1 /\ (k - 1) + 1 = k
      BY <1>2
    <3>2. \E p \in DOMAIN rows : Rank(rows, p) = k - 1
      BY <1>1, <3>1, RankReached
    <3>. QED
      BY <3>1, <3>2
  <2>. QED
    BY <2>1
<1>7. \A p \in DOMAIN rows : rows[p] = (list \o songs)[g[p]]
  <2>. HIDE DEF list
  <2>. QED
    BY <1>2, <1>3
<1>. QED
  BY <1>2, <1>3, <1>4, <1>5, <1>6, <1>7 DEF Follows

LEMMA FollowsNone ==
  ASSUME NEW t
  PROVE  Follows(<< >>, t, {})
<1>1. DOMAIN << >> = {}
  BY NoRows
<1>2. Shows(<< >>, << >>, t, {})
  BY <1>1 DEF Shows
<1>. QED
  BY <1>2, ShowsFollows

\* A row less.
LEMMA FollowsLess ==
  ASSUME NEW rows \in TrackRows, NEW S, NEW t, NEW kept \in SUBSET Int, Follows(rows, t, kept)
  PROVE  \E fewer \in SUBSET kept : Follows(Restrict(rows, DOMAIN rows \ S), t, fewer)
<1>. DEFINE less == Restrict(rows, DOMAIN rows \ S)
<1>1. PICK g : Shows(g, rows, t, kept)
  BY ShowsFollows
<1>2. DOMAIN less = DOMAIN rows \ S /\ \A pos \in DOMAIN rows \ S : less[pos] = rows[pos]
  BY LessRows
<1>. HIDE DEF less
<1>. DEFINE fewer == {g[p] : p \in DOMAIN rows \ S}
            h == [p \in DOMAIN less |-> g[p]]
<1>3. Shows(h, less, t, fewer) /\ fewer \subseteq kept
  BY <1>1, <1>2 DEF Shows
<1>. QED
  BY <1>3, ShowsFollows DEF less

\* The rows behind pos shifted.
LEMMA FollowsShifted ==
  ASSUME NEW rows \in TrackRows, NEW pos \in Int, NEW t, NEW kept \in SUBSET Int,
         \A q, r \in DOMAIN rows : Moved(q, pos) = Moved(r, pos) => q = r,
         NEW g, Shows(g, rows, t, kept)
  PROVE  \E h : /\ Shows(h, Shifted(rows, pos), t, kept)
                /\ \A q \in DOMAIN rows : h[Moved(q, pos)] = g[q]
<1>. DEFINE back(m) == CHOOSE q \in DOMAIN rows : Moved(q, pos) = m
            h == [m \in DOMAIN Shifted(rows, pos) |-> g[back(m)]]
<1>1. /\ DOMAIN Shifted(rows, pos) = {Moved(q, pos) : q \in DOMAIN rows}
      /\ \A q \in DOMAIN rows : Shifted(rows, pos)[Moved(q, pos)] = rows[q]
  BY ShiftedRows
<1>2. \A q \in DOMAIN rows : back(Moved(q, pos)) = q
  OBVIOUS
<1>. HIDE DEF back
<1>3. \A q \in DOMAIN rows : h[Moved(q, pos)] = g[q]
  BY <1>1, <1>2
<1>4. h \in [DOMAIN Shifted(rows, pos) -> kept]
  BY <1>1, <1>2 DEF Shows
<1>. HIDE DEF h
<1>5. \A q, r \in DOMAIN rows : Moved(q, pos) < Moved(r, pos) => q < r
  BY TrackRowsOK DEF RowsOK, Moved
<1>6. \A m, n \in DOMAIN Shifted(rows, pos) : m < n => h[m] < h[n]
  BY <1>1, <1>3, <1>5 DEF Shows
<1>7. \A k \in kept : \E m \in DOMAIN Shifted(rows, pos) : h[m] = k
  BY <1>1, <1>3 DEF Shows
<1>8. \A m \in DOMAIN Shifted(rows, pos) : Shifted(rows, pos)[m] = t[h[m]]
  BY <1>1, <1>3 DEF Shows
<1>. QED
  BY <1>3, <1>4, <1>6, <1>7, <1>8 DEF Shows

\* A row more, behind all the others.
LEMMA FollowsMore ==
  ASSUME NEW rows \in TrackRows, NEW t, NEW kept \in SUBSET Int, Follows(rows, t, kept),
         NEW pos \in Int, \A q \in DOMAIN rows : q < pos, NEW k \in Int, \A j \in kept : j < k,
         NEW more, DOMAIN more = DOMAIN rows \cup {pos}, more[pos] = t[k],
         \A q \in DOMAIN rows : more[q] = rows[q]
  PROVE  Follows(more, t, kept \cup {k})
<1>1. PICK g : Shows(g, rows, t, kept)
  BY ShowsFollows
<1>. DEFINE h == [q \in DOMAIN rows \cup {pos} |-> IF q = pos THEN k ELSE g[q]]
<1>2. DOMAIN rows \subseteq Int /\ pos \notin DOMAIN rows
  BY TrackRowsOK DEF RowsOK
<1>3. h \in [DOMAIN more -> kept \cup {k}]
  BY <1>1 DEF Shows
<1>4. \A p, q \in DOMAIN more : p < q => h[p] < h[q]
  <2>1. \A p \in DOMAIN rows : h[p] = g[p] /\ g[p] \in kept /\ p < pos /\ p \in Int
    BY <1>1, <1>2 DEF Shows
  <2>2. h[pos] = k
    OBVIOUS
  <2>3. \A p, q \in DOMAIN rows : p < q => g[p] < g[q]
    BY <1>1 DEF Shows
  <2>. HIDE DEF h
  <2>4. ASSUME NEW p \in DOMAIN more, NEW q \in DOMAIN more, p < q PROVE h[p] < h[q]
    <3>1. p # pos
      BY <2>1, <2>2, <2>4
    <3>2. CASE q = pos
      BY <2>1, <2>2, <3>1, <3>2
    <3>3. CASE q # pos
      BY <2>1, <2>2, <2>3, <2>4, <3>1, <3>3
    <3>. QED
      BY <3>2, <3>3
  <2>. QED
    BY <2>4
<1>5. \A j \in kept \cup {k} : \E p \in DOMAIN more : h[p] = j
  <2>1. h[pos] = k /\ pos \in DOMAIN more
    OBVIOUS
  <2>2. \A p \in DOMAIN rows : h[p] = g[p] /\ p \in DOMAIN more
    BY <1>2
  <2>. HIDE DEF h
  <2>3. \A j \in kept : \E p \in DOMAIN rows : g[p] = j
    BY <1>1 DEF Shows
  <2>. QED
    BY <2>1, <2>2, <2>3
<1>6. \A p \in DOMAIN more : more[p] = t[h[p]]
  BY <1>1, <1>2 DEF Shows
<1>7. Shows(h, more, t, kept \cup {k})
  BY <1>3, <1>4, <1>5, <1>6 DEF Shows
<1>. QED
  BY <1>7, ShowsFollows

\* With one hole, or none, no row is further back than there are rows.
LEMMA HolesBound ==
  ASSUME NEW rows \in TrackRows, Cardinality(Holes(rows)) <= 1, NEW pos \in DOMAIN rows
  PROVE  pos <= Size(rows)
<1>1. IsFiniteSet(DOMAIN rows) /\ DOMAIN rows \subseteq Int /\ pos \in Int /\ Size(rows) \in Nat
  BY TrackRowsOK, SizeIsNat DEF RowsOK
<1>. SUFFICES ASSUME pos >= 0 PROVE pos <= Size(rows)
  BY <1>1
<1>. DEFINE upTo == {0..q : q \in DOMAIN rows}
            missing == (0..pos) \ DOMAIN rows
<1>2. IsFiniteSet(upTo)
  <2>. DEFINE f == [q \in DOMAIN rows |-> 0..q]
  <2>1. f \in Surjection(DOMAIN rows, upTo)
    BY DEF Surjection
  <2>. HIDE DEF f, upTo
  <2>. QED
    BY <1>1, <2>1, FS_Surjection
<1>3. \A interval \in upTo : IsFiniteSet(interval)
  <2>1. ASSUME NEW q \in DOMAIN rows PROVE IsFiniteSet(0..q)
    <3>1. q \in Int /\ 0 \in Int
      BY <1>1
    <3>. QED
      BY <3>1, FS_Interval, Zenon
  <2>. QED
    BY <2>1
<1>4. Holes(rows) = (UNION upTo) \ DOMAIN rows
  BY Zenon DEF Holes
<1>44. missing \subseteq Holes(rows)
  <2>1. 0..pos \in upTo
    OBVIOUS
  <2>. HIDE DEF upTo
  <2>. QED
    BY <1>4, <2>1
<1>. HIDE DEF upTo, missing
<1>5. IsFiniteSet(UNION upTo)
  BY <1>2, <1>3, FS_UNION
<1>6. IsFiniteSet(Holes(rows))
  <2>1. IsFiniteSet((UNION upTo) \ DOMAIN rows)
    BY <1>5, FS_Difference, Zenon
  <2>. QED
    BY <1>4, <2>1
<1>7. Cardinality(missing) <= Cardinality(Holes(rows)) /\ Cardinality(Holes(rows)) \in Nat
      /\ IsFiniteSet(missing) /\ Cardinality(missing) \in Nat
  BY <1>44, <1>6, FS_Subset, FS_CardinalityType
<1>8. IsFiniteSet(0..pos) /\ Cardinality(0..pos) = pos + 1
  <2>1. pos + 1 \in Nat /\ (pos + 1) - 1 = pos
    BY <1>1
  <2>. QED
    BY <2>1, Counts
<1>9. Cardinality(missing) = Cardinality(0..pos) - Cardinality((0..pos) \cap DOMAIN rows)
  BY <1>8, FS_Difference DEF missing
<1>10. Cardinality((0..pos) \cap DOMAIN rows) <= Size(rows)
       /\ Cardinality((0..pos) \cap DOMAIN rows) \in Nat
  <2>1. (0..pos) \cap DOMAIN rows \subseteq DOMAIN rows
    OBVIOUS
  <2>. QED
    BY <1>1, <2>1, FS_Subset, FS_CardinalityType DEF Size
<1>. QED
  BY <1>1, <1>7, <1>8, <1>9, <1>10

-----------------------------------------------------------------------------
(* What is left of a list, whatever fails.                                 *)

Old(c) == ListPlaylistTracks(base[c].rows)
Now(c) == entries[req[c].id]

\* The rows are the first k of the songs.
Leading(rows, songs, k) ==
  DOMAIN rows = 0..k - 1 /\ \A q \in 0..k - 1 : rows[q] = songs[q + 1]

ReplaceOrder(c) ==
  /\ at[c] \in {"get", "replace"} => Now(c) = base[c].rows
  /\ at[c] = "add" => Leading(Now(c), req[c].songs, next[c] - 1)
  /\ at[c] \in {"ok", "failed"} =>
       \/ Now(c) = base[c].rows
       \/ \E k \in 0..Len(req[c].songs) : Leading(Now(c), req[c].songs, k)

\* Songs are in the order of the old list and the new songs, and no row is so far
\* back that one that is added could come before it.
EditOrder(c) ==
  /\ \E kept \in SUBSET (1..Len(Old(c)) + next[c] - 1) : Follows(Now(c), Old(c) \o req[c].songs, kept)
  /\ at[c] \in {"get", "update", "remove"} => \A q \in DOMAIN Now(c) : q <= Size(Now(c))
  /\ at[c] = "shift" =>
       \A q \in DOMAIN Now(c) : q # Head(left[c]) /\ Moved(q, Head(left[c])) <= Size(Now(c))
  /\ at[c] = "add" => \A q \in DOMAIN Now(c) : q <= Position(c) /\ (next[c] > 1 => q < Position(c))

OrderOf(c) ==
  alone[c] /\ base[c].owner # None /\ Cardinality(Holes(base[c].rows)) <= 1 =>
    /\ base[c].rows \in TrackRows
    /\ req[c].id \in DOMAIN entries
    /\ req[c].op \in {"update", "delete", "replace"}
    /\ next[c] <= Len(req[c].songs) + 1
    /\ req[c].op = "replace" => ReplaceOrder(c)
    /\ req[c].op # "replace" => EditOrder(c)

LEMMA SongsTyped ==
  ASSUME Handling, NEW c \in Clients, at[c] # "idle"
  PROVE  req[c].songs \in Seq(Songs \cup {Bad}) /\ Len(req[c].songs) \in Nat
BY PlaylistsAssumption DEF Handling, OnRoute, RouteOf

LEMMA OrderSend ==
  ASSUME Handling, NEW c \in Clients, NEW r \in Requests[c], Send(c, r)
  PROVE  OrderOf(c)'
<1>. SUFFICES ASSUME alone'[c], base'[c].owner # None, Cardinality(Holes(base'[c].rows)) <= 1
              PROVE  /\ base'[c].rows \in TrackRows
                     /\ req'[c].id \in DOMAIN entries'
                     /\ req'[c].op \in {"update", "delete", "replace"}
                     /\ next'[c] <= Len(req'[c].songs) + 1
                     /\ req'[c].op = "replace" => ReplaceOrder(c)'
                     /\ req'[c].op # "replace" => EditOrder(c)'
  BY DEF OrderOf
<1>1. /\ req'[c] = r /\ next'[c] = 1 /\ entries' = entries /\ playlists' = playlists
      /\ base'[c] = Found(r) /\ at'[c] = IF r.op \in {"create", "list"} THEN r.op ELSE "get"
      /\ r.op \notin Reads
  BY DEF Send, Goto, Handling, Typed, tableVars
<1>2. /\ r.op \notin {"create", "list"} /\ Exists(r.id)
      /\ base'[c].rows = entries[r.id] /\ base'[c].owner = playlists[r.id].owner
  BY <1>1 DEF Found, Nothing
<1>3. r.op \in {"create", "replace", "update", "delete", "show", "list"} /\ r.songs \in Seq(Songs \cup {Bad})
      /\ Len(r.songs) \in Nat
  BY PlaylistsAssumption
<1>4. r.id \in DOMAIN entries /\ entries[r.id] \in TrackRows
  BY <1>2 DEF Exists, Handling, TablesTyped
<1>. DEFINE rows == entries[r.id]
<1>5. /\ Follows(rows, ListPlaylistTracks(rows) \o r.songs, 1..Size(rows))
      /\ Len(ListPlaylistTracks(rows)) = Size(rows) /\ Size(rows) \in Nat
  BY <1>3, <1>4, FollowsOwn
<1>6. \A q \in DOMAIN rows : q <= Size(rows)
  BY <1>2, <1>4, HolesBound
<1>. HIDE DEF rows
<1>7. Size(rows) + 1 - 1 = Size(rows)
  BY <1>5
<1>8. Now(c)' = rows /\ Old(c)' = ListPlaylistTracks(rows)
  BY <1>1, <1>2 DEF Now, Old, rows
<1>9. EditOrder(c)'
  BY <1>1, <1>2, <1>5, <1>6, <1>7, <1>8 DEF EditOrder
<1>10. ReplaceOrder(c)'
  BY <1>1, <1>2, <1>8 DEF ReplaceOrder, rows
<1>. QED
  BY <1>1, <1>2, <1>3, <1>4, <1>9, <1>10 DEF Reads

LEMMA OrderOthers ==
  ASSUME Handling, NEW c \in Clients, NEW d \in Clients \ {c}, Handle(d), OrderOf(c)
  PROVE  OrderOf(c)'
<1>. SUFFICES ASSUME alone'[c] PROVE OrderOf(c)'
  BY DEF OrderOf
<1>1. /\ alone[c] /\ entries' = entries /\ playlists' = playlists
      /\ at'[c] = at[c] /\ req'[c] = req[c] /\ row'[c] = row[c] /\ left'[c] = left[c]
      /\ next'[c] = next[c] /\ first'[c] = first[c] /\ base'[c] = base[c]
  BY Apart, OthersKept DEF Handling, tableVars
<1>2. Now(c)' = Now(c) /\ Old(c)' = Old(c) /\ Position(c)' = Position(c)
  BY <1>1 DEF Now, Old, Position
<1>3. EditOrder(c)' = EditOrder(c) /\ ReplaceOrder(c)' = ReplaceOrder(c)
  BY <1>1, <1>2 DEF EditOrder, ReplaceOrder
<1>. QED
  BY <1>1, <1>3 DEF OrderOf

LEMMA AfterAll ==
  ASSUME NEW S, NEW T, NEW s \in Seq(S), NEW t \in Seq(T), NEW i \in 1..Len(t)
  PROVE  (s \o t)[Len(s) + i] = t[i]
OBVIOUS

\* The queries of an update or a delete of c, on the rows it works on.
LEMMA EditOwn ==
  ASSUME Handling, NEW c \in Clients, Handle(c), ~\E r \in Requests[c] : Send(c, r),
         EditOrder(c), base[c].rows \in TrackRows, req[c].id \in DOMAIN entries,
         req[c].op \in {"update", "delete"}, next[c] <= Len(req[c].songs) + 1
  PROVE  EditOrder(c)' /\ next'[c] <= Len(req[c].songs) + 1
<1>. USE DEF Goto, Step
<1>. DEFINE songs == req[c].songs
            bound == Len(Old(c)) + next[c] - 1
<1>0. /\ Typed /\ TablesTyped /\ RouteOf(c)
      /\ req' = req /\ base' = base /\ at[c] # "idle"
      /\ songs \in Seq(Songs \cup {Bad}) /\ Len(songs) \in Nat
      /\ Now(c) \in TrackRows /\ Old(c)' = Old(c) /\ Target(c) = req[c].id
  <2>1. req' = req /\ base' = base /\ Busy(c)
    BY WritingKept
  <2>2. at[c] # "idle"
    BY <2>1 DEF Busy
  <2>3. Now(c) \in TrackRows
    BY DEF Now, Handling, TablesTyped
  <2>4. Target(c) = req[c].id
    BY DEF Target
  <2>. QED
    BY <2>1, <2>2, <2>3, <2>4, SongsTyped DEF Handling, OnRoute, Old
<1>00. /\ RowsOK(Now(c)) /\ Size(Now(c)) \in Nat /\ DOMAIN Now(c) \subseteq Int
       /\ next[c] \in Nat \ {0} /\ first[c] \in Nat
       /\ Old(c) \in Seq(Songs) /\ Len(Old(c)) \in Nat
  <2>1. RowsOK(Now(c)) /\ Size(Now(c)) \in Nat /\ DOMAIN Now(c) \subseteq Int
    BY <1>0, TrackRowsOK, SizeIsNat DEF RowsOK
  <2>2. Old(c) \in Seq(Songs)
    BY ListTyped DEF Old
  <2>. QED
    BY <1>0, <2>1, <2>2 DEF Typed
<1>1. PICK kept \in SUBSET (1..bound) : Follows(Now(c), Old(c) \o songs, kept)
  BY DEF EditOrder
<1>2. bound \in Int /\ kept \subseteq Int /\ \A k \in kept : k <= bound
  BY <1>00, <1>1
<1>3. CASE Get(c) \/ Update(c) \/ Count(c) \/ AddFails(c) \/ ShiftFails(c) \/ Done(c) \/ Fails(c)
  <2>1. entries' = entries /\ next' = next
    BY <1>3 DEF Get, Update, UpdatePlaylist, Count, AddFails, ShiftFails, Done, Fails, handlerVars, tableVars
  <2>2. Now(c)' = Now(c)
    BY <1>0, <2>1 DEF Now
  <2>3. at'[c] \in {"get", "update", "remove"} => \A q \in DOMAIN Now(c) : q <= Size(Now(c))
    BY <1>0, <1>3 DEF Get, Update, Count, AddFails, ShiftFails, Done, Fails, Typed, RouteOf, EditOrder
  <2>4. at'[c] # "shift"
    BY <1>0, <1>3 DEF Get, Update, Count, AddFails, ShiftFails, Done, Fails, Typed, RouteOf
  <2>5. at'[c] = "add" => \A q \in DOMAIN Now(c) : q <= Position(c)' /\ (next[c] > 1 => q < Position(c)')
    <3>1. CASE Count(c)
      <4>1. /\ at[c] = "remove" /\ next[c] = 1 /\ first'[c] = Size(Now(c))
            /\ \A q \in DOMAIN Now(c) : q <= Size(Now(c))
        BY <1>0, <3>1 DEF Count, CountPlaylistTracks, Now, Size, Typed, RouteOf, EditOrder
      <4>2. Position(c)' = Size(Now(c))
        BY <1>00, <2>1, <4>1 DEF Position
      <4>. QED
        BY <4>1, <4>2
    <3>2. CASE ~Count(c)
      BY <1>0, <1>3, <3>2 DEF Get, Update, AddFails, ShiftFails, Done, Fails, Typed, RouteOf
    <3>. QED
      BY <3>1, <3>2
  <2>. HIDE DEF bound
  <2>6. \E k \in SUBSET (1..Len(Old(c)) + next[c] - 1) : Follows(Now(c), Old(c) \o req[c].songs, k)
    BY <1>1 DEF bound
  <2>. QED
    BY <1>0, <2>1, <2>2, <2>3, <2>4, <2>5, <2>6 DEF EditOrder
<1>4. CASE Delete(c)
  <2>1. at'[c] = "ok" /\ Now(c)' = << >> /\ next' = next
    BY <1>0, <1>4 DEF Delete, DeletePlaylist, Now, Typed, handlerVars, TablesTyped
  <2>2. Follows(<< >>, Old(c) \o songs, {}) /\ {} \in SUBSET (1..bound)
    BY FollowsNone
  <2>. HIDE DEF bound
  <2>. QED
    BY <1>0, <2>1, <2>2 DEF EditOrder, bound
<1>5. CASE RemoveTrack(c)
  <2>. DEFINE d == Head(left[c])
              rows == Restrict(Now(c), DOMAIN Now(c) \ {d})
  <2>1. /\ at[c] = "remove" /\ at'[c] = "shift" /\ Now(c)' = rows /\ next' = next /\ left' = left
        /\ d \in Int
    BY <1>0, <1>5 DEF RemoveTrack, RemovePlaylistTrackAtPosition, Now, Typed, RouteOf, TablesTyped,
                      handlerVars
  <2>2. /\ rows \in TrackRows /\ DOMAIN rows = DOMAIN Now(c) \ {d}
    BY <1>0, LessRows
  <2>3. PICK fewer \in SUBSET kept : Follows(rows, Old(c) \o songs, fewer)
    BY <1>0, <1>1, <1>2, FollowsLess
  <2>4. ASSUME NEW q \in DOMAIN rows PROVE q # d /\ Moved(q, d) <= Size(rows)
    <3>1. q \in DOMAIN Now(c) /\ q # d /\ q <= Size(Now(c)) /\ q \in Int
      BY <1>00, <2>1, <2>2 DEF EditOrder
    <3>2. Size(rows) = IF d \in DOMAIN Now(c) THEN Size(Now(c)) - 1 ELSE Size(Now(c))
      <4>1. IsFiniteSet(DOMAIN Now(c))
        BY <1>00 DEF RowsOK
      <4>. HIDE DEF rows, d
      <4>. QED
        BY <2>2, <4>1, FS_RemoveElement DEF Size
    <3>3. d \in DOMAIN Now(c) => d <= Size(Now(c))
      BY <1>00, <2>1 DEF EditOrder
    <3>. HIDE DEF rows, d
    <3>. QED
      BY <1>00, <2>1, <3>1, <3>2, <3>3 DEF Moved
  <2>. HIDE DEF rows, bound
  <2>5. fewer \in SUBSET (1..bound)
    BY <1>1, <2>3
  <2>. QED
    BY <1>0, <2>1, <2>3, <2>4, <2>5 DEF EditOrder, bound
<1>6. CASE Shift(c)
  <2>. DEFINE d == Head(left[c])
              rows == Shifted(Now(c), d)
  <2>1. /\ at[c] = "shift" /\ at'[c] = "remove" /\ Now(c)' = rows /\ next' = next
        /\ d \in Int
        /\ \A q, r \in DOMAIN Now(c) : Moved(q, d) = Moved(r, d) => q = r
    BY <1>0, <1>6 DEF Shift, ShiftPlaylistTracksAfterPosition, Movable, Now, Typed, RouteOf,
                      TablesTyped
  <2>2. PICK g : Shows(g, Now(c), Old(c) \o songs, kept)
    BY <1>1, ShowsFollows
  <2>3. \E h : Shows(h, rows, Old(c) \o songs, kept)
    BY <1>0, <1>2, <2>1, <2>2, FollowsShifted
  <2>4. Follows(rows, Old(c) \o songs, kept)
    BY <2>3, ShowsFollows
  <2>5. DOMAIN rows = {Moved(q, d) : q \in DOMAIN Now(c)} /\ Size(rows) = Size(Now(c))
    BY <1>0, <2>1, ShiftedRows
  <2>6. \A q \in DOMAIN rows : q <= Size(rows)
    BY <2>1, <2>5 DEF EditOrder
  <2>. HIDE DEF rows, bound
  <2>. QED
    BY <1>0, <1>1, <2>1, <2>4, <2>6 DEF EditOrder, bound
<1>7. CASE Add(c)
  <2>. DEFINE pos == Position(c)
              song == songs[next[c]]
              rows == [q \in DOMAIN Now(c) \cup {pos} |-> IF q = pos THEN song ELSE Now(c)[q]]
  <2>1. /\ at[c] = "add" /\ next[c] <= Len(songs) /\ song \in Songs /\ pos \notin DOMAIN Now(c)
        /\ Now(c)' = rows /\ next'[c] = next[c] + 1 /\ UNCHANGED <<at, first>>
    BY <1>0, <1>7 DEF Add, AddPlaylistTrack, Insertable, Now, Typed, TablesTyped
  <2>2. pos \in Int /\ Position(c)' = pos + 1
    <3>1. first'[c] = first[c] /\ next'[c] = next[c] + 1
      BY <2>1
    <3>2. next[c] \in Nat /\ first[c] \in Nat
      BY <1>00
    <3>3. pos = first[c] + next[c] - 1 /\ Position(c)' = first'[c] + next'[c] - 1
      BY DEF Position
    <3>. HIDE DEF pos, rows, song, songs, bound
    <3>. QED
      BY ONLY <3>1, <3>2, <3>3
  <2>3. \A q \in DOMAIN Now(c) : q < pos
    BY <1>00, <2>1, <2>2 DEF EditOrder
  <2>4. bound + 1 \in Int /\ \A k \in kept : k < bound + 1
    <3>1. bound \in Int /\ kept \in SUBSET (1..bound)
      BY <1>1, <1>2
    <3>. HIDE DEF bound, rows, song, pos, songs
    <3>. QED
      BY ONLY <3>1
  <2>5. (Old(c) \o songs)[bound + 1] = song
    <3>1. next[c] \in 1..Len(songs) /\ bound + 1 = Len(Old(c)) + next[c]
      BY <1>0, <1>00, <2>1
    <3>. HIDE DEF songs, bound
    <3>2. (Old(c) \o songs)[Len(Old(c)) + next[c]] = songs[next[c]]
      BY <1>0, <1>00, <3>1, AfterAll
    <3>. QED
      BY <3>1, <3>2
  <2>. HIDE DEF rows, song, bound, pos
  <2>6. Follows(rows, Old(c) \o songs, kept \cup {bound + 1})
    <3>1. /\ DOMAIN rows = DOMAIN Now(c) \cup {pos} /\ rows[pos] = (Old(c) \o songs)[bound + 1]
          /\ \A q \in DOMAIN Now(c) : rows[q] = Now(c)[q]
      BY <2>1, <2>5 DEF rows
    <3>. QED
      BY <1>0, <1>1, <1>2, <2>2, <2>3, <2>4, <3>1, FollowsMore
  <2>7. kept \cup {bound + 1} \in SUBSET (1..bound + 1) /\ bound + 1 = Len(Old(c)) + (next[c] + 1) - 1
    <3>1. bound \in Nat /\ bound + 1 = Len(Old(c)) + (next[c] + 1) - 1
      BY <1>00 DEF bound
    <3>2. kept \in SUBSET (1..bound)
      BY <1>1
    <3>3. kept \cup {bound + 1} \in SUBSET (1..bound + 1)
      <4>1. bound \in Nat
        BY <3>1
      <4>. HIDE DEF bound
      <4>2. \A k \in kept : k \in 1..bound + 1
        BY ONLY <3>2, <4>1
      <4>3. bound + 1 \in 1..bound + 1
        BY ONLY <4>1
      <4>. QED
        BY ONLY <4>2, <4>3
    <3>. QED
      BY <3>1, <3>3
  <2>8. \A q \in DOMAIN rows : q < pos + 1
    <3>1. DOMAIN rows = DOMAIN Now(c) \cup {pos}
      BY DEF rows
    <3>. QED
      BY <1>00, <2>2, <2>3, <3>1
  <2>9. \E k \in SUBSET (1..Len(Old(c)) + next'[c] - 1) : Follows(rows, Old(c) \o songs, k)
    BY <2>1, <2>6, <2>7
  <2>10. \A q \in DOMAIN rows : q <= pos + 1
    BY <1>00, <2>2, <2>3 DEF rows
  <2>11. next'[c] <= Len(songs) + 1
    BY <1>0, <1>00, <2>1
  <2>. QED
    BY <1>0, <2>1, <2>2, <2>8, <2>9, <2>10, <2>11 DEF EditOrder
<1>8. \/ Get(c) \/ Update(c) \/ Count(c) \/ AddFails(c) \/ ShiftFails(c) \/ Done(c) \/ Fails(c)
      \/ Delete(c) \/ RemoveTrack(c) \/ Shift(c) \/ Add(c)
  BY <1>0 DEF Handle, Create, Clear, List, Show, ShowSong, SkipSong, Shown, RouteOf
<1>9. next' = next => next'[c] <= Len(req[c].songs) + 1
  OBVIOUS
<1>10. ~Add(c) => next' = next
  BY <1>8 DEF Get, Update, Count, AddFails, ShiftFails, Done, Fails, Delete, RemoveTrack, Shift, handlerVars
<1>. QED
  BY <1>3, <1>4, <1>5, <1>6, <1>7, <1>8, <1>9, <1>10

\* A song more.
LEMMA LeadingMore ==
  ASSUME NEW rows, NEW songs, NEW n \in Nat \ {0}, Leading(rows, songs, n - 1), NEW more,
         DOMAIN more = DOMAIN rows \cup {n - 1}, more[n - 1] = songs[n],
         \A q \in DOMAIN rows : q # n - 1 => more[q] = rows[q]
  PROVE  Leading(more, songs, n)
<1>1. DOMAIN rows = 0..(n - 1) - 1 /\ \A q \in 0..(n - 1) - 1 : rows[q] = songs[q + 1]
  BY DEF Leading
<1>2. DOMAIN more = 0..n - 1
  BY <1>1
<1>3. ASSUME NEW q \in 0..n - 1 PROVE more[q] = songs[q + 1]
  <2>1. CASE q = n - 1
    <3>1. q + 1 = n
      BY <2>1
    <3>. QED
      BY <2>1, <3>1
  <2>2. CASE q # n - 1
    <3>1. q \in 0..(n - 1) - 1
      BY <2>2
    <3>. QED
      BY <1>1, <2>2, <3>1
  <2>. QED
    BY <2>1, <2>2
<1>. QED
  BY <1>2, <1>3 DEF Leading

\* The queries of a replace of c.
LEMMA ReplaceOwn ==
  ASSUME Handling, NEW c \in Clients, Handle(c), ~\E r \in Requests[c] : Send(c, r),
         ReplaceOrder(c), req[c].id \in DOMAIN entries,
         req[c].op = "replace", next[c] <= Len(req[c].songs) + 1
  PROVE  ReplaceOrder(c)' /\ next'[c] <= Len(req[c].songs) + 1
<1>. USE DEF Goto, Step
<1>. DEFINE songs == req[c].songs
<1>0. /\ Typed /\ TablesTyped /\ RouteOf(c)
      /\ req' = req /\ base' = base /\ at[c] # "idle"
      /\ songs \in Seq(Songs \cup {Bad}) /\ Len(songs) \in Nat
      /\ Target(c) = req[c].id
  <2>1. req' = req /\ base' = base /\ Busy(c)
    BY WritingKept
  <2>2. at[c] # "idle"
    BY <2>1 DEF Busy
  <2>3. Target(c) = req[c].id
    BY DEF Target
  <2>. QED
    BY <2>1, <2>2, <2>3, SongsTyped DEF Handling, OnRoute
<1>00. next[c] \in Nat \ {0} /\ first[c] \in Nat
  BY <1>0 DEF Typed
<1>1. CASE Clear(c)
  <2>1. /\ at[c] = "replace" /\ at'[c] = "add" /\ Now(c)' = << >> /\ next'[c] = 1
    BY <1>0, <1>1 DEF Clear, ClearPlaylistTracks, Now, Typed, RouteOf, handlerVars, TablesTyped
  <2>2. Leading(<< >>, songs, 1 - 1)
    BY NoRows DEF Leading
  <2>. QED
    BY <1>0, <2>1, <2>2 DEF ReplaceOrder
<1>2. CASE Add(c)
  <2>1. /\ at[c] = "add" /\ at'[c] = "add" /\ next[c] <= Len(songs) /\ next'[c] = next[c] + 1
        /\ Position(c) \notin DOMAIN Now(c)
        /\ Now(c)' = [q \in DOMAIN Now(c) \cup {Position(c)} |->
                        IF q = Position(c) THEN songs[next[c]] ELSE Now(c)[q]]
    BY <1>0, <1>2 DEF Add, AddPlaylistTrack, Insertable, Now, Typed, TablesTyped
  <2>2. Position(c) = next[c] - 1 /\ Leading(Now(c), songs, next[c] - 1)
    BY <1>0, <1>00, <2>1 DEF Position, RouteOf, ReplaceOrder
  <2>3. Leading(Now(c)', songs, (next[c] + 1) - 1)
    <3>. DEFINE rows == Now(c)
                more == Now(c)'
                n == next[c]
    <3>1. /\ n \in Nat \ {0} /\ Leading(rows, songs, n - 1)
          /\ DOMAIN more = DOMAIN rows \cup {n - 1} /\ more[n - 1] = songs[n]
          /\ \A q \in DOMAIN rows : q # n - 1 => more[q] = rows[q]
      BY <1>00, <2>1, <2>2
    <3>2. Leading(Now(c)', songs, next[c])
      BY <3>1, LeadingMore
    <3>3. (next[c] + 1) - 1 = next[c]
      BY <1>00
    <3>. QED
      BY <3>2, <3>3
  <2>. QED
    BY <1>0, <1>00, <2>1, <2>3 DEF ReplaceOrder
<1>3. CASE Get(c) \/ AddFails(c) \/ Done(c) \/ Fails(c)
  <2>1. entries' = entries /\ next' = next
    BY <1>3 DEF Get, AddFails, Done, Fails, handlerVars, tableVars
  <2>2. Now(c)' = Now(c)
    BY <1>0, <2>1 DEF Now
  <2>3. CASE Get(c) \/ (Fails(c) /\ at[c] # "add")
    <3>1. at[c] \in {"get", "replace"} /\ at'[c] \in {"replace", "failed"}
      BY <1>0, <2>3 DEF Get, Fails, Busy, Answered, Typed, RouteOf, AllLabels
    <3>. QED
      BY <1>0, <2>1, <2>2, <3>1 DEF ReplaceOrder
  <2>4. CASE AddFails(c) \/ Done(c) \/ (Fails(c) /\ at[c] = "add")
    <3>1. at[c] = "add" /\ at'[c] \in {"ok", "failed"}
      BY <1>0, <2>4 DEF AddFails, ShiftFails, Done, Fails, Typed
    <3>2. next[c] - 1 \in 0..Len(songs)
      BY <1>0, <1>00
    <3>3. Leading(Now(c), songs, next[c] - 1)
      BY <3>1 DEF ReplaceOrder
    <3>4. \E k \in 0..Len(req'[c].songs) : Leading(Now(c)', req'[c].songs, k)
      BY <1>0, <2>2, <3>2, <3>3
    <3>5. at'[c] \notin {"get", "replace", "add"}
      BY <3>1
    <3>. QED
      BY <2>1, <3>4, <3>5 DEF ReplaceOrder
  <2>. QED
    BY <1>3, <2>3, <2>4
<1>4. Clear(c) \/ Add(c) \/ Get(c) \/ AddFails(c) \/ Done(c) \/ Fails(c)
  BY <1>0 DEF Handle, Create, Update, Count, Delete, RemoveTrack, Shift, ShiftFails, List, Show,
              ShowSong, SkipSong, Shown, RouteOf
<1>5. next' = next \/ (next'[c] = next[c] + 1 /\ next[c] <= Len(songs))
  BY <1>0, <1>4 DEF Clear, Add, Get, AddFails, ShiftFails, Done, Fails, handlerVars, Typed
<1>6. next'[c] <= Len(songs) + 1
  BY <1>0, <1>00, <1>5
<1>. QED
  BY <1>1, <1>2, <1>3, <1>4, <1>6

LEMMA OrderOwn ==
  ASSUME Handling, NEW c \in Clients, Handle(c), OrderOf(c)
  PROVE  OrderOf(c)'
<1>1. CASE \E r \in Requests[c] : Send(c, r)
  BY <1>1, OrderSend
<1>2. CASE ~\E r \in Requests[c] : Send(c, r)
  <2>1. alone' = alone /\ base' = base /\ req' = req
    BY <1>2, WritingKept
  <2>2. DOMAIN entries \subseteq DOMAIN entries'
    <3>1. TablesTyped /\ TablesTyped' /\ DOMAIN playlists \subseteq DOMAIN playlists'
      BY TablesStep DEF Handling
    <3>2. DOMAIN entries = DOMAIN playlists /\ DOMAIN entries' = DOMAIN playlists'
      BY <3>1 DEF TablesTyped
    <3>. QED
      BY <3>1, <3>2
  <2>. SUFFICES ASSUME alone[c], base[c].owner # None, Cardinality(Holes(base[c].rows)) <= 1
                PROVE  /\ next'[c] <= Len(req[c].songs) + 1
                       /\ req[c].op = "replace" => ReplaceOrder(c)'
                       /\ req[c].op # "replace" => EditOrder(c)'
    BY <2>1, <2>2 DEF OrderOf
  <2>. QED
    BY <1>2, EditOwn, ReplaceOwn DEF OrderOf
<1>. QED
  BY <1>1, <1>2

OrderInv == \A c \in Clients : OrderOf(c)

LEMMA OrderNext == Handling /\ OrderInv /\ [Next]_vars => OrderInv'
<1>. SUFFICES ASSUME Handling, OrderInv, [Next]_vars, NEW c \in Clients PROVE OrderOf(c)'
  BY DEF OrderInv
<1>1. ASSUME NEW d \in Clients, Handle(d) PROVE OrderOf(c)'
  BY <1>1, OrderOwn, OrderOthers DEF OrderInv
<1>2. CASE UNCHANGED vars
  <2>1. OrderOf(c)
    BY DEF OrderInv
  <2>2. /\ Now(c)' = Now(c) /\ Old(c)' = Old(c) /\ Position(c)' = Position(c)
        /\ UNCHANGED <<at, req, left, next, base, alone, entries>>
    BY <1>2 DEF vars, handlerVars, history, tableVars, Now, Old, Position
  <2>. QED
    BY <2>1, <2>2 DEF OrderOf, EditOrder, ReplaceOrder
<1>. QED
  BY <1>1, <1>2 DEF Next

\* Rows without a hole are read in their places.
LEMMA GaplessList ==
  ASSUME NEW rows \in TrackRows, NEW n \in Nat, DOMAIN rows = 0..n - 1
  PROVE  /\ Size(rows) = n
         /\ ListPlaylistTracks(rows) \in Seq(Songs)
         /\ Len(ListPlaylistTracks(rows)) = n
         /\ \A i \in 1..n : ListPlaylistTracks(rows)[i] = rows[i - 1]
<1>. DEFINE list == ListPlaylistTracks(rows)
<1>1. RowsOK(rows) /\ Size(rows) = n
  BY TrackRowsOK, Counts DEF Size
<1>2. list \in Seq(Songs) /\ Len(list) = n
  BY <1>1, ListTyped
<1>3. ASSUME NEW i \in 1..n PROVE list[i] = rows[i - 1]
  <2>1. i - 1 \in DOMAIN rows /\ i - 1 \in Nat /\ (i - 1) + 1 = i
    OBVIOUS
  <2>2. {q \in DOMAIN rows : q < i - 1} = 0..(i - 1) - 1
    OBVIOUS
  <2>3. Rank(rows, i - 1) = i - 1
    <3>1. Cardinality(0..(i - 1) - 1) = i - 1
      BY <2>1, Counts
    <3>. QED
      BY <2>2, <3>1 DEF Rank
  <2>4. list[Rank(rows, i - 1) + 1] = rows[i - 1]
    BY <1>1, <2>1, ListPlace
  <2>. QED
    BY <2>1, <2>3, <2>4
<1>. QED
  BY <1>1, <1>2, <1>3

LEMMA LeadingList ==
  ASSUME NEW rows \in TrackRows, NEW S, NEW songs \in Seq(S), NEW k \in 0..Len(songs),
         Leading(rows, songs, k)
  PROVE  IsPrefix(ListPlaylistTracks(rows), songs)
<1>. DEFINE list == ListPlaylistTracks(rows)
<1>1. k \in Nat /\ DOMAIN rows = 0..k - 1 /\ \A q \in 0..k - 1 : rows[q] = songs[q + 1]
  BY DEF Leading
<1>2. list \in Seq(Songs) /\ Len(list) = k /\ \A i \in 1..k : list[i] = rows[i - 1]
  BY <1>1, GaplessList
<1>. HIDE DEF list
<1>3. \A i \in 1..k : list[i] = songs[i]
  BY <1>1, <1>2
<1>4. SubSeq(list, 1, k) = SubSeq(songs, 1, k)
  BY <1>1, <1>2, <1>3
<1>. QED
  BY <1>2, <1>4 DEF IsPrefix, list

\* Whatever fails, and however far a request has come, what its playlist shows is in
\* the order of the old list and the new songs, and never a mixture after a replace.
THEOREM EditsKeepOrder == Spec => []InOrder
<1>1. Init => Handling /\ OrderInv
  <2>1. Init => OrderInv
    BY DEF Init, OrderInv, OrderOf
  <2>. QED
    BY <2>1, HandlingInit
<1>2. Handling /\ OrderInv /\ [Next]_vars => (Handling /\ OrderInv)'
  BY HandlingNext, OrderNext
<1>3. Handling /\ OrderInv => InOrder
  <2>. SUFFICES ASSUME Handling, OrderInv, NEW c \in Clients,
                       alone[c], base[c].owner # None, Cardinality(Holes(base[c].rows)) <= 1
                PROVE  IF req[c].op = "replace"
                       THEN ListPlaylistTracks(Now(c)) = Old(c)
                            \/ IsPrefix(ListPlaylistTracks(Now(c)), req[c].songs)
                       ELSE IsSubsequence(ListPlaylistTracks(Now(c)), Old(c) \o req[c].songs)
    BY DEF InOrder, Now, Old
  <2>1. /\ base[c].rows \in TrackRows /\ req[c].id \in DOMAIN entries
        /\ req[c].op \in {"update", "delete", "replace"}
        /\ next[c] <= Len(req[c].songs) + 1 /\ next[c] \in Nat \ {0}
        /\ req[c].op = "replace" => ReplaceOrder(c)
        /\ req[c].op # "replace" => EditOrder(c)
    BY DEF OrderInv, OrderOf, Handling, Typed
  <2>2. at[c] # "idle" /\ at[c] \in AllLabels /\ RouteOf(c)
    BY DEF Handling, AloneInv, Typed, OnRoute
  <2>3. req[c].songs \in Seq(Songs \cup {Bad}) /\ Len(req[c].songs) \in Nat
    BY <2>2, SongsTyped
  <2>4. Now(c) \in TrackRows
    BY <2>1 DEF Now, Handling, TablesTyped
  <2>5. CASE req[c].op = "replace"
    <3>1. Now(c) = base[c].rows \/ \E k \in 0..Len(req[c].songs) : Leading(Now(c), req[c].songs, k)
      <4>1. CASE at[c] \in {"get", "replace", "ok", "failed"}
        BY <2>1, <2>5, <4>1 DEF ReplaceOrder
      <4>2. CASE at[c] = "add"
        <5>1. next[c] - 1 \in 0..Len(req[c].songs)
          BY <2>1, <2>3
        <5>. QED
          BY <2>1, <2>5, <4>2, <5>1 DEF ReplaceOrder
      <4>3. at[c] \in {"get", "replace", "ok", "failed", "add"}
        BY <2>2, <2>5 DEF RouteOf, AllLabels
      <4>. QED
        BY <4>1, <4>2, <4>3
    <3>2. ListPlaylistTracks(Now(c)) = Old(c) \/ IsPrefix(ListPlaylistTracks(Now(c)), req[c].songs)
      BY <2>3, <2>4, <3>1, LeadingList DEF Old
    <3>. QED
      BY <2>5, <3>2
  <2>6. CASE req[c].op # "replace"
    <3>. DEFINE t == Old(c) \o req[c].songs
    <3>1. PICK kept \in SUBSET (1..Len(Old(c)) + next[c] - 1) : Follows(Now(c), t, kept)
      BY <2>1, <2>6 DEF EditOrder
    <3>2. Old(c) \in Seq(Songs) /\ Len(Old(c)) \in Nat
      BY <2>1, ListTyped DEF Old
    <3>3. DOMAIN t = 1..Len(Old(c)) + Len(req[c].songs)
      BY <2>3, <3>2
    <3>4. kept \subseteq DOMAIN t /\ kept \subseteq Int
      BY <2>1, <2>3, <3>1, <3>2, <3>3
    <3>. HIDE DEF t
    <3>5. RowsOK(Now(c))
      BY <2>4, TrackRowsOK
    <3>6. /\ Cardinality(kept) = Size(Now(c))
          /\ ListPlaylistTracks(Now(c)) = ListPlaylistTracks(Restrict(t, kept))
      BY <3>1, <3>4, <3>5, FollowsList
    <3>7. Len(ListPlaylistTracks(Now(c))) = Size(Now(c))
      BY <3>5, ListPlace
    <3>8. IsSubsequence(ListPlaylistTracks(Now(c)), t)
      BY <3>4, <3>6, <3>7 DEF IsSubsequence
    <3>. QED
      BY <2>6, <3>8 DEF t
  <2>. QED
    BY <2>5, <2>6
<1>. QED
  BY <1>1, <1>2, <1>3, PTL DEF Spec

-----------------------------------------------------------------------------
(* A request that nobody comes in between of does what it was asked to do. *)

GaplessRows(rows) == \E n \in Nat : DOMAIN rows = 0..n - 1

\* The same as Playlists has it, for rows that there are.
LEMMA GaplessCount ==
  ASSUME NEW rows, RowsOK(rows), WithoutHole(rows)
  PROVE  GaplessRows(rows)
BY SizeIsNat DEF Size, WithoutHole, GaplessRows

\* The rows a request works on.
Rows_(c) == entries[Target(c)]

\* Which songs of the old list are still there: not those at the indices removed
\* so far.  Those in front of an index still to remove are where they were.
Removed(c) ==
  Range(req[c].remove) \ (IF at[c] = "shift" THEN Range(Tail(left[c])) ELSE Range(left[c]))

Left(c) == {i \in 1..Len(Old(c)) : i - 1 \notin Removed(c)}

Removing(c) ==
  /\ left[c] \in Seq(Nat)
  /\ Range(left[c]) \subseteq Range(req[c].remove)
  /\ \A i, j \in DOMAIN left[c] : i < j => left[c][i] > left[c][j]
  /\ \E m \in Nat : DOMAIN Now(c) = (0..m - 1) \ (IF at[c] = "shift" THEN {Head(left[c])} ELSE {})
  /\ \E g : /\ Shows(g, Now(c), Old(c), Left(c))
            /\ \A q \in DOMAIN Now(c) : \A x \in Range(left[c]) : q <= x => g[q] = q + 1

\* The rows are the first of the list that was asked for.
Adding(c) ==
  /\ Promised(c) \in Seq(Songs \cup {Bad})
  /\ first[c] + Len(req[c].songs) = Len(Promised(c))
  /\ next[c] <= Len(req[c].songs) + 1
  /\ \A i \in 1..Len(req[c].songs) : Promised(c)[first[c] + i] = req[c].songs[i]
  /\ Leading(Rows_(c), Promised(c), first[c] + next[c] - 1)

Handled(c) ==
  /\ at[c] \in {"create", "get", "replace", "update", "delete", "remove", "shift", "add", "ok"}
  /\ at[c] \notin {"create", "ok"} =>
       Exists(Target(c)) /\ playlists[Target(c)].owner = req[c].user
  /\ at[c] \in {"get", "replace", "update", "delete"} => Now(c) = base[c].rows
  /\ at[c] \in {"remove", "shift"} => Removing(c)
  /\ at[c] = "add" => Adding(c)
  /\ at[c] = "ok" => ListPlaylistTracks(Rows_(c)) = Promised(c)

Refused(c) ==
  /\ at[c] \in {"get", "failed"}
  /\ Exists(req[c].id) => playlists[req[c].id].owner = base[c].owner
  /\ base[c].owner # None => entries[req[c].id] = base[c].rows

AppliedSoFar(c) ==
  alone[c] /\ faults = 0 /\ GaplessRows(base[c].rows) =>
    /\ req[c].op # "create" => base[c].rows \in TrackRows
    /\ Proper(c) => Handled(c)
    /\ req[c].op # "create" /\ base[c].owner # req[c].user => Refused(c)

LEMMA AppliedSend ==
  ASSUME Handling, NEW c \in Clients, NEW r \in Requests[c], Send(c, r)
  PROVE  AppliedSoFar(c)'
<1>. SUFFICES ASSUME alone'[c]
              PROVE  /\ req'[c].op # "create" => base'[c].rows \in TrackRows
                     /\ Proper(c)' => Handled(c)'
                     /\ req'[c].op # "create" /\ base'[c].owner # req'[c].user => Refused(c)'
  BY DEF AppliedSoFar
<1>1. /\ req'[c] = r /\ next'[c] = 1 /\ entries' = entries /\ playlists' = playlists
      /\ base'[c] = Found(r) /\ at'[c] = IF r.op \in {"create", "list"} THEN r.op ELSE "get"
      /\ r.op \notin Reads
  BY DEF Send, Goto, Handling, Typed, tableVars
<1>2. r.op \in {"create", "replace", "update", "delete"} /\ r.user # None
  BY <1>1, PlaylistsAssumption DEF Reads
<1>3. CASE r.op = "create"
  BY <1>1, <1>3 DEF Handled
<1>4. CASE r.op # "create"
  <2>1. /\ at'[c] = "get"
        /\ Exists(r.id) => /\ base'[c].rows = entries[r.id] /\ base'[c].owner = playlists[r.id].owner
                           /\ r.id \in DOMAIN entries
        /\ ~Exists(r.id) => base'[c].rows = << >> /\ base'[c].owner = None
    BY <1>1, <1>2, <1>4 DEF Found, Nothing, Exists, Handling, TablesTyped
  <2>2. base'[c].rows \in TrackRows
    BY <2>1, NoRows DEF Handling, TablesTyped
  <2>3. Target(c)' = r.id /\ Now(c)' = entries[r.id]
    BY <1>1, <1>4 DEF Target, Now
  <2>4. ASSUME Proper(c)' PROVE Handled(c)'
    <3>1. base'[c].owner = r.user
      BY <1>1, <1>4, <2>4 DEF Proper
    <3>2. Exists(r.id)
      BY <1>2, <2>1, <3>1
    <3>. QED
      BY <1>1, <2>1, <2>3, <3>1, <3>2 DEF Handled, Exists
  <2>5. Refused(c)'
    BY <1>1, <2>1 DEF Refused, Exists
  <2>. QED
    BY <1>1, <2>2, <2>4, <2>5
<1>. QED
  BY <1>3, <1>4, <1>1

LEMMA AppliedOthers ==
  ASSUME Handling, NEW c \in Clients, NEW d \in Clients \ {c}, Handle(d), AppliedSoFar(c)
  PROVE  AppliedSoFar(c)'
<1>. SUFFICES ASSUME alone'[c], faults' = 0 PROVE AppliedSoFar(c)'
  BY DEF AppliedSoFar
<1>1. /\ alone[c] /\ faults = 0 /\ entries' = entries /\ playlists' = playlists
      /\ at'[c] = at[c] /\ req'[c] = req[c] /\ row'[c] = row[c] /\ left'[c] = left[c]
      /\ next'[c] = next[c] /\ first'[c] = first[c] /\ base'[c] = base[c]
  BY Apart, OthersKept, FaultsGrow DEF Handling, tableVars
<1>2. /\ Now(c)' = Now(c) /\ Old(c)' = Old(c) /\ Target(c)' = Target(c) /\ Rows_(c)' = Rows_(c)
      /\ Proper(c)' = Proper(c) /\ Promised(c)' = Promised(c)
  BY <1>1 DEF Now, Old, Target, Rows_, Proper, Promised, Edited
<1>3. Left(c)' = Left(c)
  BY <1>1, <1>2 DEF Left, Removed
<1>4. Removing(c)' = Removing(c) /\ Adding(c)' = Adding(c)
  BY <1>1, <1>2, <1>3 DEF Removing, Adding
<1>5. Handled(c)' = Handled(c) /\ Refused(c)' = Refused(c)
  BY <1>1, <1>2, <1>4 DEF Handled, Refused, Exists
<1>. QED
  BY <1>1, <1>2, <1>5 DEF AppliedSoFar

LEMMA RefusedOwn ==
  ASSUME Handling, NEW c \in Clients, Handle(c), ~\E r \in Requests[c] : Send(c, r), faults' = 0,
         req[c].op \notin Reads \cup {"create"}, base[c].owner # req[c].user, Refused(c)
  PROVE  Refused(c)'
<1>. USE DEF Goto, Step
<1>1. alone' = alone /\ base' = base /\ req' = req /\ Busy(c)
  BY WritingKept
<1>2. at[c] = "get"
  BY <1>1 DEF Refused, Busy, Answered
<1>3. faults \in Nat /\ Typed
  BY DEF Handling, Typed
<1>4. ~Fails(c)
  BY <1>3 DEF Fails
<1>5. Get(c)
  BY <1>2, <1>4 DEF Handle, Create, Get, Clear, Delete, Update, RemoveTrack, Shift, Count, Add, AddFails, ShiftFails,
     Done, List, Show, ShowSong, SkipSong, Shown
<1>6. /\ at'[c] = "failed" /\ UNCHANGED <<playlists, entries>>
  BY <1>3, <1>5 DEF Get, Refused, Reads, Typed, tableVars
<1>. QED
  BY <1>1, <1>6 DEF Refused, Exists

\* What is common to the steps of a request that is alone.
Steady(c) ==
  /\ Handling /\ c \in Clients /\ Proper(c)
  /\ Handled(c) /\ GaplessRows(base[c].rows) /\ (req[c].op # "create" => base[c].rows \in TrackRows)
  /\ req' = req /\ base' = base /\ at[c] # "idle" /\ req[c] \in Requests[c] /\ RouteOf(c)
  /\ req[c].songs \in Seq(Songs \cup {Bad}) /\ Len(req[c].songs) \in Nat
  /\ req[c].op \in {"create", "replace", "update", "delete"}

LEMMA CreateOwn ==
  ASSUME NEW c, Steady(c), Create(c)
  PROVE  Handled(c)'
<1>. USE DEF Goto, Step
<1>0. Typed /\ TablesTyped /\ c \in Clients
  BY DEF Steady, Handling
<1>1. /\ at[c] = "create" /\ at'[c] = "add" /\ req' = req /\ base' = base /\ req[c].op = "create"
      /\ next'[c] = 1 /\ first'[c] = 0
      /\ Target(c)' = Len(playlists) + 1
      /\ playlists' = Append(playlists, [owner |-> req[c].user, name |-> req[c].name, public |-> FALSE])
      /\ entries' = Append(entries, << >>)
  BY <1>0 DEF Create, CreatePlaylist, Steady, RouteOf, Target, Typed
<1>. DEFINE new == [owner |-> req[c].user, name |-> req[c].name, public |-> FALSE]
<1>2. new \in PlaylistRow /\ new # None
  <2>1. new \in PlaylistRow
    BY DEF Steady, Asked, PlaylistRow
  <2>. HIDE DEF new
  <2>. QED
    BY <2>1, PlaylistsAssumption
<1>3. new.owner = req[c].user
  OBVIOUS
<1>. HIDE DEF new
<1>4. playlists'[Len(playlists) + 1] = new /\ Len(playlists) + 1 \in DOMAIN playlists'
  BY <1>0, <1>1 DEF TablesTyped, new
<1>5. Exists(Target(c))' /\ playlists'[Target(c)'].owner = req'[c].user
  BY <1>1, <1>2, <1>3, <1>4 DEF Exists
<1>6. Rows_(c)' = << >>
  BY <1>0, <1>1 DEF Rows_, TablesTyped
<1>7. Promised(c)' = req[c].songs
  BY <1>1 DEF Promised
<1>8. Leading(<< >>, req[c].songs, 0 + 1 - 1)
  BY NoRows DEF Leading
<1>9. Adding(c)'
  BY <1>1, <1>6, <1>7, <1>8 DEF Adding, Steady
<1>. QED
  BY <1>1, <1>5, <1>9 DEF Handled

LEMMA ClearOwn ==
  ASSUME NEW c, Steady(c), Clear(c)
  PROVE  Handled(c)'
<1>. USE DEF Goto, Step
<1>0. Typed /\ TablesTyped /\ c \in Clients
  BY DEF Steady, Handling
<1>1. /\ at[c] = "replace" /\ at'[c] = "add" /\ req' = req /\ base' = base /\ req[c].op = "replace"
      /\ next'[c] = 1 /\ first'[c] = 0 /\ playlists' = playlists
      /\ Target(c) = req[c].id /\ Target(c)' = Target(c) /\ Target(c) \in DOMAIN entries
      /\ entries' = [entries EXCEPT ![req[c].id] = << >>]
  BY <1>0 DEF Clear, ClearPlaylistTracks, Steady, RouteOf, Target, Typed, TablesTyped, handlerVars, Working
<1>2. Exists(Target(c))' /\ playlists'[Target(c)'].owner = req'[c].user
  BY <1>1 DEF Exists, Steady, Handled
<1>3. Rows_(c)' = << >>
  BY <1>1 DEF Rows_
<1>4. Promised(c)' = req[c].songs
  BY <1>1 DEF Promised
<1>5. Leading(<< >>, req[c].songs, 0 + 1 - 1)
  BY NoRows DEF Leading
<1>6. Adding(c)'
  BY <1>1, <1>3, <1>4, <1>5 DEF Adding, Steady
<1>. QED
  BY <1>1, <1>2, <1>6 DEF Handled

LEMMA DeleteOwn ==
  ASSUME NEW c, Steady(c), Delete(c)
  PROVE  Handled(c)'
<1>. USE DEF Goto, Step
<1>0. Typed /\ TablesTyped /\ c \in Clients
  BY DEF Steady, Handling
<1>1. /\ at[c] = "delete" /\ at'[c] = "ok" /\ req' = req /\ req[c].op = "delete"
      /\ Target(c) = req[c].id /\ Target(c)' = Target(c) /\ Target(c) \in DOMAIN entries
      /\ entries' = [entries EXCEPT ![req[c].id] = << >>]
  BY <1>0 DEF Delete, DeletePlaylist, Steady, RouteOf, Target, Typed, TablesTyped, handlerVars, Working
<1>2. Rows_(c)' = << >> /\ Promised(c)' = << >>
  BY <1>1 DEF Rows_, Promised
<1>3. ListPlaylistTracks(<< >>) = << >>
  <2>1. << >> \in TrackRows /\ DOMAIN << >> = 0..0 - 1
    BY NoRows
  <2>2. ListPlaylistTracks(<< >>) \in Seq(Songs) /\ Len(ListPlaylistTracks(<< >>)) = 0
    BY <2>1, GaplessList
  <2>. QED
    BY <2>2
<1>. QED
  BY <1>1, <1>2, <1>3 DEF Handled

LEMMA GetOwn ==
  ASSUME NEW c, Steady(c), Get(c)
  PROVE  Handled(c)'
<1>. USE DEF Goto, Step
<1>0. Typed /\ TablesTyped /\ c \in Clients
  BY DEF Steady, Handling
<1>1. /\ at[c] = "get" /\ req' = req /\ base' = base /\ req[c].op # "create"
      /\ Target(c) = req[c].id /\ Target(c)' = Target(c)
      /\ UNCHANGED <<playlists, entries>>
  BY <1>0 DEF Get, Steady, RouteOf, Target, tableVars
<1>2. Exists(req[c].id) /\ playlists[req[c].id].owner = req[c].user /\ Now(c) = base[c].rows
  BY <1>1 DEF Steady, Handled
<1>3. at'[c] = req[c].op
  BY <1>0, <1>1, <1>2 DEF Get, Typed
<1>4. Exists(Target(c))' /\ playlists'[Target(c)'].owner = req'[c].user
  BY <1>1, <1>2 DEF Exists
<1>5. Now(c)' = base'[c].rows /\ req[c].op \in {"replace", "update", "delete"}
  BY <1>1, <1>2 DEF Now, Steady
<1>. QED
  BY <1>3, <1>4, <1>5 DEF Handled

\* The list of a base without holes.
LEMMA BaseList ==
  ASSUME NEW c, Steady(c), req[c].op # "create"
  PROVE  \E n \in Nat : /\ DOMAIN base[c].rows = 0..n - 1
                        /\ Len(Old(c)) = n /\ Old(c) \in Seq(Songs)
                        /\ \A q \in 0..n - 1 : base[c].rows[q] = Old(c)[q + 1]
<1>1. PICK n \in Nat : DOMAIN base[c].rows = 0..n - 1
  BY DEF Steady, GaplessRows
<1>2. base[c].rows \in TrackRows
  BY DEF Steady
<1>3. /\ Old(c) \in Seq(Songs) /\ Len(Old(c)) = n
      /\ \A i \in 1..n : Old(c)[i] = base[c].rows[i - 1]
  BY <1>1, <1>2, GaplessList DEF Old
<1>4. \A q \in 0..n - 1 : base[c].rows[q] = Old(c)[q + 1]
  BY <1>3
<1>. QED
  BY <1>1, <1>3, <1>4

LEMMA UpdateOwn ==
  ASSUME NEW c, Steady(c), Update(c)
  PROVE  Handled(c)'
<1>. USE DEF Goto, Step
<1>0. Typed /\ TablesTyped /\ c \in Clients
  BY DEF Steady, Handling
<1>1. /\ at[c] = "update" /\ req' = req /\ base' = base /\ req[c].op = "update"
      /\ Target(c) = req[c].id /\ Target(c)' = Target(c)
      /\ row[c] \in PlaylistRow /\ req[c] \in Requests[c]
      /\ Exists(req[c].id) /\ playlists[req[c].id].owner = req[c].user
      /\ Now(c) = base[c].rows
  BY <1>0 DEF Update, Steady, RouteOf, Target, Handled
<1>2. /\ req[c].remove \in Seq(Nat) /\ IsInjective(req[c].remove)
      /\ Range(req[c].remove) \subseteq 0..Width - 1
  <2>1. req[c].remove \in Seq(Int \cup {Bad})
    BY <1>0, <1>1, PlaylistsAssumption
  <2>2. /\ Bad \notin Range(req[c].remove) /\ \A i \in DOMAIN req[c].remove : req[c].remove[i] \in 0..Width - 1
        /\ IsInjective(req[c].remove)
    BY DEF Steady, Proper
  <2>3. \A i \in DOMAIN req[c].remove : req[c].remove[i] \in Nat
    BY <2>1, <2>2 DEF Range
  <2>4. Range(req[c].remove) \subseteq 0..Width - 1
    BY <2>2 DEF Range
  <2>. QED
    BY <2>1, <2>2, <2>3, <2>4
<1>3. /\ at'[c] = "remove" /\ left'[c] = Descending(req[c].remove) /\ entries' = entries
  <2>1. /\ at'[c] = "remove" /\ left'[c] = Truncated(Descending(req[c].remove)) /\ entries' = entries
    BY <1>0, <1>1 DEF Update, UpdatePlaylist, Typed, Steady, Proper
  <2>. DEFINE s == req[c].remove
  <2>2. s \in Seq(Int) /\ Range(s) \subseteq 0..Width - 1
    BY <1>2
  <2>. HIDE DEF s
  <2>3. Descending(s) \in Seq(Int) /\ Range(Descending(s)) = Range(s)
    BY ONLY <2>2, DescendingOrder
  <2>4. \A i \in DOMAIN Descending(s) : Descending(s)[i] \in 0..Width - 1
    BY <2>2, <2>3 DEF Range
  <2>5. Truncated(Descending(s)) = Descending(s)
    BY <2>3, <2>4, TruncatedOf
  <2>. QED
    BY <2>1, <2>5 DEF s
<1>4. Exists(Target(c))' /\ playlists'[Target(c)'].owner = req'[c].user
  <2>1. /\ DOMAIN playlists \subseteq DOMAIN playlists' /\ playlists'[req[c].id] # None
        /\ playlists'[req[c].id].owner = playlists[req[c].id].owner
    BY <1>0, <1>1, UpdatedRow
  <2>. QED
    BY <1>1, <2>1 DEF Exists
<1>5. PICK n \in Nat : /\ DOMAIN base[c].rows = 0..n - 1
                       /\ Len(Old(c)) = n /\ Old(c) \in Seq(Songs)
                       /\ \A q \in 0..n - 1 : base[c].rows[q] = Old(c)[q + 1]
  BY <1>1, BaseList
<1>6. /\ Descending(req[c].remove) \in Seq(Nat)
      /\ Range(Descending(req[c].remove)) = Range(req[c].remove)
      /\ \A i, j \in DOMAIN Descending(req[c].remove) :
           i < j => Descending(req[c].remove)[i] > Descending(req[c].remove)[j]
  <2>. DEFINE s == req[c].remove
  <2>1. s \in Seq(Int) /\ IsInjective(s)
    BY <1>2
  <2>. HIDE DEF s
  <2>2. /\ Descending(s) \in Seq(Int)
        /\ Range(Descending(s)) = Range(s)
        /\ \A i, j \in DOMAIN Descending(s) : i < j => Descending(s)[i] > Descending(s)[j]
    BY ONLY <2>1, DescendingOrder
  <2>3. \A i \in DOMAIN Descending(s) : Descending(s)[i] \in Nat
    <3>1. Range(s) \subseteq Nat
      BY <1>2 DEF Range, s
    <3>2. \A i \in DOMAIN Descending(s) : Descending(s)[i] \in Range(Descending(s))
      BY DEF Range
    <3>. QED
      BY <2>2, <3>1, <3>2
  <2>. QED
    BY <2>2, <2>3 DEF s
<1>7. Now(c)' = base[c].rows /\ Old(c)' = Old(c)
  BY <1>1, <1>3 DEF Now, Old
<1>8. Left(c)' = 1..n
  <2>1. Removed(c)' = {}
    BY <1>1, <1>3, <1>6 DEF Removed
  <2>. QED
    BY <1>5, <1>7, <2>1 DEF Left
<1>9. \E g : /\ Shows(g, base[c].rows, Old(c), 1..n)
             /\ \A q \in DOMAIN base[c].rows : \A x \in Range(left'[c]) : q <= x => g[q] = q + 1
  <2>. DEFINE g == [q \in 0..n - 1 |-> q + 1]
  <2>1. g \in [0..n - 1 -> 1..n] /\ \A k \in 1..n : k - 1 \in 0..n - 1 /\ g[k - 1] = k
    OBVIOUS
  <2>2. \A q \in 0..n - 1 : g[q] = q + 1
    OBVIOUS
  <2>. HIDE DEF g
  <2>3. \A p, q \in 0..n - 1 : p < q => g[p] < g[q]
    BY <2>2
  <2>4. Shows(g, base[c].rows, Old(c), 1..n)
    BY <1>5, <2>1, <2>2, <2>3 DEF Shows
  <2>. QED
    BY <1>5, <2>2, <2>4
<1>10. DOMAIN base[c].rows = (0..n - 1) \ {}
  BY <1>5
<1>11. Removing(c)'
  BY <1>1, <1>3, <1>6, <1>7, <1>8, <1>9, <1>10 DEF Removing
<1>. QED
  BY <1>3, <1>4, <1>11 DEF Handled

\* The first of descending numbers is above the others.
LEMMA DescendingRest ==
  ASSUME NEW s \in Seq(Nat), s # << >>, \A i, j \in DOMAIN s : i < j => s[i] > s[j]
  PROVE  /\ Head(s) \in Nat /\ Head(s) \in Range(s) /\ Tail(s) \in Seq(Nat)
         /\ Range(Tail(s)) = Range(s) \ {Head(s)}
         /\ \A x \in Range(Tail(s)) : x \in Nat /\ x < Head(s)
         /\ \A i, j \in DOMAIN Tail(s) : i < j => Tail(s)[i] > Tail(s)[j]
<1>. DEFINE rest == Tail(s)
            n == Len(s)
<1>1. /\ n \in Nat \ {0} /\ DOMAIN s = 1..n /\ \A i \in 1..n : s[i] \in Nat
      /\ Head(s) = s[1] /\ rest \in Seq(Nat)
      /\ DOMAIN rest = 1..n - 1 /\ \A i \in 1..n - 1 : rest[i] = s[i + 1]
  OBVIOUS
<1>. HIDE DEF rest, n
<1>2. \A i \in 1..n - 1 : i + 1 \in 1..n /\ i + 1 > 1 /\ 1 \in 1..n
  BY <1>1
<1>3. \A i \in 1..n : i = 1 \/ (i - 1 \in 1..n - 1 /\ (i - 1) + 1 = i)
  BY <1>1
<1>4. \A x \in Range(rest) : x \in Range(s) /\ x \in Nat /\ x < s[1]
  <2>1. ASSUME NEW i \in 1..n - 1 PROVE rest[i] \in Range(s) /\ rest[i] \in Nat /\ rest[i] < s[1]
    <3>1. rest[i] = s[i + 1] /\ s[i + 1] \in Nat /\ s[1] \in Nat /\ s[1] > s[i + 1]
      BY <1>1, <1>2
    <3>. QED
      BY <1>1, <1>2, <3>1 DEF Range
  <2>. QED
    BY <1>1, <2>1 DEF Range
<1>5. ASSUME NEW x \in Range(s) PROVE x = s[1] \/ x \in Range(rest)
  <2>1. PICK i \in 1..n : x = s[i]
    BY <1>1 DEF Range
  <2>2. CASE i # 1
    <3>1. i - 1 \in 1..n - 1 /\ (i - 1) + 1 = i
      BY <1>3, <2>2
    <3>. QED
      BY <1>1, <2>1, <3>1 DEF Range
  <2>. QED
    BY <2>1, <2>2
<1>6. s[1] \in Range(s) /\ s[1] \in Nat
  <2>1. 1 \in 1..n
    BY <1>1
  <2>. QED
    BY <1>1, <2>1 DEF Range
<1>7. Range(rest) = Range(s) \ {s[1]}
  BY <1>4, <1>5, <1>6
<1>8. ASSUME NEW i \in 1..n - 1, NEW j \in 1..n - 1, i < j PROVE rest[i] > rest[j]
  <2>1. i + 1 \in DOMAIN s /\ j + 1 \in DOMAIN s /\ i + 1 < j + 1
    BY <1>1, <1>2, <1>8
  <2>. QED
    BY <1>1, <2>1
<1>. QED
  BY <1>1, <1>4, <1>6, <1>7, <1>8 DEF rest

LEMMA RemoveOwn ==
  ASSUME NEW c, Steady(c), RemoveTrack(c)
  PROVE  Handled(c)'
<1>. USE DEF Goto, Step
<1>0. Typed /\ TablesTyped /\ c \in Clients
  BY DEF Steady, Handling
<1>. DEFINE d == Head(left[c])
            rows == Restrict(Now(c), DOMAIN Now(c) \ {d})
            rest == Tail(left[c])
<1>1. /\ at[c] = "remove" /\ at'[c] = "shift" /\ req' = req /\ base' = base /\ left' = left
      /\ req[c].op = "update" /\ left[c] # << >> /\ playlists' = playlists
      /\ Target(c) = req[c].id /\ Target(c)' = Target(c) /\ Target(c) \in DOMAIN entries
      /\ Exists(Target(c)) /\ playlists[Target(c)].owner = req[c].user
      /\ Removing(c) /\ Now(c) \in TrackRows
      /\ Now(c)' = rows /\ Old(c)' = Old(c)
  <2>1. /\ at[c] = "remove" /\ at'[c] = "shift" /\ left' = left /\ left[c] # << >> /\ playlists' = playlists
        /\ entries' = [entries EXCEPT ![req[c].id] = Restrict(@, DOMAIN @ \ {d})]
    BY <1>0 DEF RemoveTrack, RemovePlaylistTrackAtPosition, Typed, handlerVars
  <2>2. req' = req /\ base' = base /\ req[c].op = "update" /\ Removing(c)
    BY <2>1 DEF Steady, RouteOf, Handled
  <2>3. /\ Target(c) = req[c].id /\ Target(c)' = Target(c) /\ Target(c) \in DOMAIN entries
        /\ Exists(Target(c)) /\ playlists[Target(c)].owner = req[c].user
    BY <1>0, <2>1, <2>2 DEF Steady, RouteOf, Handled, Target, Working, TablesTyped
  <2>4. Now(c) \in TrackRows /\ Now(c)' = rows /\ Old(c)' = Old(c)
    BY <1>0, <2>1, <2>2, <2>3 DEF Now, Old, TablesTyped
  <2>. QED
    BY <2>1, <2>2, <2>3, <2>4
<1>2. /\ left[c] \in Seq(Nat) /\ Range(left[c]) \subseteq Range(req[c].remove)
      /\ \A i, j \in DOMAIN left[c] : i < j => left[c][i] > left[c][j]
  BY <1>1 DEF Removing
<1>3. /\ d \in Nat /\ d \in Range(left[c]) /\ Range(rest) = Range(left[c]) \ {d}
      /\ d \in Range(req[c].remove)
  <2>1. /\ d \in Nat /\ d \in Range(left[c]) /\ Range(rest) = Range(left[c]) \ {d}
    BY <1>1, <1>2, DescendingRest
  <2>. QED
    BY <1>2, <2>1
<1>4. PICK m \in Nat : DOMAIN Now(c) = 0..m - 1
  BY <1>1 DEF Removing
<1>5. PICK g : /\ Shows(g, Now(c), Old(c), Left(c))
               /\ \A q \in DOMAIN Now(c) : \A x \in Range(left[c]) : q <= x => g[q] = q + 1
  BY <1>1 DEF Removing
<1>6. /\ rows \in TrackRows /\ DOMAIN rows = DOMAIN Now(c) \ {d}
      /\ \A q \in DOMAIN rows : rows[q] = Now(c)[q]
  <2>. HIDE DEF d
  <2>1. Now(c) \in TrackRows
    BY <1>1
  <2>. QED
    BY <2>1, LessRows
<1>7. Left(c)' = Left(c) \ {d + 1}
  <2>1. Removed(c) = Range(req[c].remove) \ Range(left[c])
    BY <1>1 DEF Removed
  <2>2. Removed(c)' = Range(req[c].remove) \ Range(rest)
    BY <1>1 DEF Removed
  <2>3. Removed(c)' = Removed(c) \cup {d}
    BY <1>3, <2>1, <2>2
  <2>4. Left(c)' = {i \in 1..Len(Old(c)) : i - 1 \notin Removed(c)'}
    BY <1>1 DEF Left
  <2>. HIDE DEF d, rest
  <2>5. ASSUME NEW i \in 1..Len(Old(c)) PROVE i - 1 \in Removed(c)' <=> i - 1 \in Removed(c) \/ i = d + 1
    BY <1>3, <2>3
  <2>. QED
    BY <2>4, <2>5 DEF Left
<1>. HIDE DEF rows, d, rest
<1>. DEFINE h == [q \in DOMAIN rows |-> g[q]]
<1>8. ASSUME NEW q \in DOMAIN rows PROVE g[q] \in Left(c) \ {d + 1}
  <2>1. q \in DOMAIN Now(c) /\ q # d /\ q \in 0..m - 1 /\ g[q] \in Left(c)
    BY <1>4, <1>5, <1>6 DEF Shows
  <2>2. CASE q < d
    <3>1. g[q] = q + 1
      BY <1>3, <1>5, <2>1, <2>2
    <3>. QED
      BY <1>3, <2>1, <2>2, <3>1
  <2>3. CASE q > d
    <3>1. d \in DOMAIN Now(c)
      BY <1>3, <1>4, <2>1, <2>3
    <3>2. g[d] = d + 1 /\ g[d] < g[q]
      BY <1>3, <1>5, <2>1, <2>3, <3>1 DEF Shows
    <3>. QED
      BY <1>3, <2>1, <3>2
  <2>. QED
    BY <1>3, <2>1, <2>2, <2>3
<1>9. Shows(h, rows, Old(c), Left(c) \ {d + 1})
  <2>1. \A k \in Left(c) \ {d + 1} : \E q \in DOMAIN rows : h[q] = k
    <3>1. ASSUME NEW k \in Left(c) \ {d + 1} PROVE \E q \in DOMAIN rows : h[q] = k
      <4>1. PICK q \in DOMAIN Now(c) : g[q] = k
        BY <1>5 DEF Shows
      <4>2. q # d
        BY <1>3, <1>5, <4>1
      <4>. QED
        BY <1>6, <4>1, <4>2
    <3>. QED
      BY <3>1
  <2>2. \A p, q \in DOMAIN rows : p < q => h[p] < h[q]
    BY <1>5, <1>6 DEF Shows
  <2>3. \A q \in DOMAIN rows : rows[q] = Old(c)[h[q]]
    BY <1>5, <1>6 DEF Shows
  <2>. QED
    BY <1>8, <2>1, <2>2, <2>3 DEF Shows
<1>10. \A q \in DOMAIN rows : \A x \in Range(left[c]) : q <= x => h[q] = q + 1
  BY <1>5, <1>6
<1>11. DOMAIN rows = (0..m - 1) \ {d}
  BY <1>4, <1>6
<1>12. Removing(c)'
  <2>. HIDE DEF h
  <2>1. \E m_1 \in Nat : DOMAIN Now(c)' = (0..m_1 - 1) \ {Head(left'[c])}
    BY <1>1, <1>11 DEF d
  <2>2. \E f : /\ Shows(f, Now(c)', Old(c)', Left(c)')
               /\ \A q \in DOMAIN Now(c)' : \A x \in Range(left'[c]) : q <= x => f[q] = q + 1
    BY <1>1, <1>7, <1>9, <1>10
  <2>. QED
    BY <1>1, <1>2, <2>1, <2>2 DEF Removing
<1>13. Exists(Target(c))' /\ playlists'[Target(c)'].owner = req'[c].user
  BY <1>1 DEF Exists
<1>. QED
  BY <1>1, <1>12, <1>13 DEF Handled

\* The shift closes the hole the removal left.
LEMMA ShiftCloses ==
  ASSUME NEW rows \in TrackRows, NEW d \in Nat, NEW m \in Nat, DOMAIN rows = (0..m - 1) \ {d},
         \A q, r \in DOMAIN rows : Moved(q, d) = Moved(r, d) => q = r
  PROVE  GaplessRows(Shifted(rows, d))
<1>1. DOMAIN Shifted(rows, d) = {Moved(q, d) : q \in DOMAIN rows}
  BY ShiftedRows
<1>2. CASE d \in 0..m - 1
  <2>1. m - 1 \in Nat
    BY <1>2
  <2>2. ASSUME NEW p \in DOMAIN Shifted(rows, d) PROVE p \in 0..(m - 1) - 1
    BY <1>1, <1>2 DEF Moved
  <2>3. ASSUME NEW p \in 0..(m - 1) - 1 PROVE p \in DOMAIN Shifted(rows, d)
    <3>1. CASE p < d
      <4>1. p \in DOMAIN rows /\ Moved(p, d) = p
        BY <3>1 DEF Moved
      <4>. QED
        BY <1>1, <4>1
    <3>2. CASE p >= d
      <4>1. p + 1 \in DOMAIN rows /\ Moved(p + 1, d) = p
        BY <3>2 DEF Moved
      <4>. QED
        BY <1>1, <4>1
    <3>. QED
      BY <3>1, <3>2
  <2>. QED
    BY <2>1, <2>2, <2>3 DEF GaplessRows
<1>3. CASE d \notin 0..m - 1
  <2>1. \A q \in DOMAIN rows : Moved(q, d) = q
    BY <1>3 DEF Moved
  <2>2. DOMAIN Shifted(rows, d) = 0..m - 1
    BY <1>1, <1>3, <2>1
  <2>. QED
    BY <2>2 DEF GaplessRows
<1>. QED
  BY <1>2, <1>3

\* FollowsShifted, of the shift a request is about to do.
LEMMA FollowsShift ==
  ASSUME NEW c, Now(c) \in TrackRows, Head(left[c]) \in Int, Left(c) \in SUBSET Int, NEW g,
         Shows(g, Now(c), Old(c), Left(c)),
         \A q, r \in DOMAIN Now(c) : Moved(q, Head(left[c])) = Moved(r, Head(left[c])) => q = r
  PROVE  \E h : /\ Shows(h, Shifted(Now(c), Head(left[c])), Old(c), Left(c))
               /\ \A q \in DOMAIN Now(c) : h[Moved(q, Head(left[c]))] = g[q]
BY FollowsShifted

LEMMA ShiftOwn ==
  ASSUME NEW c, Steady(c), Shift(c)
  PROVE  Handled(c)'
<1>. USE DEF Goto, Step
<1>0. Typed /\ TablesTyped /\ c \in Clients
  BY DEF Steady, Handling
<1>. DEFINE d == Head(left[c])
            rest == Tail(left[c])
            rows == Shifted(Now(c), d)
<1>1. /\ at[c] = "shift" /\ at'[c] = "remove" /\ req' = req /\ base' = base /\ left'[c] = rest
      /\ req[c].op = "update" /\ left[c] # << >> /\ playlists' = playlists
      /\ Target(c) = req[c].id /\ Target(c)' = Target(c) /\ Target(c) \in DOMAIN entries
      /\ Exists(Target(c)) /\ playlists[Target(c)].owner = req[c].user
      /\ Removing(c) /\ Now(c) \in TrackRows
      /\ Now(c)' = rows /\ Old(c)' = Old(c)
      /\ \A q, r \in DOMAIN Now(c) : Moved(q, d) = Moved(r, d) => q = r
  <2>1. /\ at[c] = "shift" /\ at'[c] = "remove" /\ left'[c] = rest /\ playlists' = playlists
        /\ entries' = [entries EXCEPT ![req[c].id] = Shifted(@, d)]
        /\ \A q, r \in DOMAIN Now(c) : Moved(q, d) = Moved(r, d) => q = r
    BY <1>0 DEF Shift, ShiftPlaylistTracksAfterPosition, Movable, Typed, Now
  <2>2. req' = req /\ base' = base /\ req[c].op = "update" /\ Removing(c) /\ left[c] # << >>
    BY <2>1 DEF Steady, RouteOf, Handled
  <2>3. /\ Target(c) = req[c].id /\ Target(c)' = Target(c) /\ Target(c) \in DOMAIN entries
        /\ Exists(Target(c)) /\ playlists[Target(c)].owner = req[c].user
    BY <1>0, <2>1, <2>2 DEF Steady, RouteOf, Handled, Target, Working, TablesTyped
  <2>4. Now(c) \in TrackRows /\ Now(c)' = rows /\ Old(c)' = Old(c)
    BY <1>0, <2>1, <2>2, <2>3 DEF Now, Old, TablesTyped
  <2>. QED
    BY <2>1, <2>2, <2>3, <2>4
<1>2. /\ left[c] \in Seq(Nat) /\ Range(left[c]) \subseteq Range(req[c].remove)
      /\ \A i, j \in DOMAIN left[c] : i < j => left[c][i] > left[c][j]
  BY <1>1 DEF Removing
<1>3. /\ d \in Nat /\ rest \in Seq(Nat) /\ Range(rest) = Range(left[c]) \ {d}
      /\ \A x \in Range(rest) : x \in Nat /\ x < d
      /\ \A i, j \in DOMAIN rest : i < j => rest[i] > rest[j]
  BY <1>1, <1>2, DescendingRest
<1>4. PICK m \in Nat : DOMAIN Now(c) = (0..m - 1) \ {d}
  BY <1>1 DEF Removing
<1>5. PICK g : /\ Shows(g, Now(c), Old(c), Left(c))
               /\ \A q \in DOMAIN Now(c) : \A x \in Range(left[c]) : q <= x => g[q] = q + 1
  BY <1>1 DEF Removing
<1>6. Left(c)' = Left(c) /\ Left(c) \subseteq Int
  BY <1>1 DEF Left, Removed
<1>. HIDE DEF d, rest
<1>7. PICK h : /\ Shows(h, rows, Old(c), Left(c))
               /\ \A q \in DOMAIN Now(c) : h[Moved(q, d)] = g[q]
  <2>1. /\ d \in Int /\ Now(c) \in TrackRows /\ Left(c) \in SUBSET Int
        /\ \A q, r \in DOMAIN Now(c) : Moved(q, d) = Moved(r, d) => q = r
        /\ Shows(g, Now(c), Old(c), Left(c))
    BY <1>1, <1>3, <1>5, <1>6
  <2>2. \E h : /\ Shows(h, Shifted(Now(c), d), Old(c), Left(c))
               /\ \A q \in DOMAIN Now(c) : h[Moved(q, d)] = g[q]
    <3>. USE DEF d
    <3>. QED
      BY <1>5, <2>1, FollowsShift
  <2>. QED
    BY <2>2 DEF rows
<1>8. DOMAIN rows = {Moved(q, d) : q \in DOMAIN Now(c)}
  <2>1. d \in Int
    BY <1>3
  <2>. QED
    BY <1>1, <2>1, ShiftedRows
<1>. HIDE DEF rows
<1>9. ASSUME NEW p \in DOMAIN rows, NEW x \in Range(rest), p <= x PROVE h[p] = p + 1
  <2>1. PICK q \in DOMAIN Now(c) : p = Moved(q, d)
    BY <1>8
  <2>2. q \in 0..m - 1 /\ x \in Nat /\ x < d /\ x \in Range(left[c])
    BY <1>3, <1>4
  <2>3. p = q
    BY <1>3, <1>9, <2>1, <2>2 DEF Moved
  <2>4. g[q] = q + 1
    BY <1>5, <1>9, <2>2, <2>3
  <2>. QED
    BY <1>7, <2>1, <2>3, <2>4
<1>10. \E k \in Nat : DOMAIN rows = 0..k - 1
  <2>1. /\ Now(c) \in TrackRows /\ d \in Nat /\ DOMAIN Now(c) = (0..m - 1) \ {d}
        /\ \A q, r \in DOMAIN Now(c) : Moved(q, d) = Moved(r, d) => q = r
    BY <1>1, <1>3, <1>4
  <2>2. GaplessRows(Shifted(Now(c), d))
    <3>. USE DEF d
    <3>. QED
      BY <2>1, ShiftCloses
  <2>. QED
    BY <2>2 DEF GaplessRows, rows
<1>11. PICK k \in Nat : DOMAIN rows = 0..k - 1
  BY <1>10
<1>12. Removing(c)'
  <2>1. \E k_1 \in Nat : DOMAIN Now(c)' = (0..k_1 - 1) \ {}
    BY <1>1, <1>11
  <2>2. \E f : /\ Shows(f, Now(c)', Old(c)', Left(c)')
               /\ \A q \in DOMAIN Now(c)' : \A x \in Range(left'[c]) : q <= x => f[q] = q + 1
    BY <1>1, <1>6, <1>7, <1>9
  <2>3. left'[c] \in Seq(Nat) /\ Range(left'[c]) \subseteq Range(req'[c].remove)
        /\ \A i, j \in DOMAIN left'[c] : i < j => left'[c][i] > left'[c][j]
    BY <1>1, <1>2, <1>3
  <2>. QED
    BY <1>1, <2>1, <2>2, <2>3 DEF Removing
<1>13. Exists(Target(c))' /\ playlists'[Target(c)'].owner = req'[c].user
  BY <1>1 DEF Exists
<1>. QED
  BY <1>1, <1>12, <1>13 DEF Handled

LEMMA Joined ==
  ASSUME NEW s \in Seq(Songs), NEW t \in Seq(Songs \cup {Bad})
  PROVE  /\ s \o t \in Seq(Songs \cup {Bad}) /\ Len(s \o t) = Len(s) + Len(t)
         /\ \A i \in 1..Len(s) : (s \o t)[i] = s[i]
         /\ \A i \in 1..Len(t) : (s \o t)[Len(s) + i] = t[i]
OBVIOUS

LEMMA CountOwn ==
  ASSUME NEW c, Steady(c), Count(c)
  PROVE  Handled(c)'
<1>. USE DEF Goto, Step
<1>0. Typed /\ TablesTyped /\ c \in Clients
  BY DEF Steady, Handling
<1>. DEFINE songs == req[c].songs
            list == ListPlaylistTracks(Now(c))
<1>1. /\ at[c] = "remove" /\ at'[c] = "add" /\ req' = req /\ base' = base
      /\ req[c].op = "update" /\ left[c] = << >> /\ entries' = entries /\ playlists' = playlists
      /\ Target(c) = req[c].id /\ Target(c)' = Target(c) /\ Target(c) \in DOMAIN entries
      /\ Exists(Target(c)) /\ playlists[Target(c)].owner = req[c].user
      /\ Removing(c) /\ Now(c) \in TrackRows /\ Rows_(c)' = Now(c)
      /\ next'[c] = 1 /\ first'[c] = Size(Now(c))
      /\ songs \in Seq(Songs \cup {Bad})
  <2>1. /\ at[c] = "remove" /\ at'[c] = "add" /\ left[c] = << >> /\ playlists' = playlists
        /\ entries' = entries /\ next' = next /\ first'[c] = CountPlaylistTracks(req[c].id)
    BY <1>0 DEF Count, Typed, tableVars
  <2>2. req' = req /\ base' = base /\ req[c].op = "update" /\ Removing(c) /\ next[c] = 1
        /\ songs \in Seq(Songs \cup {Bad})
    BY <2>1 DEF Steady, RouteOf, Handled
  <2>3. /\ Target(c) = req[c].id /\ Target(c)' = Target(c) /\ Target(c) \in DOMAIN entries
        /\ Exists(Target(c)) /\ playlists[Target(c)].owner = req[c].user
    BY <1>0, <2>1, <2>2 DEF Steady, RouteOf, Handled, Target, Working, TablesTyped
  <2>4. Now(c) \in TrackRows /\ Rows_(c)' = Now(c) /\ first'[c] = Size(Now(c))
    BY <1>0, <2>1, <2>2, <2>3 DEF Now, Rows_, TablesTyped, CountPlaylistTracks, Size
  <2>. QED
    BY <2>1, <2>2, <2>3, <2>4
<1>2. PICK m \in Nat : DOMAIN Now(c) = 0..m - 1
  BY <1>1 DEF Removing
<1>3. PICK g : Shows(g, Now(c), Old(c), Left(c))
  BY <1>1 DEF Removing
<1>4. Left(c) = {i \in DOMAIN Old(c) : i - 1 \notin Range(req[c].remove)}
  <2>1. Removed(c) = Range(req[c].remove)
    BY <1>1 DEF Removed, Range
  <2>2. Old(c) \in Seq(Songs)
    BY <1>1, BaseList
  <2>. QED
    BY <2>1, <2>2 DEF Left
<1>5. list = ListPlaylistTracks(Restrict(Old(c), Left(c)))
  <2>1. Left(c) \in SUBSET Int
    BY DEF Left
  <2>2. Follows(Now(c), Old(c), Left(c))
    BY <1>3, ShowsFollows
  <2>. QED
    BY <1>1, <2>1, <2>2, FollowsList, TrackRowsOK
<1>6. /\ Size(Now(c)) = m /\ list \in Seq(Songs) /\ Len(list) = m
      /\ \A i \in 1..m : list[i] = Now(c)[i - 1]
  BY <1>1, <1>2, GaplessList
<1>7. Promised(c)' = list \o songs
  <2>1. Promised(c)' = Edited(Old(c), req[c])
    BY <1>1 DEF Promised, Old
  <2>. QED
    BY <1>4, <1>5, <2>1 DEF Edited
<1>. HIDE DEF list
<1>8. /\ list \o songs \in Seq(Songs \cup {Bad}) /\ Len(list \o songs) = m + Len(songs)
      /\ \A i \in 1..m : (list \o songs)[i] = list[i]
      /\ \A i \in 1..Len(songs) : (list \o songs)[m + i] = songs[i]
  <2>1. songs \in Seq(Songs \cup {Bad})
    BY <1>1
  <2>. HIDE DEF songs
  <2>2. list \in Seq(Songs)
    BY <1>6
  <2>3. /\ list \o songs \in Seq(Songs \cup {Bad}) /\ Len(list \o songs) = Len(list) + Len(songs)
        /\ \A i \in 1..Len(list) : (list \o songs)[i] = list[i]
        /\ \A i \in 1..Len(songs) : (list \o songs)[Len(list) + i] = songs[i]
    BY ONLY <2>1, <2>2, Joined
  <2>. QED
    BY <1>6, <2>3
<1>9. Leading(Now(c), list \o songs, m + 1 - 1)
  <2>. HIDE DEF songs
  <2>1. m + 1 - 1 = m
    OBVIOUS
  <2>2. ASSUME NEW q \in 0..m - 1 PROVE Now(c)[q] = (list \o songs)[q + 1]
    <3>1. q + 1 \in 1..m /\ (q + 1) - 1 = q
      OBVIOUS
    <3>. QED
      BY <1>6, <1>8, <3>1
  <2>. QED
    BY <1>2, <2>1, <2>2 DEF Leading
<1>10. Adding(c)'
  <2>1. Len(songs) \in Nat
    BY DEF Steady
  <2>. QED
    BY <1>1, <1>6, <1>7, <1>8, <1>9, <2>1 DEF Adding
<1>11. Exists(Target(c))' /\ playlists'[Target(c)'].owner = req'[c].user
  BY <1>1 DEF Exists
<1>. QED
  BY <1>1, <1>10, <1>11 DEF Handled

\* A request at the songs it adds.
LEMMA AddingFacts ==
  ASSUME NEW c, Steady(c), at[c] = "add"
  PROVE  /\ Exists(Target(c)) /\ playlists[Target(c)].owner = req[c].user
         /\ Target(c) \in DOMAIN entries /\ Rows_(c) \in TrackRows
         /\ Adding(c) /\ next[c] \in Nat \ {0} /\ first[c] \in Nat
<1>1. Typed /\ TablesTyped /\ c \in Clients
  BY DEF Steady, Handling
<1>2. Exists(Target(c)) /\ playlists[Target(c)].owner = req[c].user /\ Adding(c)
  BY DEF Steady, Handled
<1>3. Target(c) \in DOMAIN entries /\ Rows_(c) \in TrackRows
  BY <1>1, <1>2 DEF Exists, TablesTyped, Rows_
<1>4. next[c] \in Nat \ {0} /\ first[c] \in Nat
  BY <1>1 DEF Typed
<1>. QED
  BY <1>2, <1>3, <1>4

LEMMA AddOwn ==
  ASSUME NEW c, Steady(c), Add(c)
  PROVE  Handled(c)'
<1>. USE DEF Goto, Step
<1>0. Typed /\ TablesTyped /\ c \in Clients
  BY DEF Steady, Handling
<1>. DEFINE songs == req[c].songs
            rows == Rows_(c)
            k == first[c] + next[c]
<1>1. /\ at[c] = "add" /\ at'[c] = "add" /\ req' = req /\ base' = base /\ row' = row /\ first' = first
      /\ next[c] <= Len(songs) /\ next'[c] = next[c] + 1 /\ playlists' = playlists
  BY <1>0 DEF Add, AddPlaylistTrack, Typed, history
<1>2. /\ Exists(Target(c)) /\ playlists[Target(c)].owner = req[c].user
      /\ Target(c) \in DOMAIN entries /\ rows \in TrackRows
      /\ Adding(c) /\ next[c] \in Nat \ {0} /\ first[c] \in Nat
  <2>1. at[c] = "add"
    BY <1>1
  <2>. QED
    BY ONLY <2>1, Steady(c), AddingFacts
<1>3. Target(c)' = Target(c) /\ Promised(c)' = Promised(c)
  BY <1>1 DEF Target, Promised, Edited
<1>4. Position(c) = k - 1 /\ k \in Nat \ {0}
  BY <1>2 DEF Position
<1>5. /\ DOMAIN Rows_(c)' = DOMAIN rows \cup {k - 1}
      /\ Rows_(c)'[k - 1] = songs[next[c]]
      /\ \A q \in DOMAIN rows : q # k - 1 => Rows_(c)'[q] = rows[q]
  <2>1. entries'[Target(c)] = [q \in DOMAIN rows \cup {Position(c)} |->
                                IF q = Position(c) THEN songs[next[c]] ELSE rows[q]]
    BY <1>2 DEF Add, AddPlaylistTrack, Rows_
  <2>2. Rows_(c)' = entries'[Target(c)]
    BY <1>3 DEF Rows_
  <2>. HIDE DEF rows, songs, k
  <2>. QED
    BY <1>4, <2>1, <2>2
<1>6. Leading(rows, Promised(c), k - 1)
  <2>1. first[c] + next[c] - 1 = k - 1 /\ Leading(rows, Promised(c), first[c] + next[c] - 1)
    BY <1>2 DEF Adding
  <2>. QED
    BY <2>1
<1>7. songs[next[c]] = Promised(c)[k] /\ Len(songs) \in Nat
  <2>1. Len(songs) \in Nat
    BY DEF Steady
  <2>2. next[c] \in 1..Len(songs)
    BY <1>1, <1>2, <2>1
  <2>. QED
    BY <1>2, <2>1, <2>2 DEF Adding
<1>. HIDE DEF rows
<1>8. Leading(Rows_(c)', Promised(c), k)
  <2>1. Rows_(c)'[k - 1] = Promised(c)[k]
    BY <1>5, <1>7
  <2>. HIDE DEF k, songs
  <2>. QED
    BY <1>4, <1>5, <1>6, <2>1, LeadingMore
<1>9. first'[c] + next'[c] - 1 = k /\ next'[c] <= Len(songs) + 1
  BY <1>1, <1>2, <1>7
<1>10. Adding(c)'
  BY <1>1, <1>2, <1>3, <1>8, <1>9 DEF Adding
<1>11. Exists(Target(c))' /\ playlists'[Target(c)'].owner = req'[c].user
  BY <1>1, <1>2, <1>3 DEF Exists
<1>. QED
  BY <1>1, <1>10, <1>11 DEF Handled

LEMMA AddsGoThrough ==
  ASSUME NEW c, Steady(c), at[c] = "add", next[c] <= Len(req[c].songs)
  PROVE  Insertable(Target(c), req[c].songs[next[c]], Position(c))
<1>1. /\ Exists(Target(c)) /\ Adding(c) /\ next[c] \in Nat \ {0} /\ first[c] \in Nat
  BY AddingFacts
<1>2. req[c].songs[next[c]] \in Songs
  <2>1. next[c] \in DOMAIN req[c].songs
    BY <1>1 DEF Steady
  <2>2. Range(req[c].songs) \subseteq Songs
    BY DEF Steady, Proper
  <2>. QED
    BY <2>1, <2>2 DEF Range
<1>3. Position(c) \notin DOMAIN entries[Target(c)]
  BY <1>1 DEF Position, Adding, Leading, Rows_
<1>. QED
  BY <1>1, <1>2, <1>3 DEF Insertable

LEMMA ShiftsGoThrough ==
  ASSUME NEW c, Steady(c), at[c] = "shift"
  PROVE  Movable(req[c].id, Head(left[c]))
<1>1. Removing(c) /\ left[c] # << >>
  BY DEF Steady, Handled, RouteOf
<1>2. left[c] \in Seq(Nat) /\ \E m \in Nat : DOMAIN Now(c) = (0..m - 1) \ {Head(left[c])}
  BY <1>1 DEF Removing
<1>3. Head(left[c]) \in Int
  BY <1>1, <1>2
<1>4. PICK m \in Nat : DOMAIN entries[req[c].id] = (0..m - 1) \ {Head(left[c])}
  BY <1>2 DEF Now
<1>. QED
  BY <1>3, <1>4, FreeShift

LEMMA DoneOwn ==
  ASSUME NEW c, Steady(c), Done(c)
  PROVE  Handled(c)'
<1>. USE DEF Goto, Step
<1>. DEFINE n == Len(Promised(c))
<1>1. /\ at[c] = "add" /\ at'[c] = "ok" /\ req' = req /\ base' = base /\ row' = row
      /\ next[c] > Len(req[c].songs) /\ entries' = entries
  BY DEF Done, Steady, Handling, Typed, handlerVars, tableVars
<1>2. /\ Rows_(c) \in TrackRows /\ Adding(c) /\ next[c] \in Nat \ {0} /\ first[c] \in Nat
  BY <1>1, AddingFacts
<1>3. Rows_(c)' = Rows_(c) /\ Promised(c)' = Promised(c)
  BY <1>1 DEF Target, Rows_, Promised, Edited
<1>4. Len(req[c].songs) \in Nat
  BY DEF Steady
<1>5. first[c] + next[c] - 1 = n /\ n \in Nat
  <2>. DEFINE k == Len(req[c].songs)
  <2>1. /\ first[c] + k = n /\ next[c] <= k + 1 /\ next[c] > k
        /\ next[c] \in Nat /\ first[c] \in Nat /\ k \in Nat
    BY <1>1, <1>2, <1>4 DEF Adding
  <2>. HIDE DEF n, k
  <2>. QED
    BY ONLY <2>1
<1>6. /\ DOMAIN Rows_(c) = 0..n - 1 /\ \A q \in 0..n - 1 : Rows_(c)[q] = Promised(c)[q + 1]
  BY <1>2, <1>5 DEF Adding, Leading
<1>. DEFINE list == ListPlaylistTracks(Rows_(c))
<1>7. /\ list \in Seq(Songs) /\ Len(list) = n /\ \A i \in 1..n : list[i] = Rows_(c)[i - 1]
  BY <1>2, <1>5, <1>6, GaplessList
<1>8. Promised(c) \in Seq(Songs \cup {Bad})
  BY <1>2 DEF Adding
<1>9. list = Promised(c)
  <2>. HIDE DEF list
  <2>1. ASSUME NEW i \in 1..n PROVE list[i] = Promised(c)[i]
    <3>. HIDE DEF n
    <3>1. i - 1 \in 0..n - 1 /\ (i - 1) + 1 = i
      BY <1>5
    <3>. QED
      BY <1>6, <1>7, <3>1
  <2>2. DOMAIN list = 1..n /\ DOMAIN Promised(c) = 1..n
    BY <1>7, <1>8
  <2>. QED
    BY <1>7, <1>8, <2>1, <2>2
<1>. QED
  BY <1>1, <1>3, <1>9 DEF Handled

LEMMA HandledOwn ==
  ASSUME NEW c, Steady(c), Handle(c), ~\E r \in Requests[c] : Send(c, r), faults' = 0
  PROVE  Handled(c)'
<1>. USE DEF Step
<1>1. faults \in Nat /\ RouteOf(c) /\ req[c].op \in {"create", "replace", "update", "delete"}
  BY DEF Steady, Handling, Typed
<1>2. ~Fails(c) /\ ~SkipSong(c)
  BY <1>1 DEF Fails, SkipSong
<1>3. ~List(c) /\ ~Show(c) /\ ~ShowSong(c) /\ ~Shown(c)
  BY <1>1 DEF List, Show, ShowSong, Shown, RouteOf
<1>4. ~AddFails(c) /\ ~ShiftFails(c)
  BY AddsGoThrough, ShiftsGoThrough DEF AddFails, ShiftFails
<1>5. \/ Create(c) \/ Get(c) \/ Clear(c) \/ Delete(c)
      \/ Update(c) \/ RemoveTrack(c) \/ Shift(c) \/ Count(c) \/ Add(c) \/ Done(c)
  BY <1>2, <1>3, <1>4 DEF Handle
<1>. QED
  BY <1>5, CreateOwn, GetOwn, ClearOwn, DeleteOwn, UpdateOwn, RemoveOwn, ShiftOwn, CountOwn, AddOwn,
     DoneOwn

LEMMA AppliedOwn ==
  ASSUME Handling, NEW c \in Clients, Handle(c), AppliedSoFar(c)
  PROVE  AppliedSoFar(c)'
<1>1. CASE \E r \in Requests[c] : Send(c, r)
  BY <1>1, AppliedSend
<1>2. CASE ~\E r \in Requests[c] : Send(c, r)
  <2>1. alone' = alone /\ base' = base /\ req' = req /\ Busy(c)
    BY <1>2, WritingKept
  <2>. SUFFICES ASSUME alone[c], faults' = 0, GaplessRows(base[c].rows)
                PROVE  /\ req[c].op # "create" => base[c].rows \in TrackRows
                       /\ Proper(c) => Handled(c)'
                       /\ req[c].op # "create" /\ base[c].owner # req[c].user => Refused(c)'
    BY <2>1 DEF AppliedSoFar, Proper
  <2>2. /\ faults = 0
        /\ req[c].op # "create" => base[c].rows \in TrackRows
        /\ Proper(c) => Handled(c)
        /\ req[c].op # "create" /\ base[c].owner # req[c].user => Refused(c)
    <3>1. faults = 0
      BY FaultsGrow DEF Handling
    <3>. QED
      BY <3>1 DEF AppliedSoFar
  <2>3. at[c] # "idle" /\ req[c] \in Requests[c] /\ RouteOf(c) /\ req[c].op \notin Reads
    BY <2>1 DEF Busy, Handling, OnRoute, RouteOf, AloneInv
  <2>4. req[c].op \in {"create", "replace", "update", "delete"}
    BY <2>3, PlaylistsAssumption DEF Reads
  <2>5. ASSUME Proper(c) PROVE Handled(c)'
    <3>1. Steady(c)
      BY <2>1, <2>2, <2>3, <2>4, <2>5, SongsTyped DEF Steady
    <3>. QED
      BY <1>2, <3>1, HandledOwn
  <2>6. ASSUME req[c].op # "create", base[c].owner # req[c].user PROVE Refused(c)'
    BY <1>2, <2>2, <2>3, <2>6, RefusedOwn
  <2>. QED
    BY <2>2, <2>5, <2>6
<1>. QED
  BY <1>1, <1>2

AppliedInv == \A c \in Clients : AppliedSoFar(c)

LEMMA AppliedNext == Handling /\ AppliedInv /\ [Next]_vars => AppliedInv'
<1>. SUFFICES ASSUME Handling, AppliedInv, [Next]_vars, NEW c \in Clients PROVE AppliedSoFar(c)'
  BY DEF AppliedInv
<1>1. ASSUME NEW d \in Clients, Handle(d) PROVE AppliedSoFar(c)'
  BY <1>1, AppliedOwn, AppliedOthers DEF AppliedInv
<1>2. CASE UNCHANGED vars
  <2>1. AppliedSoFar(c)
    BY DEF AppliedInv
  <2>2. UNCHANGED <<at, req, row, left, next, first, base, alone, faults, playlists, entries>>
    BY <1>2 DEF vars, handlerVars, history, tableVars
  <2>3. /\ Now(c)' = Now(c) /\ Old(c)' = Old(c) /\ Target(c)' = Target(c) /\ Rows_(c)' = Rows_(c)
        /\ Proper(c)' = Proper(c) /\ Promised(c)' = Promised(c) /\ Left(c)' = Left(c)
    BY <2>2 DEF Now, Old, Target, Rows_, Proper, Promised, Edited, Left, Removed
  <2>4. Handled(c)' = Handled(c) /\ Refused(c)' = Refused(c)
    BY <2>2, <2>3 DEF Handled, Refused, Exists, Removing, Adding
  <2>. QED
    BY <2>1, <2>2, <2>3, <2>4 DEF AppliedSoFar
<1>. QED
  BY <1>1, <1>2 DEF Next

LEMMA AppliedInit == Init => AppliedInv
BY DEF Init, AppliedInv, AppliedSoFar

LEMMA AnsweredApplied ==
  ASSUME AppliedInv, faults = 0, NEW c \in Clients, alone[c], Answered(c), GaplessRows(base[c].rows)
  PROVE  AppliedTo(c)
<1>1. /\ Proper(c) => Handled(c)
      /\ req[c].op # "create" /\ base[c].owner # req[c].user => Refused(c)
  BY DEF AppliedInv, AppliedSoFar
<1>2. Proper(c) => at[c] = "ok" /\ ListPlaylistTracks(entries[Target(c)]) = Promised(c)
  BY <1>1 DEF Handled, Rows_, Answered
<1>3. req[c].op # "create" /\ base[c].owner # req[c].user =>
        at[c] = "failed" /\ (base[c].owner # None => entries[req[c].id] = base[c].rows)
  BY <1>1 DEF Refused, Answered
<1>. QED
  BY <1>2, <1>3 DEF AppliedTo

\* What a request found is rows of a playlist, or none.
BaseRows == \A c \in Clients : base[c].rows \in TrackRows

LEMMA BaseInit == Init => BaseRows
BY NoRows DEF Init, Nothing, BaseRows

LEMMA BaseNext == Handling /\ BaseRows /\ [Next]_vars => BaseRows'
<1>. SUFFICES ASSUME Handling, BaseRows, [Next]_vars PROVE BaseRows'
  OBVIOUS
<1>1. ASSUME NEW d \in Clients, NEW r \in Requests[d], Send(d, r) PROVE BaseRows'
  <2>1. Found(r).rows \in TrackRows
    BY NoRows DEF Found, Nothing, Exists, Handling, TablesTyped
  <2>2. base' = [base EXCEPT ![d] = Found(r)] /\ DOMAIN base = Clients
    BY <1>1 DEF Send, Handling, Typed
  <2>. QED
    BY <2>1, <2>2 DEF BaseRows
<1>2. ASSUME NEW d \in Clients, Handle(d), ~\E r \in Requests[d] : Send(d, r) PROVE base' = base
  BY <1>2 DEF Handle, Create, Get, Clear, Delete, Update, RemoveTrack, Shift, ShiftFails, Count, Add,
    AddFails, Done, List, Show, ShowSong, SkipSong, Shown, Fails, history
<1>3. UNCHANGED vars => base' = base
  BY DEF vars, history
<1>. QED
  BY <1>1, <1>2, <1>3 DEF Next, BaseRows

\* As long as nothing fails, a proper request that nobody came in between of, and
\* that found its playlist without a hole, is answered "ok" and leaves exactly the
\* list it asked for, whatever the other clients do before and after; one about a
\* playlist that is not there or somebody else's is refused and leaves it alone.
THEOREM GaplessIsApplied == Spec => []AppliedGapless
<1>1. Init => Handling /\ AppliedInv /\ BaseRows
  BY AppliedInit, HandlingInit, BaseInit
<1>2. Handling /\ AppliedInv /\ BaseRows /\ [Next]_vars => (Handling /\ AppliedInv /\ BaseRows)'
  BY HandlingNext, AppliedNext, BaseNext
<1>3. AppliedInv /\ BaseRows => AppliedGapless
  <2>1. ASSUME BaseRows, NEW c \in Clients, WithoutHole(base[c].rows)
        PROVE  GaplessRows(base[c].rows)
    BY <2>1, TrackRowsOK, GaplessCount DEF BaseRows
  <2>. QED
    BY <2>1, AnsweredApplied DEF AppliedGapless
<1>. QED
  BY <1>1, <1>2, <1>3, PTL DEF Spec

-----------------------------------------------------------------------------
(* With one client that edits, and indices that are natural numbers below  *)
(* Width, no request finds a hole.                                         *)

NaturalIndices ==
  \A c \in Clients : \A r \in Requests[c] : r.remove \in Seq((0..Width - 1) \cup {Bad})

OnlyReads(c) == \A r \in Requests[c] : r.op \in Reads

\* A removal leaves one hole, which the shift after it closes.
ClosedBy(e) ==
  faults = 0 =>
    /\ GaplessRows(base[e].rows)
    /\ at[e] \in {"remove", "shift"} => left[e] \in Seq(Nat)
    /\ at[e] = "shift" => \E m \in Nat : DOMAIN entries[Target(e)] = (0..m - 1) \ {Head(left[e])}
    /\ at[e] = "add" => DOMAIN entries[Target(e)] = 0..Position(e) - 1
    /\ \A p \in DOMAIN entries : GaplessRows(entries[p]) \/ (at[e] = "shift" /\ p = Target(e))

LEMMA ReaderKeepsTables ==
  ASSUME Handling, NEW d \in Clients, OnlyReads(d), Handle(d)
  PROVE  entries' = entries
<1>1. RouteOf(d) /\ (at[d] # "idle" => req[d].op \in Reads)
  BY DEF Handling, OnRoute, RouteOf, OnlyReads
<1>2. CASE at[d] \in {"idle", "ok", "failed"}
  BY <1>2 DEF Handle, Send, Create, Get, Clear, Delete, Update, RemoveTrack, Shift, Count, Add, AddFails, ShiftFails,
     Done, List, Show, ShowSong, SkipSong, Shown, Fails, Step, tableVars
<1>3. CASE at[d] \notin {"idle", "ok", "failed"}
  BY <1>1, <1>3 DEF RouteOf, Reads, Handle, Send, Create, Get, Clear, Delete, Update, RemoveTrack, Shift,
     Count, Add, AddFails, ShiftFails, Done, List, Show, ShowSong, SkipSong, Shown, Fails, Step, tableVars
<1>. QED
  BY <1>2, <1>3

LEMMA ClosedOthers ==
  ASSUME Handling, NEW e \in Clients, NEW d \in Clients \ {e}, OnlyReads(d), Handle(d), ClosedBy(e)
  PROVE  ClosedBy(e)'
<1>. SUFFICES ASSUME faults' = 0 PROVE ClosedBy(e)'
  BY DEF ClosedBy
<1>1. /\ faults = 0 /\ entries' = entries /\ at'[e] = at[e] /\ req'[e] = req[e] /\ row'[e] = row[e]
      /\ left'[e] = left[e] /\ next'[e] = next[e] /\ first'[e] = first[e]
  BY ReaderKeepsTables, OthersKept, FaultsGrow DEF Handling
<1>2. base'[e] = base[e]
  BY OthersKept DEF Handling
<1>3. Target(e)' = Target(e) /\ Position(e)' = Position(e)
  BY <1>1 DEF Target, Position
<1>. QED
  BY <1>1, <1>2, <1>3 DEF ClosedBy

NoHoles(e) == \A p \in DOMAIN entries : GaplessRows(entries[p]) \/ (at[e] = "shift" /\ p = Target(e))

\* What is common to the steps of the one editor.
Closed(e) ==
  /\ Handling /\ e \in Clients /\ NaturalIndices
  /\ GaplessRows(base[e].rows) /\ NoHoles(e)
  /\ at[e] \in {"remove", "shift"} => left[e] \in Seq(Nat)
  /\ at[e] = "shift" => \E m \in Nat : DOMAIN entries[Target(e)] = (0..m - 1) \ {Head(left[e])}
  /\ at[e] = "add" => DOMAIN entries[Target(e)] = 0..Position(e) - 1

LEMMA NoneGapless == GaplessRows(<< >>)
BY NoRows, 0 \in Nat, 0..0 - 1 = {} DEF GaplessRows

LEMMA ClosedSend ==
  ASSUME NEW e, Closed(e), NEW r \in Requests[e], Send(e, r)
  PROVE  ClosedBy(e)'
<1>1. /\ Typed /\ at'[e] = (IF r.op \in {"create", "list"} THEN r.op ELSE "get") /\ entries' = entries
      /\ base'[e] = Found(r) /\ ~Busy(e)
  BY DEF Send, Goto, Closed, Handling, Typed, tableVars
<1>2. at[e] # "shift" /\ at'[e] \notin {"remove", "shift", "add"}
  BY <1>1 DEF Busy, Answered
<1>3. GaplessRows(Found(r).rows)
  <2>1. CASE r.op \notin {"create", "list"} /\ Exists(r.id)
    <3>1. r.id \in DOMAIN entries
      BY <2>1 DEF Exists, Closed, Handling, TablesTyped
    <3>. QED
      BY <1>2, <2>1, <3>1 DEF Found, Closed, NoHoles
  <2>2. CASE ~(r.op \notin {"create", "list"} /\ Exists(r.id))
    BY <2>2, NoneGapless DEF Found, Nothing
  <2>. QED
    BY <2>1, <2>2
<1>. QED
  BY <1>1, <1>2, <1>3 DEF ClosedBy, Closed, NoHoles

\* A query that leaves the rows alone, and another that puts a playlist's rows in
\* their place.
LEMMA ClosedStill ==
  ASSUME NEW e, Closed(e), entries' = entries, base' = base, at[e] # "shift",
         at'[e] \notin {"remove", "shift", "add"}
  PROVE  ClosedBy(e)'
BY DEF ClosedBy, Closed, NoHoles

LEMMA ClosedRows ==
  ASSUME NEW e, Closed(e), NEW p \in DOMAIN entries, NEW rows, at[e] = "shift" => p = Target(e),
         entries' = [entries EXCEPT ![p] = rows], GaplessRows(rows)
  PROVE  \A q \in DOMAIN entries' : GaplessRows(entries'[q])
<1>1. DOMAIN entries' = DOMAIN entries /\ entries'[p] = rows
  OBVIOUS
<1>2. \A q \in DOMAIN entries : q # p => entries'[q] = entries[q] /\ GaplessRows(entries[q])
  BY DEF Closed, NoHoles
<1>. QED
  BY <1>1, <1>2

LEMMA ClosedCreate ==
  ASSUME NEW e, Closed(e), Create(e)
  PROVE  ClosedBy(e)'
<1>0. Typed /\ TablesTyped /\ e \in Clients
  BY DEF Closed, Handling
<1>1. /\ at[e] = "create" /\ at'[e] = "add" /\ base' = base /\ next'[e] = 1 /\ first'[e] = 0
      /\ req'[e].op = "create" /\ row'[e].id = Len(playlists) + 1
      /\ entries' = Append(entries, << >>)
  BY <1>0 DEF Create, CreatePlaylist, Step, Goto, Closed, Handling, OnRoute, RouteOf, Typed, history
<1>2. Target(e)' = Len(entries) + 1 /\ Position(e)' = 0
  BY <1>0, <1>1 DEF Target, Position, TablesTyped
<1>3. /\ DOMAIN entries' = 1..Len(entries) + 1 /\ entries'[Len(entries) + 1] = << >>
      /\ \A p \in DOMAIN entries : entries'[p] = entries[p]
      /\ DOMAIN entries = 1..Len(entries) /\ Len(entries) \in Nat
  BY <1>0, <1>1 DEF TablesTyped
<1>4. \A p \in DOMAIN entries' : GaplessRows(entries'[p])
  BY <1>1, <1>3, NoneGapless DEF Closed, NoHoles
<1>5. DOMAIN entries'[Target(e)'] = 0..Position(e)' - 1
  BY <1>2, <1>3, NoRows
<1>. QED
  BY <1>1, <1>4, <1>5 DEF ClosedBy, Closed

LEMMA ClosedClear ==
  ASSUME NEW e, Closed(e), Clear(e) \/ Delete(e)
  PROVE  ClosedBy(e)'
<1>0. Typed /\ TablesTyped /\ e \in Clients
  BY DEF Closed, Handling
<1>1. /\ at[e] \in {"replace", "delete"} /\ at'[e] \in {"add", "ok"} /\ base' = base
      /\ next'[e] = 1 /\ first'[e] = 0
      /\ Target(e) = req[e].id /\ Target(e)' = Target(e) /\ Target(e) \in DOMAIN entries
      /\ entries' = [entries EXCEPT ![req[e].id] = << >>]
  <2>1. RouteOf(e)
    BY <1>0 DEF Closed, Handling, OnRoute
  <2>2. /\ at[e] \in {"replace", "delete"} /\ at'[e] \in {"add", "ok"} /\ base' = base
        /\ next' = next /\ first' = first /\ req' = req /\ row' = row
        /\ entries' = [entries EXCEPT ![req[e].id] = << >>]
    BY <1>0 DEF Clear, ClearPlaylistTracks, Delete, DeletePlaylist, Step, Goto, Typed, handlerVars, history
  <2>3. Target(e) = req[e].id /\ Target(e)' = Target(e) /\ Target(e) \in DOMAIN entries
    BY <1>0, <2>1, <2>2 DEF RouteOf, Target, Working, TablesTyped
  <2>. QED
    BY <2>1, <2>2, <2>3 DEF RouteOf
<1>2. \A p \in DOMAIN entries' : GaplessRows(entries'[p])
  BY <1>1, NoneGapless, ClosedRows
<1>3. DOMAIN entries'[Target(e)'] = 0..Position(e)' - 1
  BY <1>1, NoRows DEF Position
<1>. QED
  BY <1>1, <1>2, <1>3 DEF ClosedBy, Closed

LEMMA ClosedUpdate ==
  ASSUME NEW e, Closed(e), Update(e)
  PROVE  ClosedBy(e)'
<1>0. Typed /\ TablesTyped /\ e \in Clients
  BY DEF Closed, Handling
<1>1. /\ at[e] = "update" /\ at'[e] \in {"failed", "remove"} /\ base' = base /\ entries' = entries
      /\ at'[e] = "remove" => left'[e] = Truncated(Descending(req[e].remove)) /\ Bad \notin Range(req[e].remove)
      /\ req[e] \in Requests[e]
  BY <1>0 DEF Update, UpdatePlaylist, Goto, Closed, Handling, OnRoute, RouteOf, Typed, tableVars, history
<1>2. ASSUME at'[e] = "remove" PROVE left'[e] \in Seq(Nat)
  <2>. DEFINE s == req[e].remove
  <2>1. s \in Seq(Int) /\ Range(s) \subseteq 0..Width - 1
    <3>1. s \in Seq((0..Width - 1) \cup {Bad}) /\ Bad \notin Range(s) /\ Width \in Nat
      BY <1>0, <1>1, <1>2, PlaylistsAssumption DEF Closed, NaturalIndices
    <3>2. \A i \in DOMAIN s : s[i] \in 0..Width - 1
      BY <3>1 DEF Range
    <3>3. Range(s) \subseteq 0..Width - 1
      BY <3>2 DEF Range
    <3>. QED
      BY <3>1, <3>2, <3>3
  <2>2. left'[e] = Truncated(Descending(s))
    BY <1>1, <1>2
  <2>. HIDE DEF s
  <2>3. Descending(s) \in Seq(Int) /\ Range(Descending(s)) = Range(s)
    BY ONLY <2>1, DescendingOrder
  <2>4. \A i \in DOMAIN Descending(s) : Descending(s)[i] \in 0..Width - 1
    BY <2>1, <2>3 DEF Range
  <2>5. Truncated(Descending(s)) = Descending(s)
    BY <2>3, <2>4, TruncatedOf
  <2>. QED
    BY <2>2, <2>3, <2>4, <2>5, PlaylistsAssumption
<1>. QED
  BY <1>1, <1>2 DEF ClosedBy, Closed, NoHoles

LEMMA ClosedRemove ==
  ASSUME NEW e, Closed(e), RemoveTrack(e)
  PROVE  ClosedBy(e)'
<1>0. Typed /\ TablesTyped /\ e \in Clients /\ RouteOf(e)
  BY DEF Closed, Handling, OnRoute
<1>. DEFINE d == Head(left[e])
            rows == Restrict(entries[Target(e)], DOMAIN entries[Target(e)] \ {d})
<1>1. /\ at[e] = "remove" /\ at'[e] = "shift" /\ base' = base /\ left' = left /\ left[e] # << >>
      /\ req' = req /\ row' = row
  BY <1>0 DEF RemoveTrack, Step, Goto, Typed, handlerVars, history
<1>2. Target(e) = req[e].id /\ Target(e)' = Target(e) /\ Target(e) \in DOMAIN entries
  BY <1>0, <1>1 DEF RouteOf, Target, Working, TablesTyped
<1>3. entries' = [entries EXCEPT ![Target(e)] = rows]
  BY <1>2 DEF RemoveTrack, RemovePlaylistTrackAtPosition
<1>4. left[e] \in Seq(Nat)
  BY <1>1 DEF Closed
<1>5. PICK m \in Nat : DOMAIN entries[Target(e)] = 0..m - 1
  BY <1>1, <1>2 DEF Closed, NoHoles, GaplessRows
<1>6. DOMAIN rows = (0..m - 1) \ {d}
  <2>. HIDE DEF d
  <2>1. entries[Target(e)] \in TrackRows
    BY <1>0, <1>2 DEF TablesTyped
  <2>. QED
    BY <1>5, <2>1, LessRows
<1>. HIDE DEF rows
<1>7. /\ DOMAIN entries' = DOMAIN entries /\ entries'[Target(e)] = rows
      /\ \A q \in DOMAIN entries : q # Target(e) => entries'[q] = entries[q] /\ GaplessRows(entries[q])
  BY <1>1, <1>2, <1>3 DEF Closed, NoHoles
<1>8. \E k \in Nat : DOMAIN entries'[Target(e)'] = (0..k - 1) \ {Head(left'[e])}
  BY <1>1, <1>2, <1>6, <1>7
<1>9. \A q \in DOMAIN entries' : GaplessRows(entries'[q]) \/ q = Target(e)'
  BY <1>2, <1>7
<1>. QED
  BY <1>1, <1>4, <1>8, <1>9 DEF ClosedBy, Closed

LEMMA ClosedShift ==
  ASSUME NEW e, Closed(e), Shift(e)
  PROVE  ClosedBy(e)'
<1>0. Typed /\ TablesTyped /\ e \in Clients /\ RouteOf(e)
  BY DEF Closed, Handling, OnRoute
<1>. DEFINE d == Head(left[e])
            old == entries[Target(e)]
<1>1. /\ at[e] = "shift" /\ at'[e] = "remove" /\ base' = base /\ left'[e] = Tail(left[e]) /\ left[e] # << >>
  BY <1>0 DEF Shift, Step, Goto, Typed, history, RouteOf
<1>2. Target(e) = req[e].id /\ Target(e) \in DOMAIN entries
  BY <1>0, <1>1 DEF RouteOf, Target, Working, TablesTyped
<1>3. /\ entries' = [entries EXCEPT ![Target(e)] = Shifted(old, d)]
      /\ \A q, r \in DOMAIN old : Moved(q, d) = Moved(r, d) => q = r
  BY <1>2 DEF Shift, ShiftPlaylistTracksAfterPosition, Movable
<1>4. left[e] \in Seq(Nat) /\ Tail(left[e]) \in Seq(Nat) /\ d \in Nat
  <2>1. left[e] \in Seq(Nat)
    BY <1>1 DEF Closed
  <2>. QED
    BY <1>1, <2>1
<1>5. PICK m \in Nat : DOMAIN old = (0..m - 1) \ {d}
  BY <1>1 DEF Closed
<1>6. GaplessRows(Shifted(old, d))
  <2>1. old \in TrackRows
    BY <1>0, <1>2 DEF TablesTyped
  <2>. QED
    BY <1>3, <1>4, <1>5, <2>1, ShiftCloses
<1>7. \A q \in DOMAIN entries' : GaplessRows(entries'[q])
  BY <1>2, <1>3, <1>6, ClosedRows
<1>. QED
  BY <1>1, <1>4, <1>7 DEF ClosedBy, Closed

LEMMA ClosedCount ==
  ASSUME NEW e, Closed(e), Count(e)
  PROVE  ClosedBy(e)'
<1>0. Typed /\ TablesTyped /\ e \in Clients /\ RouteOf(e)
  BY DEF Closed, Handling, OnRoute
<1>1. /\ at[e] = "remove" /\ at'[e] = "add" /\ base' = base /\ entries' = entries /\ next' = next
      /\ req' = req /\ row' = row /\ first'[e] = CountPlaylistTracks(req[e].id)
  BY <1>0 DEF Count, Step, Goto, Typed, tableVars, history
<1>2. /\ Target(e) = req[e].id /\ Target(e)' = Target(e) /\ Target(e) \in DOMAIN entries
      /\ next[e] = 1
  BY <1>0, <1>1 DEF RouteOf, Target, Working, TablesTyped
<1>3. PICK m \in Nat : DOMAIN entries[Target(e)] = 0..m - 1
  BY <1>1, <1>2 DEF Closed, NoHoles, GaplessRows
<1>4. Cardinality(DOMAIN entries[Target(e)]) = m
  BY <1>3, Counts
<1>5. Position(e)' = m
  BY <1>1, <1>2, <1>4 DEF Position, CountPlaylistTracks
<1>. QED
  BY <1>1, <1>2, <1>3, <1>5 DEF ClosedBy, Closed, NoHoles

LEMMA ClosedAdd ==
  ASSUME NEW e, Closed(e), Add(e)
  PROVE  ClosedBy(e)'
<1>0. Typed /\ TablesTyped /\ e \in Clients /\ RouteOf(e)
  BY DEF Closed, Handling, OnRoute
<1>. DEFINE old == entries[Target(e)]
            k == Position(e)
            rows == [q \in DOMAIN old \cup {k} |-> IF q = k THEN req[e].songs[next[e]] ELSE old[q]]
<1>1. /\ at[e] = "add" /\ at'[e] = "add" /\ base' = base /\ next'[e] = next[e] + 1 /\ first' = first
      /\ req' = req /\ row' = row
  BY <1>0 DEF Add, Typed, history
<1>2. /\ Target(e)' = Target(e) /\ Target(e) \in DOMAIN entries
      /\ entries' = [entries EXCEPT ![Target(e)] = rows]
  <2>1. Exists(Target(e))
    BY DEF Add, AddPlaylistTrack, Insertable
  <2>2. Target(e) \in DOMAIN entries
    BY <1>0, <2>1 DEF Exists, TablesTyped
  <2>. QED
    BY <1>1, <2>2 DEF Add, AddPlaylistTrack, Target
<1>3. k \in Nat /\ Position(e)' = k + 1
  BY <1>0, <1>1 DEF Typed, Position
<1>4. DOMAIN old = 0..k - 1
  BY <1>1 DEF Closed
<1>. HIDE DEF k
<1>5. DOMAIN rows = 0..k
  BY <1>3, <1>4
<1>. HIDE DEF rows
<1>6. GaplessRows(rows)
  <2>1. k + 1 \in Nat /\ DOMAIN rows = 0..(k + 1) - 1
    BY <1>3, <1>5
  <2>. QED
    BY <2>1 DEF GaplessRows
<1>7. \A q \in DOMAIN entries' : GaplessRows(entries'[q])
  BY <1>1, <1>2, <1>6, ClosedRows
<1>8. DOMAIN entries'[Target(e)'] = 0..Position(e)' - 1
  BY <1>2, <1>3, <1>5
<1>. QED
  BY <1>1, <1>7, <1>8 DEF ClosedBy, Closed

LEMMA ClosedOwn ==
  ASSUME Handling, NaturalIndices, NEW e \in Clients, Handle(e), ClosedBy(e)
  PROVE  ClosedBy(e)'
<1>. SUFFICES ASSUME faults' = 0 PROVE ClosedBy(e)'
  BY DEF ClosedBy
<1>1. faults = 0 /\ faults \in Nat /\ Typed /\ RouteOf(e)
  BY FaultsGrow DEF Handling, Typed, OnRoute
<1>2. Closed(e)
  BY <1>1 DEF ClosedBy, Closed, NoHoles
<1>3. CASE Get(e) \/ AddFails(e) \/ Done(e) \/ List(e) \/ Show(e) \/ ShowSong(e) \/ Shown(e)
  <2>1. entries' = entries /\ base' = base /\ at[e] # "shift"
    BY <1>3 DEF Get, AddFails, ShiftFails, Done, List, Show, ShowSong, Shown, Step, tableVars, history
  <2>2. at'[e] \notin {"remove", "shift", "add"}
    <3>1. CASE Get(e)
      <4>1. at'[e] \in {req[e].op, "failed"} /\ req[e] \in Requests[e]
        BY <1>1, <3>1 DEF Get, Goto, Typed, RouteOf
      <4>. QED
        BY <4>1, PlaylistsAssumption
    <3>2. CASE ~Get(e)
      BY <1>1, <1>3, <3>2 DEF AddFails, ShiftFails, Done, List, Show, ShowSong, Shown, Step, Goto, Typed
    <3>. QED
      BY <3>1, <3>2
  <2>. QED
    BY <1>2, <2>1, <2>2, ClosedStill
<1>4. ~Fails(e) /\ ~SkipSong(e) /\ ~ShiftFails(e)
  <2>1. ~Fails(e) /\ ~SkipSong(e)
    BY <1>1 DEF Fails, SkipSong
  <2>2. ASSUME at[e] = "shift" PROVE Movable(req[e].id, Head(left[e]))
    <3>1. /\ left[e] \in Seq(Nat) /\ left[e] # << >> /\ Target(e) = req[e].id
          /\ \E m \in Nat : DOMAIN entries[Target(e)] = (0..m - 1) \ {Head(left[e])}
      BY <1>1, <1>2, <2>2 DEF Closed, RouteOf, Target
    <3>2. Head(left[e]) \in Int
      BY <3>1
    <3>3. PICK m \in Nat : DOMAIN entries[req[e].id] = (0..m - 1) \ {Head(left[e])}
      BY <3>1
    <3>. QED
      BY <3>2, <3>3, FreeShift
  <2>. QED
    BY <2>1, <2>2 DEF ShiftFails, Step
<1>5. CASE \E r \in Requests[e] : Send(e, r)
  BY <1>2, <1>5, ClosedSend
<1>6. CASE Create(e) \/ Clear(e) \/ Delete(e) \/ Update(e) \/ RemoveTrack(e) \/ Shift(e) \/ Count(e) \/ Add(e)
  BY <1>2, <1>6, ClosedCreate, ClosedClear, ClosedUpdate, ClosedRemove, ClosedShift, ClosedCount, ClosedAdd
<1>. QED
  BY <1>3, <1>4, <1>5, <1>6 DEF Handle

LEMMA ClosedInit ==
  ASSUME Init, NEW e \in Clients
  PROVE  ClosedBy(e)
<1>1. at[e] = "idle" /\ GaplessRows(base[e].rows)
  BY NoneGapless DEF Init, Nothing
<1>2. \A p \in DOMAIN entries : GaplessRows(entries[p])
  <2>1. Len(InitialSongs) \in Nat /\ DOMAIN Rows(InitialSongs) = 0..Len(InitialSongs) - 1
    BY PlaylistsAssumption DEF Rows
  <2>2. GaplessRows(Rows(InitialSongs))
    BY <2>1 DEF GaplessRows
  <2>. QED
    BY <2>2 DEF Init, TablesInit
<1>. QED
  BY <1>1, <1>2 DEF ClosedBy

\* With one client that edits, however many read, and with indices that are natural
\* numbers and fit: as long as nothing fails, a proper request is answered "ok" and leaves
\* exactly the list it asked for, and one about a playlist that is not there or
\* somebody else's is refused and leaves the list alone.
THEOREM OneEditorIsApplied ==
  ASSUME NaturalIndices, NEW editor \in Clients, \A c \in Clients \ {editor} : OnlyReads(c)
  PROVE  Spec => []Applied
<1>. DEFINE I == Handling /\ AppliedInv /\ ClosedBy(editor)
<1>1. Init => I
  BY AppliedInit, HandlingInit, ClosedInit
<1>2. I /\ [Next]_vars => I'
  <2>. SUFFICES ASSUME I, [Next]_vars PROVE I'
    OBVIOUS
  <2>1. Handling' /\ AppliedInv'
    BY HandlingNext, AppliedNext
  <2>2. ASSUME NEW d \in Clients, Handle(d) PROVE ClosedBy(editor)'
    BY <2>2, ClosedOwn, ClosedOthers
  <2>3. ASSUME UNCHANGED vars PROVE ClosedBy(editor)'
    BY <2>3 DEF vars, handlerVars, history, tableVars, ClosedBy, Target, Position
  <2>4. ClosedBy(editor)'
    BY <2>2, <2>3 DEF Next
  <2>. QED
    BY <2>1, <2>4
<1>3. I => Applied
  <2>. SUFFICES ASSUME I, faults = 0, NEW c \in Clients, alone[c], Answered(c) PROVE AppliedTo(c)
    BY DEF Applied
  <2>1. c = editor
    BY DEF Handling, AloneInv, OnRoute, RouteOf, OnlyReads
  <2>2. GaplessRows(base[c].rows)
    BY <2>1 DEF ClosedBy
  <2>. QED
    BY <2>2, AnsweredApplied
<1>. QED
  BY <1>1, <1>2, <1>3, PTL DEF Spec

-----------------------------------------------------------------------------
(* Clients that add songs, and others that read: counting in one query and *)
(* inserting in another does no harm as long as nobody takes songs away.   *)

AddsOnly ==
  \A c \in Clients : \A r \in Requests[c] : r.op \in {"update"} \cup Reads /\ r.remove = << >>

NoneLeft == \A c \in Clients : left[c] = << >>

Gapless ==
  \A p \in DOMAIN entries :
    CountPlaylistTracks(p) \in Nat /\ DOMAIN entries[p] = 0..CountPlaylistTracks(p) - 1

\* An add stands at the end of the list or, behind another, before it.
Behind ==
  \A c \in Clients : at[c] = "add" => Position(c) <= CountPlaylistTracks(req[c].id)

\* What a request has inserted is where it put it.
Inserted ==
  \A c \in Clients : at[c] \in {"add", "ok"} /\ req[c].op = "update" =>
    /\ req[c].id \in DOMAIN entries
    /\ \A i \in 1..next[c] - 1 :
         /\ first[c] + i - 1 \in DOMAIN entries[req[c].id]
         /\ entries[req[c].id][first[c] + i - 1] = req[c].songs[i]
    /\ at[c] = "ok" => next[c] > Len(req[c].songs)

AddsInv == NoneLeft /\ Gapless /\ Behind /\ Inserted

LEMMA DescendingNone == Descending(<< >>) = << >>
<1>1. << >> \in Seq(Int)
  OBVIOUS
<1>2. Descending(<< >>) \in Seq(Int) /\ Len(Descending(<< >>)) = Len(<< >>)
  BY <1>1, DescendingOrder
<1>. QED
  BY <1>2

LEMMA AddsInit == Init => AddsInv
<1>. SUFFICES ASSUME Init PROVE AddsInv
  OBVIOUS
<1>1. DOMAIN entries = {1} /\ entries[1] = Rows(InitialSongs)
  BY DEF Init, TablesInit
<1>2. DOMAIN entries[1] = 0..Len(InitialSongs) - 1 /\ Len(InitialSongs) \in Nat
  BY <1>1, PlaylistsAssumption DEF Rows
<1>3. Cardinality(DOMAIN entries[1]) = Len(InitialSongs)
  BY <1>2, Counts
<1>4. Gapless
  BY <1>1, <1>2, <1>3 DEF Gapless, CountPlaylistTracks
<1>5. NoneLeft /\ Behind /\ Inserted
  BY DEF Init, NoneLeft, Behind, Inserted
<1>. QED
  BY <1>4, <1>5 DEF AddsInv

\* The steps of those who only add and read, but for the insert.
LEMMA AddsSteps ==
  ASSUME Handling, AddsOnly, NoneLeft, NEW c \in Clients, Handle(c), ~Add(c)
  PROVE  /\ entries' = entries /\ left'[c] = << >>
         /\ at'[c] = "add" => /\ req'[c].id \in DOMAIN entries
                              /\ next'[c] = 1 /\ first'[c] = CountPlaylistTracks(req'[c].id)
         /\ at'[c] = "ok" /\ req'[c].op = "update" =>
              /\ at[c] = "add" /\ req'[c] = req[c] /\ next'[c] = next[c] /\ first'[c] = first[c]
              /\ next[c] > Len(req[c].songs)
<1>. USE DEF Step, Goto
<1>1. /\ Typed /\ RouteOf(c) /\ left[c] = << >> /\ DOMAIN entries = DOMAIN playlists
      /\ at[c] # "idle" => req[c].op \in {"update"} \cup Reads /\ req[c].remove = << >>
  BY DEF Handling, OnRoute, RouteOf, NoneLeft, AddsOnly, TablesTyped
<1>2. CASE \E r \in Requests[c] : Send(c, r)
  <2>1. PICK r \in Requests[c] : Send(c, r)
    BY <1>2
  <2>2. at'[c] \notin {"add", "ok"} /\ entries' = entries /\ left'[c] = << >>
    BY <1>1, <2>1 DEF Send, Typed, tableVars
  <2>. QED
    BY <2>2
<1>3. CASE Update(c)
  <2>1. Truncated(Descending(req[c].remove)) = << >>
    BY <1>1, <1>3, DescendingNone DEF Update, Truncated
  <2>2. at'[c] \notin {"add", "ok"} /\ entries' = entries /\ left'[c] = << >>
    BY <1>1, <1>3, <2>1 DEF Update, UpdatePlaylist, Typed, tableVars
  <2>. QED
    BY <2>2
<1>4. CASE Count(c)
  <2>1. at[c] = "remove" /\ at'[c] = "add" /\ entries' = entries /\ left' = left /\ next' = next /\ req' = req
        /\ first'[c] = CountPlaylistTracks(req[c].id)
    BY <1>1, <1>4 DEF Count, Typed, tableVars
  <2>2. req[c].id \in DOMAIN entries /\ next[c] = 1
    BY <1>1, <2>1 DEF RouteOf, Working, Target
  <2>. QED
    BY <1>1, <2>1, <2>2
<1>5. CASE Get(c) \/ Fails(c)
  <2>1. at'[c] \in {"failed", "update"} \cup Reads /\ entries' = entries /\ left' = left
    BY <1>1, <1>5 DEF Get, Fails, Busy, Typed, handlerVars, tableVars
  <2>. QED
    BY <1>1, <2>1 DEF Reads
<1>6. CASE AddFails(c) \/ ShiftFails(c) \/ Done(c)
  BY <1>1, <1>6 DEF AddFails, ShiftFails, Done, Typed, handlerVars, tableVars
<1>7. CASE List(c) \/ Show(c) \/ ShowSong(c) \/ SkipSong(c) \/ Shown(c)
  <2>1. /\ at[c] \in {"list", "show", "song"} /\ at'[c] \in {"ok", "song"} /\ entries' = entries
        /\ left' = left /\ req' = req
    BY <1>1, <1>7 DEF List, Show, ShowSong, SkipSong, Shown, Typed, handlerVars, tableVars
  <2>2. req[c].op # "update"
    BY <1>1, <2>1 DEF RouteOf
  <2>. QED
    BY <1>1, <2>1, <2>2
<1>8. ~(Create(c) \/ Clear(c) \/ Delete(c) \/ RemoveTrack(c) \/ Shift(c))
  BY <1>1 DEF Create, Clear, Delete, RemoveTrack, Shift, RouteOf, Reads
<1>. QED
  BY <1>2, <1>3, <1>4, <1>5, <1>6, <1>7, <1>8 DEF Handle

LEMMA AddsStill ==
  ASSUME Handling, AddsOnly, AddsInv, NEW c \in Clients, Handle(c), ~Add(c)
  PROVE  AddsInv'
<1>1. /\ entries' = entries /\ left'[c] = << >>
      /\ at'[c] = "add" => /\ req'[c].id \in DOMAIN entries
                           /\ next'[c] = 1 /\ first'[c] = CountPlaylistTracks(req'[c].id)
      /\ at'[c] = "ok" /\ req'[c].op = "update" =>
           /\ at[c] = "add" /\ req'[c] = req[c] /\ next'[c] = next[c] /\ first'[c] = first[c]
           /\ next[c] > Len(req[c].songs)
  BY AddsSteps DEF AddsInv
<1>2. ASSUME NEW d \in Clients \ {c}
      PROVE  /\ at'[d] = at[d] /\ req'[d] = req[d] /\ left'[d] = left[d]
             /\ next'[d] = next[d] /\ first'[d] = first[d]
  BY OthersKept DEF Handling
<1>3. \A p : CountPlaylistTracks(p)' = CountPlaylistTracks(p)
  BY <1>1 DEF CountPlaylistTracks
<1>4. NoneLeft' /\ Gapless'
  BY <1>1, <1>2, <1>3 DEF AddsInv, NoneLeft, Gapless
<1>5. Behind'
  <2>. SUFFICES ASSUME NEW d \in Clients, at'[d] = "add"
                PROVE  Position(d)' <= CountPlaylistTracks(req'[d].id)
    BY <1>3 DEF Behind
  <2>1. CASE d = c
    <3>1. CountPlaylistTracks(req'[c].id) \in Nat
      BY <1>1, <2>1 DEF AddsInv, Gapless
    <3>. QED
      BY <1>1, <2>1, <3>1 DEF Position
  <2>2. CASE d # c
    BY <1>2, <2>2 DEF AddsInv, Behind, Position
  <2>. QED
    BY <2>1, <2>2
<1>6. Inserted'
  <2>. SUFFICES ASSUME NEW d \in Clients, at'[d] \in {"add", "ok"}, req'[d].op = "update"
                PROVE  /\ req'[d].id \in DOMAIN entries
                       /\ \A i \in 1..next'[d] - 1 :
                            /\ first'[d] + i - 1 \in DOMAIN entries[req'[d].id]
                            /\ entries[req'[d].id][first'[d] + i - 1] = req'[d].songs[i]
                       /\ at'[d] = "ok" => next'[d] > Len(req'[d].songs)
    BY <1>1 DEF Inserted
  <2>1. CASE d = c /\ at'[d] = "add"
    BY <1>1, <2>1
  <2>2. CASE d = c /\ at'[d] = "ok"
    BY <1>1, <2>2 DEF AddsInv, Inserted
  <2>3. CASE d # c
    BY <1>2, <2>3 DEF AddsInv, Inserted
  <2>. QED
    BY <2>1, <2>2, <2>3
<1>. QED
  BY <1>4, <1>5, <1>6 DEF AddsInv

\* A song is inserted: the list is one longer, and nobody's songs are touched.
LEMMA AddsOne ==
  ASSUME Handling, AddsOnly, AddsInv, NEW c \in Clients, Add(c)
  PROVE  AddsInv'
<1>. DEFINE p == req[c].id
            n == CountPlaylistTracks(p)
<1>1. /\ at[c] = "add" /\ next[c] <= Len(req[c].songs) /\ req[c].op = "update" /\ p \in DOMAIN entries
      /\ Position(c) \notin DOMAIN entries[p]
      /\ entries' = [entries EXCEPT ![p] = [q \in DOMAIN @ \cup {Position(c)} |->
                       IF q = Position(c) THEN req[c].songs[next[c]] ELSE @[q]]]
      /\ next' = [next EXCEPT ![c] = @ + 1]
      /\ UNCHANGED <<at, req, left, first, playlists>>
  <2>1. RouteOf(c) /\ TablesTyped /\ at[c] = "add"
    BY DEF Handling, OnRoute, Add
  <2>2. req[c].op = "update"
    BY <2>1 DEF AddsOnly, RouteOf, Reads
  <2>. QED
    BY <2>1, <2>2 DEF Add, AddPlaylistTrack, Insertable, Exists, Target, TablesTyped
<1>2. n \in Nat /\ DOMAIN entries[p] = 0..n - 1 /\ Position(c) \in Nat /\ Position(c) <= n
  BY <1>1 DEF AddsInv, Gapless, Behind, Handling, Typed, Position
<1>3. Position(c) = n
  BY <1>1, <1>2
<1>9. UNCHANGED <<at, req, left, first>>
  BY <1>1
<1>4. /\ DOMAIN entries' = DOMAIN entries
      /\ DOMAIN entries'[p] = 0..n
      /\ entries'[p][n] = req[c].songs[next[c]]
      /\ \A q \in 0..n - 1 : entries'[p][q] = entries[p][q]
      /\ \A q \in DOMAIN entries \ {p} : entries'[q] = entries[q]
  BY <1>1, <1>2, <1>3
<1>5. Cardinality(DOMAIN entries'[p]) = n + 1
  <2>1. Cardinality(0..(n + 1) - 1) = n + 1
    BY <1>2, Counts
  <2>2. 0..(n + 1) - 1 = 0..n
    BY <1>2
  <2>. HIDE DEF n, p
  <2>. QED
    BY <1>4, <2>1, <2>2
<1>6. \A q \in DOMAIN entries \ {p} : Cardinality(DOMAIN entries'[q]) = CountPlaylistTracks(q)
  BY <1>4 DEF CountPlaylistTracks
<1>7. Gapless'
  <2>. SUFFICES ASSUME NEW q \in DOMAIN entries
                PROVE  /\ Cardinality(DOMAIN entries'[q]) \in Nat
                       /\ DOMAIN entries'[q] = 0..Cardinality(DOMAIN entries'[q]) - 1
    BY <1>4 DEF Gapless, CountPlaylistTracks
  <2>. HIDE DEF n
  <2>1. CASE q = p
    BY <1>2, <1>4, <1>5, <2>1
  <2>2. CASE q # p
    BY <1>4, <1>6, <2>2 DEF AddsInv, Gapless
  <2>. QED
    BY <2>1, <2>2
<1>8. \A d \in Clients : /\ next'[d] = (IF d = c THEN next[d] + 1 ELSE next[d])
                         /\ next[d] \in Nat \ {0} /\ first[d] \in Nat
  BY <1>1 DEF Handling, Typed
<1>10. ASSUME NEW d \in Clients, at[d] = "add" PROVE req[d].op = "update" /\ req[d].id \in DOMAIN entries
  <2>1. req[d].op = "update"
    BY <1>10 DEF Handling, OnRoute, RouteOf, AddsOnly, Reads
  <2>. QED
    BY <1>10, <2>1 DEF AddsInv, Inserted
<1>11. Behind'
  <2>. SUFFICES ASSUME NEW d \in Clients, at'[d] = "add"
                PROVE  first'[d] + next'[d] - 1 <= Cardinality(DOMAIN entries'[req'[d].id])
    BY DEF Behind, Position, CountPlaylistTracks
  <2>1. /\ req[d].id \in DOMAIN entries
        /\ first[d] + next[d] - 1 <= CountPlaylistTracks(req[d].id)
        /\ CountPlaylistTracks(req[d].id) \in Nat
    BY <1>9, <1>10 DEF AddsInv, Behind, Gapless, Position
  <2>2. CASE d = c
    BY <1>2, <1>3, <1>5, <1>8, <1>9, <2>1, <2>2 DEF Position, CountPlaylistTracks
  <2>3. CASE d # c
    <3>. HIDE DEF n, p
    <3>1. req'[d] = req[d] /\ next'[d] = next[d] /\ first'[d] = first[d]
      BY <1>8, <1>9, <2>3
    <3>2. CASE req[d].id = p
      BY <1>2, <1>5, <1>8, <2>1, <3>1, <3>2 DEF n
    <3>3. CASE req[d].id # p
      BY <1>6, <2>1, <3>1, <3>3
    <3>. QED
      BY <3>2, <3>3
  <2>. QED
    BY <2>2, <2>3
<1>12. Inserted'
  <2>. SUFFICES ASSUME NEW d \in Clients, at'[d] \in {"add", "ok"}, req'[d].op = "update"
                PROVE  /\ req'[d].id \in DOMAIN entries'
                       /\ \A i \in 1..next'[d] - 1 :
                            /\ first'[d] + i - 1 \in DOMAIN entries'[req'[d].id]
                            /\ entries'[req'[d].id][first'[d] + i - 1] = req'[d].songs[i]
                       /\ at'[d] = "ok" => next'[d] > Len(req'[d].songs)
    BY DEF Inserted
  <2>. DEFINE q == req[d].id
  <2>1. /\ q \in DOMAIN entries
        /\ \A i \in 1..next[d] - 1 :
             /\ first[d] + i - 1 \in DOMAIN entries[q]
             /\ entries[q][first[d] + i - 1] = req[d].songs[i]
        /\ at[d] = "ok" => next[d] > Len(req[d].songs)
    BY <1>9 DEF AddsInv, Inserted
  <2>2. \A k \in DOMAIN entries[q] : k \in DOMAIN entries'[q] /\ entries'[q][k] = entries[q][k]
    <3>. HIDE DEF n, p, q
    <3>1. CASE q = p
      BY <1>2, <1>4, <3>1
    <3>2. CASE q # p
      BY <1>4, <2>1, <3>2
    <3>. QED
      BY <3>1, <3>2
  <2>3. \A i \in 1..next[d] - 1 :
          /\ first[d] + i - 1 \in DOMAIN entries'[q]
          /\ entries'[q][first[d] + i - 1] = req[d].songs[i]
    BY <2>1, <2>2
  <2>4. CASE d = c
    <3>1. \A i \in 1..next'[d] - 1 : i # next[d] => i \in 1..next[d] - 1
      BY <1>8, <2>4
    <3>2. first[d] + next[d] - 1 = n
      BY <1>3, <2>4 DEF Position
    <3>3. n \in DOMAIN entries'[q] /\ entries'[q][n] = req[d].songs[next[d]] /\ at[d] = "add"
      BY <1>1, <1>2, <1>4, <2>4
    <3>. QED
      BY <1>4, <1>9, <2>1, <2>3, <3>1, <3>2, <3>3
  <2>5. CASE d # c
    BY <1>4, <1>8, <1>9, <2>1, <2>3, <2>5
  <2>. QED
    BY <2>4, <2>5
<1>13. NoneLeft'
  BY <1>9 DEF AddsInv, NoneLeft
<1>. QED
  BY <1>7, <1>11, <1>12, <1>13 DEF AddsInv

LEMMA AddsInvariant ==
  ASSUME AddsOnly
  PROVE  Spec => [](Handling /\ AddsInv)
<1>1. Init => Handling /\ AddsInv
  BY HandlingInit, AddsInit
<1>2. Handling /\ AddsInv /\ [Next]_vars => (Handling /\ AddsInv)'
  <2>. SUFFICES ASSUME Handling, AddsInv, [Next]_vars PROVE AddsInv'
    BY HandlingNext
  <2>1. ASSUME NEW c \in Clients, Handle(c) PROVE AddsInv'
    BY <2>1, AddsStill, AddsOne
  <2>2. CASE UNCHANGED vars
    BY <2>2 DEF vars, handlerVars, tableVars, AddsInv, NoneLeft, Gapless, Behind, Inserted, Position,
                CountPlaylistTracks
  <2>. QED
    BY <2>1, <2>2 DEF Next
<1>. QED
  BY <1>1, <1>2, PTL DEF Spec

\* However many clients count first and insert later, positions stay without a
\* hole: the key of playlist_tracks refuses who comes second.
THEOREM AddsDense ==
  ASSUME AddsOnly
  PROVE  Spec => []Dense
<1>1. AddsInv => Dense
  BY DEF AddsInv, Gapless, Dense
<1>. QED
  BY <1>1, AddsInvariant, PTL

\* The songs of an acknowledged add stay where it put them.
THEOREM AcknowledgedAdds ==
  ASSUME AddsOnly
  PROVE  Spec => []AddsKept
<1>1. Handling /\ AddsInv => AddsKept
  <2>. SUFFICES ASSUME Handling, AddsInv, NEW c \in Clients, at[c] = "ok", req[c].op = "update",
                       NEW i \in DOMAIN req[c].songs
                PROVE  entries[req[c].id][first[c] + i - 1] = req[c].songs[i]
    BY DEF AddsKept
  <2>1. req[c].songs \in Seq(Songs \cup {Bad})
    BY SongsTyped
  <2>2. i \in 1..next[c] - 1
    BY <2>1 DEF AddsInv, Inserted, Handling, Typed
  <2>. QED
    BY <2>2 DEF AddsInv, Inserted
<1>. QED
  BY <1>1, AddsInvariant, PTL
=============================================================================
