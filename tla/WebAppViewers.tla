---------------------------- MODULE WebAppViewers ----------------------------
(***************************************************************************)
(* What the parts of the web app that show results promise for every value *)
(* of their constants: the pixel under the pointer gets its tile, videos   *)
(* that play together show the same frame, and in a comparison results     *)
(* keep the color and the name they are shown with.                        *)
(***************************************************************************)
EXTENDS WebApp, SequenceTheorems, FiniteSetTheorems, TLAPS

LEMMA StepsOfViewers ==
    ASSUME [AppNext]_app
    PROVE  [Seeks!Next]_videos /\ [Pixels!Next]_pixels /\ [Refs!Next]_refs
<1>1. CASE UNCHANGED app
  BY <1>1 DEF app
<1>2. ASSUME NEW part \in Parts, StepOf(part)
      PROVE  [Seeks!Next]_videos /\ [Pixels!Next]_pixels /\ [Refs!Next]_refs
  BY <1>2, Zenon DEF StepOf
<1> QED
  BY <1>1, <1>2 DEF AppNext

-----------------------------------------------------------------------------
(***************************************************************************)
(* pixelTiles: the tiles that are held, and the one the pointer waits for. *)
(***************************************************************************)
Tile == [key : Tiles, read : 1..MaxFetches, status : {"loading", "ready", "error"}, old : BOOLEAN]
Slot == [busy : BOOLEAN, read : 0..MaxFetches, next : SUBSET Tiles]
KeysIn(q) == {q[i].key : i \in DOMAIN q}

PixelTypes ==
    /\ tiles \in Seq(Tile)
    /\ Len(tiles) <= MAX_TILES
    /\ fetched \in 0..MaxFetches
    /\ inflight \subseteq 1..fetched
    /\ latest \in Slot
    /\ \A j, k \in latest.next : j = k
    /\ pointer \subseteq Tiles
    /\ evicted \in BOOLEAN

PixelInv ==
    /\ PixelTypes
    /\ evicted \/ pointer \subseteq KeysIn(tiles) \/ (latest.busy /\ pointer \subseteq latest.next)

LEMMA KeysAre == Pixels!HeldKeys = KeysIn(tiles)
BY DEF Pixels!HeldKeys, Pixels!Held, KeysIn

(* The oldest go: what was added last stays.                               *)
LEMMA KeptIs ==
    ASSUME AppAssumption, NEW q \in Seq(Tile), q # <<>>
    PROVE  /\ Pixels!Kept(q) \in Seq(Tile) /\ Len(Pixels!Kept(q)) <= MAX_TILES
           /\ Len(q) <= MAX_TILES => Pixels!Kept(q) = q
           /\ q[Len(q)].key \in KeysIn(Pixels!Kept(q))
<1> DEFINE n == Len(q)
           from == IF n > MAX_TILES THEN n - MAX_TILES + 1 ELSE 1
<1>1. n \in Nat /\ n >= 1 /\ MAX_TILES \in Nat /\ MAX_TILES >= 1
  BY DEF AppAssumption, Pixels!TilesAssumption
<1>2. Pixels!Kept(q) = SubSeq(q, from, n)
  BY DEF Pixels!Kept
<1>3. from \in 1..n /\ n - from + 1 \in 1..n /\ n - from + 1 <= MAX_TILES
  BY <1>1
<1> HIDE DEF from
<1>4. /\ SubSeq(q, from, n) \in Seq(Tile) /\ Len(SubSeq(q, from, n)) = n - from + 1
      /\ \A i \in 1..(n - from + 1) : SubSeq(q, from, n)[i] = q[from + i - 1]
  BY <1>1, <1>3
<1>5. SubSeq(q, from, n)[n - from + 1] = q[n]
  BY <1>1, <1>3, <1>4
<1>6. n - from + 1 \in DOMAIN SubSeq(q, from, n)
  BY <1>1, <1>3, <1>4
<1>7. n <= MAX_TILES => SubSeq(q, from, n) = q
  <2>1. n <= MAX_TILES => from = 1
    BY <1>1 DEF from
  <2>2. SubSeq(q, 1, n) = q
    OBVIOUS
  <2> QED
    BY <2>1, <2>2
<1> QED
  BY <1>2, <1>3, <1>4, <1>5, <1>6, <1>7 DEF KeysIn

(* A tile that is used is moved, not lost.                                 *)
MovedLast(q, i) == Append(Pixels!RemoveAt(q, i), q[i])
MovedWell(q, r) == r \in Seq(Tile) /\ Len(r) = Len(q) /\ KeysIn(q) \subseteq KeysIn(r)

LEMMA MovedLastKeepsKeys ==
    ASSUME NEW q \in Seq(Tile), NEW i \in DOMAIN q, NEW r, r = MovedLast(q, i)
    PROVE  MovedWell(q, r)
<1> SUFFICES r \in Seq(Tile) /\ Len(r) = Len(q) /\ KeysIn(q) \subseteq KeysIn(r)
  BY DEF MovedWell
<1>1. PICK S : S = Tile
  OBVIOUS
<1>2. PICK n : n = Len(q)
  OBVIOUS
<1>3. q \in Seq(S) /\ n \in Nat /\ DOMAIN q = 1..n /\ i \in 1..n /\ q[i] \in S
  BY <1>1, <1>2
<1>4. PICK a : a = SubSeq(q, 1, i - 1)
  OBVIOUS
<1>5. a \in Seq(S) /\ Len(a) = i - 1 /\ \A k \in 1..(i - 1) : a[k] = q[k]
  BY <1>2, <1>3, <1>4
<1>6. PICK b : b = SubSeq(q, i + 1, n)
  OBVIOUS
<1>7. b \in Seq(S) /\ Len(b) = n - i /\ \A k \in 1..(n - i) : b[k] = q[i + k]
  BY <1>2, <1>3, <1>6
<1>8. PICK c : c = a \o b
  OBVIOUS
<1>9. /\ c \in Seq(S) /\ Len(c) = n - 1
      /\ \A k \in 1..(n - 1) : c[k] = IF k <= i - 1 THEN a[k] ELSE b[k - (i - 1)]
  <2>1. c \in Seq(S) /\ Len(c) = Len(a) + Len(b)
        /\ \A k \in 1..(Len(a) + Len(b)) : c[k] = IF k <= Len(a) THEN a[k] ELSE b[k - Len(a)]
    BY <1>5, <1>7, <1>8, ConcatProperties
  <2>2. Len(a) + Len(b) = n - 1
    BY <1>3, <1>5, <1>7
  <2> QED
    BY <1>5, <2>1, <2>2
<1>10. r = Append(c, q[i])
  BY <1>2, <1>4, <1>6, <1>8 DEF MovedLast, Pixels!RemoveAt
<1>11. /\ r \in Seq(S) /\ Len(r) = n
       /\ \A k \in 1..(n - 1) : r[k] = c[k]
       /\ r[n] = q[i]
  <2>1. /\ r \in Seq(S) /\ Len(r) = Len(c) + 1
        /\ \A k \in 1..Len(c) : r[k] = c[k]
        /\ r[Len(c) + 1] = q[i]
    BY <1>3, <1>9, <1>10, AppendProperties
  <2>2. Len(c) + 1 = n
    BY <1>3, <1>9
  <2> QED
    BY <1>9, <2>1, <2>2
<1>12. ASSUME NEW k \in 1..n PROVE \E m \in 1..n : r[m] = q[k]
  <2>1. CASE k < i
    <3>1. k \in 1..(i - 1) /\ k \in 1..(n - 1) /\ k <= i - 1
      BY <1>3, <2>1
    <3> QED
      BY <1>5, <1>9, <1>11, <3>1
  <2>2. CASE k = i
    BY <1>3, <1>11, <2>2
  <2>3. CASE k > i
    <3>1. k - 1 \in 1..(n - 1) /\ ~(k - 1 <= i - 1) /\ k - i \in 1..(n - i)
          /\ k - 1 - (i - 1) = k - i /\ i + (k - i) = k /\ k - 1 \in 1..n
      BY <1>3, <2>3
    <3>2. r[k - 1] = b[k - i]
      BY <1>9, <1>11, <3>1
    <3>3. b[k - i] = q[k]
      BY <1>7, <3>1
    <3> QED
      BY <3>1, <3>2, <3>3
  <2>4. k < i \/ k = i \/ k > i
    BY <1>3
  <2> QED
    BY <2>1, <2>2, <2>3, <2>4, Zenon
<1>13. DOMAIN r = 1..n
  BY <1>11
<1>14. ASSUME NEW key \in KeysIn(q) PROVE key \in KeysIn(r)
  <2>1. PICK k \in 1..n : key = q[k].key
    BY <1>3, Zenon DEF KeysIn
  <2>2. PICK m \in 1..n : r[m] = q[k]
    BY <1>12
  <2> QED
    BY <1>13, <2>1, <2>2, Zenon DEF KeysIn
<1> QED
  BY <1>1, <1>2, <1>11, <1>14

LEMMA PixelsStart ==
    ASSUME AppAssumption, Pixels!Init
    PROVE  PixelInv
<1>1. tiles = <<>> /\ fetched = 0 /\ inflight = {} /\ latest = [busy |-> FALSE, read |-> 0, next |-> {}] /\ evicted = FALSE /\ pointer = {}
  BY DEF Pixels!Init, Pixels!Free
<1>6. MaxFetches \in Nat
  BY DEF AppAssumption, Pixels!TilesAssumption
<1>2. latest \in Slot /\ latest.next = {}
  BY <1>1, <1>6 DEF Slot
<1>4. tiles \in Seq(Tile) /\ fetched \in 0..MaxFetches /\ inflight \subseteq 1..fetched /\ pointer \subseteq Tiles
  BY <1>1, <1>6
<1>5. evicted \in BOOLEAN
  BY <1>1, Zenon
<1>3. Len(tiles) <= MAX_TILES
  BY <1>1 DEF AppAssumption, Pixels!TilesAssumption
<1> QED
  BY <1>1, <1>2, <1>3, <1>4, <1>5 DEF PixelInv, PixelTypes

(* After a fetch: its tile is held, and what was held is, or was evicted.  *)
LEMMA FetchIs ==
    ASSUME AppAssumption, PixelTypes, NEW key \in Tiles, Pixels!FetchTile(key)
    PROVE  /\ tiles' \in Seq(Tile) /\ Len(tiles') <= MAX_TILES /\ fetched' \in 0..MaxFetches /\ inflight' \subseteq 1..fetched' /\ evicted' \in BOOLEAN
           /\ key \in KeysIn(tiles')
           /\ evicted => evicted'
           /\ evicted' \/ (pointer \cap KeysIn(tiles)) \subseteq KeysIn(tiles')
<1>1. CASE Pixels!Known(key)
  <2>1. UNCHANGED <<tiles, fetched, inflight, evicted>>
    BY <1>1 DEF Pixels!FetchTile
  <2>2. key \in KeysIn(tiles)
    BY <1>1 DEF Pixels!Known, Pixels!Held, KeysIn
  <2> QED
    BY <2>1, <2>2 DEF PixelTypes
<1>2. CASE ~Pixels!Known(key)
  <2>0. /\ MaxFetches \in Nat /\ fetched \in 0..MaxFetches /\ fetched < MaxFetches
        /\ fetched + 1 \in 1..MaxFetches /\ inflight \subseteq 1..fetched
        /\ inflight' = inflight \cup {fetched + 1} /\ fetched' = fetched + 1
    <3>1. MaxFetches \in Nat
      BY DEF AppAssumption, Pixels!TilesAssumption
    <3>2. /\ fetched < MaxFetches /\ inflight' = inflight \cup {fetched + 1} /\ fetched' = fetched + 1
      BY <1>2 DEF Pixels!FetchTile
    <3> QED
      BY <3>1, <3>2 DEF PixelTypes
  <2>1. PICK t : t = [key |-> key, read |-> fetched + 1, status |-> "loading", old |-> FALSE]
    OBVIOUS
  <2>2. t \in Tile /\ t.key = key
    BY <2>0, <2>1 DEF Tile
  <2>3. PICK held : held = Pixels!Set(t)
    OBVIOUS
  <2>4. /\ tiles' = Pixels!Kept(held) /\ fetched' = fetched + 1
        /\ evicted' = (evicted \/ (pointer \cap KeysIn(tiles)) \ KeysIn(Pixels!Kept(held)) # {})
    BY <1>2, <2>1, <2>3, KeysAre DEF Pixels!FetchTile, KeysIn
  <2>5. /\ held \in Seq(Tile) /\ held # <<>>
        /\ \/ Len(held) <= MAX_TILES /\ key \in KeysIn(held)
           \/ held[Len(held)].key = key
    <3>1. CASE key \in KeysIn(tiles)
      <4>1. held = [i \in DOMAIN tiles |-> IF tiles[i].key = key THEN t ELSE tiles[i]]
        BY <2>2, <2>3, <3>1, KeysAre DEF Pixels!Set
      <4>2. held \in Seq(Tile) /\ Len(held) = Len(tiles) /\ DOMAIN held = DOMAIN tiles
        BY <2>2, <4>1 DEF PixelTypes
      <4>3. PICK i \in DOMAIN tiles : tiles[i].key = key
        BY <3>1 DEF KeysIn
      <4>4. held[i].key = key
        BY <2>2, <4>1, <4>3
      <4>5. key \in KeysIn(held)
        BY <4>2, <4>3, <4>4 DEF KeysIn
      <4> QED
        BY <4>2, <4>3, <4>5 DEF PixelTypes
    <3>2. CASE key \notin KeysIn(tiles)
      <4>1. held = Append(tiles, t)
        BY <2>2, <2>3, <3>2, KeysAre DEF Pixels!Set
      <4>2. held \in Seq(Tile) /\ Len(held) = Len(tiles) + 1 /\ held[Len(tiles) + 1] = t /\ held # <<>>
        BY <2>2, <4>1, AppendProperties DEF PixelTypes
      <4> QED
        BY <2>2, <4>2
    <3> QED
      BY <3>1, <3>2
  <2>6. /\ Pixels!Kept(held) \in Seq(Tile) /\ Len(Pixels!Kept(held)) <= MAX_TILES
        /\ Len(held) <= MAX_TILES => Pixels!Kept(held) = held
        /\ held[Len(held)].key \in KeysIn(Pixels!Kept(held))
    BY <2>5, KeptIs
  <2>7. key \in KeysIn(Pixels!Kept(held))
    BY <2>5, <2>6
  <2>8. tiles' \in Seq(Tile) /\ Len(tiles') <= MAX_TILES /\ key \in KeysIn(tiles')
    BY <2>4, <2>6, <2>7
  <2>9. fetched' \in 0..MaxFetches /\ inflight' \subseteq 1..fetched'
    BY <2>0
  <2>10. evicted' \in BOOLEAN /\ (evicted => evicted')
    BY <2>4 DEF PixelTypes
  <2>11. evicted' \/ (pointer \cap KeysIn(tiles)) \subseteq KeysIn(tiles')
    BY <2>4
  <2> QED
    BY <2>8, <2>9, <2>10, <2>11
<1> QED
  BY <1>1, <1>2

(* Answers and delays change tiles in place.                               *)
LEMMA InPlaceKeepsKeys ==
    ASSUME PixelInv, tiles' \in Seq(Tile), Len(tiles') = Len(tiles),
           \A i \in DOMAIN tiles : tiles'[i].key = tiles[i].key,
           inflight' \subseteq inflight, UNCHANGED <<fetched, latest, pointer, evicted>>
    PROVE  PixelInv'
<1>1. DOMAIN tiles' = DOMAIN tiles
  BY DEF PixelInv, PixelTypes
<1>2. KeysIn(tiles') = KeysIn(tiles)
  BY <1>1 DEF KeysIn
<1>3. PixelTypes'
  BY DEF PixelInv, PixelTypes
<1> QED
  BY <1>2, <1>3 DEF PixelInv

(* What follows a fetch keeps the promise: the pointer did not move, or it *)
(* is on the tile that is fetched.                                         *)
LEMMA FetchKeepsInv ==
    ASSUME AppAssumption, PixelInv, NEW key \in Tiles, Pixels!FetchTile(key),
           latest' \in Slot, \A j, k \in latest'.next : j = k,
           \/ pointer' = {key}
           \/ pointer' = pointer /\ latest' = latest
           \/ pointer' = pointer /\ latest.next = {key}
    PROVE  PixelInv'
<1>1. /\ tiles' \in Seq(Tile) /\ Len(tiles') <= MAX_TILES /\ fetched' \in 0..MaxFetches /\ inflight' \subseteq 1..fetched' /\ evicted' \in BOOLEAN
      /\ key \in KeysIn(tiles')
      /\ evicted => evicted'
      /\ evicted' \/ (pointer \cap KeysIn(tiles)) \subseteq KeysIn(tiles')
  BY FetchIs DEF PixelInv
<1>2. PixelTypes'
  <2>1. pointer' \subseteq Tiles
    BY DEF PixelInv, PixelTypes
  <2> QED
    BY <1>1, <2>1 DEF PixelTypes
<1>3. evicted' \/ pointer' \subseteq KeysIn(tiles') \/ (latest'.busy /\ pointer' \subseteq latest'.next)
  <2>1. CASE pointer' = {key}
    BY <1>1, <2>1
  <2>2. CASE pointer' = pointer /\ latest' = latest
    BY <1>1, <2>2 DEF PixelInv
  <2>3. CASE pointer' = pointer /\ latest.next = {key}
    BY <1>1, <2>3 DEF PixelInv
  <2> QED
    BY <2>1, <2>2, <2>3
<1> QED
  BY <1>2, <1>3 DEF PixelInv

LEMMA PixelsNext ==
    ASSUME AppAssumption, PixelInv, [Pixels!Next]_pixels
    PROVE  PixelInv'
<1>0. MaxFetches \in Nat
  BY DEF AppAssumption, Pixels!TilesAssumption
<1>1. CASE UNCHANGED pixels
  BY <1>1 DEF pixels, PixelInv, PixelTypes
<1>2. ASSUME NEW key \in Tiles, Pixels!Request(key) PROVE PixelInv'
  <2>1. Pixels!FetchTile(key) /\ UNCHANGED <<latest, pointer>>
    BY <1>2 DEF Pixels!Request
  <2>2. latest' \in Slot /\ \A j, k \in latest'.next : j = k
    BY <2>1 DEF PixelInv, PixelTypes
  <2> QED
    BY <2>1, <2>2, FetchKeepsInv
<1>3. ASSUME NEW key \in Tiles, Pixels!RequestLatest(key) PROVE PixelInv'
  <2>1. pointer' = {key}
    BY <1>3 DEF Pixels!RequestLatest
  <2>2. CASE Pixels!Known(key)
    <3>1. evicted' = FALSE /\ UNCHANGED <<tiles, fetched, inflight, latest>>
      BY <1>3, <2>2 DEF Pixels!RequestLatest
    <3>2. key \in KeysIn(tiles)
      BY <2>2 DEF Pixels!Known, Pixels!Held, KeysIn
    <3>3. PixelTypes'
      BY <2>1, <3>1 DEF PixelInv, PixelTypes
    <3>4. pointer' \subseteq KeysIn(tiles')
      BY <2>1, <3>1, <3>2
    <3> QED
      BY <3>3, <3>4 DEF PixelInv
  <2>3. CASE ~Pixels!Known(key) /\ latest.busy
    <3>1. /\ evicted' = FALSE /\ UNCHANGED <<tiles, fetched, inflight>>
          /\ latest' = [latest EXCEPT !.next = {key}]
      BY <1>3, <2>3 DEF Pixels!RequestLatest
    <3>2. latest' \in Slot /\ latest'.next = {key} /\ latest'.busy
      BY <2>3, <3>1 DEF PixelInv, PixelTypes, Slot
    <3>3. PixelTypes'
      BY <2>1, <3>1, <3>2 DEF PixelInv, PixelTypes
    <3> QED
      BY <2>1, <3>2, <3>3 DEF PixelInv
  <2>4. CASE ~Pixels!Known(key) /\ ~latest.busy
    <3>1. Pixels!FetchTile(key) /\ latest' = [busy |-> TRUE, read |-> Pixels!ReadOf(key), next |-> {}]
      BY <1>3, <2>4 DEF Pixels!RequestLatest
    <3>2. Pixels!ReadOf(key) = fetched + 1 /\ fetched < MaxFetches
      BY <2>4, <3>1 DEF Pixels!ReadOf, Pixels!FetchTile
    <3>4. Pixels!ReadOf(key) \in 0..MaxFetches
      BY <1>0, <3>2 DEF PixelInv, PixelTypes
    <3>3. latest' \in Slot /\ latest'.next = {}
      BY <3>1, <3>4 DEF Slot
    <3> QED
      BY <2>1, <3>1, <3>3, FetchKeepsInv
  <2> QED
    BY <2>2, <2>3, <2>4
<1>4. ASSUME NEW key \in Tiles, Pixels!Get(key) PROVE PixelInv'
  <2>1. PICK i \in DOMAIN tiles : tiles' = Append(Pixels!RemoveAt(tiles, i), tiles[i])
    BY <1>4 DEF Pixels!Get
  <2>2. tiles' \in Seq(Tile) /\ Len(tiles') = Len(tiles) /\ KeysIn(tiles) \subseteq KeysIn(tiles')
    <3>1. PICK q : q = tiles
      OBVIOUS
    <3>2. PICK r : r = tiles'
      OBVIOUS
    <3>3. q \in Seq(Tile) /\ i \in DOMAIN q
      BY <2>1, <3>1 DEF PixelInv, PixelTypes
    <3>4. r = MovedLast(q, i)
      BY <2>1, <3>1, <3>2 DEF MovedLast
    <3>5. MovedWell(q, r)
      BY <3>3, <3>4, MovedLastKeepsKeys, Zenon
    <3> QED
      BY <3>1, <3>2, <3>5 DEF MovedWell
  <2>3. UNCHANGED <<fetched, inflight, latest, pointer, evicted>>
    BY <1>4 DEF Pixels!Get
  <2>4. PixelTypes'
    BY <2>2, <2>3 DEF PixelInv, PixelTypes
  <2> QED
    BY <2>2, <2>3, <2>4 DEF PixelInv
<1>5. ASSUME NEW read \in inflight, Pixels!Answer(read) PROVE PixelInv'
  <2>1. PICK st \in {"ready", "error"} :
          tiles' = [i \in DOMAIN tiles |-> IF tiles[i].read = read THEN [tiles[i] EXCEPT !.status = st] ELSE tiles[i]]
    BY <1>5 DEF Pixels!Answer
  <2>2. \A i \in DOMAIN tiles : tiles'[i] \in Tile /\ tiles'[i].key = tiles[i].key
    <3>1. \A i \in DOMAIN tiles : tiles[i] \in Tile
      BY DEF PixelInv, PixelTypes
    <3>2. ASSUME NEW tile \in Tile PROVE [tile EXCEPT !.status = st] \in Tile /\ [tile EXCEPT !.status = st].key = tile.key
      BY DEF Tile
    <3> QED
      BY <2>1, <3>1, <3>2
  <2>3. tiles' \in Seq(Tile) /\ Len(tiles') = Len(tiles)
    BY <2>1, <2>2 DEF PixelInv, PixelTypes
  <2>4. inflight' \subseteq inflight /\ UNCHANGED <<fetched, latest, pointer, evicted>>
    BY <1>5 DEF Pixels!Answer
  <2> QED
    BY <2>2, <2>3, <2>4, InPlaceKeepsKeys
<1>6. ASSUME NEW key \in Tiles, Pixels!RetryDelayEnds(key) PROVE PixelInv'
  <2>1. tiles' = [i \in DOMAIN tiles |-> IF tiles[i].key = key THEN [tiles[i] EXCEPT !.old = TRUE] ELSE tiles[i]]
    BY <1>6 DEF Pixels!RetryDelayEnds
  <2>2. \A i \in DOMAIN tiles : tiles'[i] \in Tile /\ tiles'[i].key = tiles[i].key
    <3>1. \A i \in DOMAIN tiles : tiles[i] \in Tile
      BY DEF PixelInv, PixelTypes
    <3>2. ASSUME NEW tile \in Tile PROVE [tile EXCEPT !.old = TRUE] \in Tile /\ [tile EXCEPT !.old = TRUE].key = tile.key
      BY DEF Tile
    <3> QED
      BY <2>1, <3>1, <3>2
  <2>3. tiles' \in Seq(Tile) /\ Len(tiles') = Len(tiles)
    BY <2>1, <2>2 DEF PixelInv, PixelTypes
  <2>4. inflight' \subseteq inflight /\ UNCHANGED <<fetched, latest, pointer, evicted>>
    BY <1>6 DEF Pixels!RetryDelayEnds
  <2> QED
    BY <2>2, <2>3, <2>4, InPlaceKeepsKeys
<1>7. CASE Pixels!Finally
  <2>1. CASE latest.next = {}
    <3>1. latest' = [busy |-> FALSE, read |-> 0, next |-> {}] /\ UNCHANGED <<tiles, fetched, inflight, evicted, pointer>>
      BY <1>7, <2>1 DEF Pixels!Finally, Pixels!Free
    <3>2. latest' \in Slot /\ latest'.next = {}
      BY <1>0, <3>1 DEF Slot
    <3>3. PixelTypes'
      BY <3>1, <3>2 DEF PixelInv, PixelTypes
    <3>4. evicted' \/ pointer' \subseteq KeysIn(tiles')
      BY <2>1, <3>1 DEF PixelInv
    <3> QED
      BY <3>3, <3>4 DEF PixelInv
  <2>2. CASE latest.next # {}
    <3>1. PICK key \in latest.next :
            Pixels!FetchTile(key) /\ latest' = [busy |-> TRUE, read |-> Pixels!ReadOf(key), next |-> {}]
      BY <1>7, <2>2 DEF Pixels!Finally
    <3>2. key \in Tiles /\ latest.next = {key} /\ pointer' = pointer
      BY <1>7, <3>1 DEF PixelInv, PixelTypes, Slot, Pixels!Finally
    <3>3. Pixels!ReadOf(key) \in 0..MaxFetches
      <4>1. CASE Pixels!Known(key)
        <5>1. PICK tile \in Pixels!Held : tile.key = key
          BY <4>1 DEF Pixels!Known
        <5>2. (CHOOSE t \in Pixels!Held : t.key = key) \in Pixels!Held
          BY <5>1
        <5>3. \A t \in Pixels!Held : t.read \in 0..MaxFetches
          <6>1. \A k \in DOMAIN tiles : tiles[k] \in Tile
            BY DEF PixelInv, PixelTypes
          <6> QED
            BY <1>0, <6>1 DEF Pixels!Held, Tile
        <5> QED
          BY <4>1, <5>2, <5>3 DEF Pixels!ReadOf
      <4>2. CASE ~Pixels!Known(key)
        <5>1. Pixels!ReadOf(key) = fetched + 1 /\ fetched < MaxFetches
          BY <3>1, <4>2 DEF Pixels!ReadOf, Pixels!FetchTile
        <5> QED
          BY <1>0, <5>1 DEF PixelInv, PixelTypes
      <4> QED
        BY <4>1, <4>2
    <3>4. latest' \in Slot /\ latest'.next = {}
      BY <3>1, <3>3 DEF Slot
    <3> QED
      BY <3>1, <3>2, <3>4, FetchKeepsInv
  <2> QED
    BY <2>1, <2>2
<1> QED
  BY <1>1, <1>2, <1>3, <1>4, <1>5, <1>6, <1>7 DEF Pixels!Next

(* However the pointer moves while tiles are read, and whatever is evicted for other tiles, *)
(* the one it stops on is held, was evicted since, or is the next to be read.              *)
THEOREM PointerGetsItsTile == AppSpec => []PointerIsServed
<1>1. AppInit => PixelInv
  BY PixelsStart, AppAssumption DEF AppInit
<1>2. PixelInv /\ [AppNext]_app => PixelInv'
  BY PixelsNext, StepsOfViewers, AppAssumption
<1>3. PixelInv => PointerIsServed
  BY KeysAre DEF PixelInv, PointerIsServed, Pixels!PointerIsServed
<1> QED
  BY <1>1, <1>2, <1>3, PTL DEF AppSpec

LEMMA PixelShapes == AppSpec => []Pixels!TypeOK
<1>1. AppInit => PixelInv
  BY PixelsStart, AppAssumption DEF AppInit
<1>2. PixelInv /\ [AppNext]_app => PixelInv'
  BY PixelsNext, StepsOfViewers, AppAssumption
<1>3. PixelInv => Pixels!TypeOK
  BY DEF PixelInv, PixelTypes, Tile, Slot, Pixels!TypeOK
<1> QED
  BY <1>1, <1>2, <1>3, PTL DEF AppSpec

-----------------------------------------------------------------------------
(***************************************************************************)
(* syncedPlayback: the two videos and their controller.                    *)
(***************************************************************************)
Pair == {"leader", "follower"}
Moments == Seeks!Frames \cup {Seeks!None}
VideoState == [at : Seeks!Frames, seeking : BOOLEAN, loaded : BOOLEAN]
PlayerState == [target : Moments, pending : [Pair -> Moments], resumeAt : Seeks!Frames]
PlaybackState == [v : [Pair -> VideoState], p : PlayerState]

LEMMA MomentsAre == Seeks!None \in Moments /\ \A t \in Seeks!Frames : t \in Moments /\ t # Seeks!None
BY DEF Moments, Seeks!None, Seeks!Frames

LEMMA MovedIs ==
    ASSUME NEW s \in PlaybackState, NEW e \in Pair, NEW time \in Seeks!Frames
    PROVE  /\ Seeks!Moved(s, e, time) \in PlaybackState
           /\ Seeks!Moved(s, e, time).p = s.p
           /\ Seeks!Moved(s, e, time).v[e].at = time
           /\ Seeks!Moved(s, e, time).v[e].loaded = s.v[e].loaded
           /\ s.v[e].at # time => Seeks!Moved(s, e, time).v[e].seeking
           /\ s.v[e].at = time => Seeks!Moved(s, e, time).v[e].seeking = s.v[e].seeking
           /\ \A x \in Pair : x # e => Seeks!Moved(s, e, time).v[x] = s.v[x]
<1>1. CASE s.v[e].at = time
  BY <1>1 DEF Seeks!Moved, PlaybackState, VideoState
<1>2. CASE s.v[e].at # time
  <2>1. Seeks!Moved(s, e, time) = [s EXCEPT !.v[e].at = time, !.v[e].seeking = TRUE]
    BY <1>2 DEF Seeks!Moved
  <2>2. PICK r : r = [s EXCEPT !.v[e].at = time, !.v[e].seeking = TRUE]
    OBVIOUS
  <2>3. r.p = s.p /\ r.v[e].at = time
    BY <2>2 DEF PlaybackState, VideoState
  <2>4. r \in PlaybackState
    BY <2>2 DEF PlaybackState, VideoState
  <2>5. r.v[e].loaded = s.v[e].loaded /\ r.v[e].seeking
    BY <2>2 DEF PlaybackState, VideoState
  <2>6. \A x \in Pair : x # e => r.v[x] = s.v[x]
    BY <2>2 DEF PlaybackState, VideoState
  <2> QED
    BY <1>2, <2>1, <2>2, <2>3, <2>4, <2>5, <2>6
<1> QED
  BY <1>1, <1>2

(* Where an element will be.                                               *)
Goal(s, e) == IF s.p.pending[e] # Seeks!None THEN s.p.pending[e] ELSE s.v[e].at

Pends(s, e, time) == [s EXCEPT !.p.pending[e] = time]

LEMMA PendingIs ==
    ASSUME NEW s \in PlaybackState, NEW e \in Pair, NEW time \in Moments,
           NEW r, r = Pends(s, e, time)
    PROVE  /\ r \in PlaybackState /\ r.v = s.v
           /\ r.p.target = s.p.target /\ r.p.resumeAt = s.p.resumeAt
           /\ r.p.pending[e] = time
           /\ \A x \in Pair : x # e => r.p.pending[x] = s.p.pending[x]
<1>1. r \in PlaybackState
  BY DEF Pends, PlaybackState, PlayerState
<1>2. r.v = s.v /\ r.p.target = s.p.target /\ r.p.resumeAt = s.p.resumeAt
  BY DEF Pends, PlaybackState, PlayerState
<1>3. r.p.pending[e] = time /\ \A x \in Pair : x # e => r.p.pending[x] = s.p.pending[x]
  BY DEF Pends, PlaybackState, PlayerState
<1> QED
  BY <1>1, <1>2, <1>3

LEMMA TargetIs ==
    ASSUME NEW s \in PlaybackState, NEW time \in Moments, NEW r, r = [s EXCEPT !.p.target = time]
    PROVE  /\ r \in PlaybackState /\ r.v = s.v /\ r.p.target = time
           /\ r.p.resumeAt = s.p.resumeAt /\ r.p.pending = s.p.pending
BY DEF PlaybackState, PlayerState

Resumes(s, time) == [s EXCEPT !.p.resumeAt = time]

LEMMA ResumeIs ==
    ASSUME NEW s \in PlaybackState, NEW time \in Seeks!Frames, NEW r, r = Resumes(s, time)
    PROVE  /\ r \in PlaybackState /\ r.v = s.v /\ r.p.target = s.p.target
           /\ r.p.resumeAt = time /\ r.p.pending = s.p.pending
BY DEF Resumes, PlaybackState, PlayerState

LEMMA SeekElementIs ==
    ASSUME NEW s \in PlaybackState, NEW e \in Pair, NEW time \in Seeks!Frames,
           NEW r, r = Seeks!SeekElement(s, e, time)
    PROVE  /\ r \in PlaybackState
           /\ Goal(r, e) = time
           /\ r.p.pending[e] # Seeks!None => r.v[e].seeking
           /\ r.v[e].loaded = s.v[e].loaded
           /\ r.p.target = s.p.target /\ r.p.resumeAt = s.p.resumeAt
           /\ s.v[e].seeking => r.v[e].seeking
           /\ \A x \in Pair : x # e => r.v[x] = s.v[x] /\ r.p.pending[x] = s.p.pending[x]
<1>1. CASE s.v[e].seeking
  <2>1. r = Pends(s, e, time)
    BY <1>1 DEF Seeks!SeekElement, Pends
  <2>2. time \in Moments /\ time # Seeks!None
    BY MomentsAre
  <2>3. /\ r \in PlaybackState /\ r.v = s.v /\ r.p.target = s.p.target /\ r.p.resumeAt = s.p.resumeAt
        /\ r.p.pending[e] = time
        /\ \A x \in Pair : x # e => r.p.pending[x] = s.p.pending[x]
    BY <2>1, <2>2, PendingIs
  <2>4. Goal(r, e) = time
    BY <2>2, <2>3 DEF Goal
  <2> QED
    BY <1>1, <2>3, <2>4, Zenon
<1>2. CASE ~s.v[e].seeking
  <2>1. PICK q : q = Pends(s, e, Seeks!None)
    OBVIOUS
  <2>2. Seeks!None \in Moments
    BY MomentsAre
  <2>3. /\ q \in PlaybackState /\ q.v = s.v /\ q.p.target = s.p.target /\ q.p.resumeAt = s.p.resumeAt
        /\ q.p.pending[e] = Seeks!None
        /\ \A x \in Pair : x # e => q.p.pending[x] = s.p.pending[x]
    BY <2>1, <2>2, PendingIs
  <2>4. r = Seeks!Moved(q, e, time)
    BY <1>2, <2>1 DEF Seeks!SeekElement, Pends
  <2>5. /\ r \in PlaybackState /\ r.p = q.p /\ r.v[e].at = time /\ r.v[e].loaded = q.v[e].loaded
        /\ \A x \in Pair : x # e => r.v[x] = q.v[x]
    BY <2>3, <2>4, MovedIs
  <2>6. Goal(r, e) = time
    BY <2>3, <2>5 DEF Goal
  <2>7. r.p.pending[e] = Seeks!None /\ r.v[e].loaded = s.v[e].loaded
        /\ r.p.target = s.p.target /\ r.p.resumeAt = s.p.resumeAt
    BY <2>3, <2>5
  <2>8. \A x \in Pair : x # e => r.v[x] = s.v[x] /\ r.p.pending[x] = s.p.pending[x]
    BY <2>3, <2>5
  <2> QED
    BY <1>2, <2>5, <2>6, <2>7, <2>8, Zenon
<1> QED
  BY <1>1, <1>2

(* The same, of a state and the one it leads to.                           *)
SoughtTo(s, e, time, r) ==
    /\ r \in PlaybackState
    /\ Goal(r, e) = time
    /\ r.p.pending[e] # Seeks!None => r.v[e].seeking
    /\ r.v[e].loaded = s.v[e].loaded
    /\ r.p.target = s.p.target /\ r.p.resumeAt = s.p.resumeAt
    /\ s.v[e].seeking => r.v[e].seeking
    /\ \A x \in Pair : x # e => r.v[x] = s.v[x] /\ r.p.pending[x] = s.p.pending[x]

LEMMA SeekElementLeadsTo ==
    ASSUME NEW s \in PlaybackState, NEW e \in Pair, NEW time \in Seeks!Frames
    PROVE  SoughtTo(s, e, time, Seeks!SeekElement(s, e, time))
BY SeekElementIs DEF SoughtTo

LEMMA WithinIs ==
    ASSUME Seeks!SeeksAssumption, NEW time \in Seeks!Frames, NEW e \in Pair
    PROVE  Seeks!Within(time, e) \in Seeks!Frames
BY DEF Seeks!SeeksAssumption, Seeks!Within, Pair, Seeks!Frames

(* The leader is where users are, or goes there, and the clock shows it.   *)
LeadsTo(s, time, moving) ==
    /\ Goal(s, "leader") = time
    /\ s.p.pending["leader"] # Seeks!None => s.v["leader"].seeking \/ moving
    /\ s.p.target # Seeks!None => s.p.target = time /\ (s.v["leader"].seeking \/ moving)
    /\ s.p.pending["leader"] # Seeks!None => s.p.target # Seeks!None

LEMMA SeekLeaderIs ==
    ASSUME NEW s \in PlaybackState, NEW time \in Seeks!Frames, NEW r, r = Seeks!SeekLeader(s, time)
    PROVE  /\ r \in PlaybackState
           /\ LeadsTo(r, time, FALSE)
           /\ r.v["leader"].loaded = s.v["leader"].loaded
           /\ r.p.resumeAt = s.p.resumeAt
           /\ s.v["leader"].seeking => r.v["leader"].seeking
           /\ r.v["follower"] = s.v["follower"] /\ r.p.pending["follower"] = s.p.pending["follower"]
<1> DEFINE l == "leader"
           f == "follower"
<1>0. l \in Pair /\ f \in Pair /\ f # l /\ Seeks!None \in Moments /\ time \in Moments /\ time # Seeks!None
  BY MomentsAre DEF Pair
<1>1. PICK q : q = [s EXCEPT !.p.target = time]
  OBVIOUS
<1>2. /\ q \in PlaybackState /\ q.v = s.v /\ q.p.target = time
      /\ q.p.resumeAt = s.p.resumeAt /\ q.p.pending = s.p.pending
  BY <1>0, <1>1, TargetIs
<1>3. PICK t : t = Seeks!SeekElement(q, l, time)
  OBVIOUS
<1>4. /\ t \in PlaybackState /\ Goal(t, l) = time
      /\ t.p.pending[l] # Seeks!None => t.v[l].seeking
      /\ t.v[l].loaded = s.v[l].loaded
      /\ t.p.target = time /\ t.p.resumeAt = s.p.resumeAt
      /\ s.v[l].seeking => t.v[l].seeking
      /\ t.v[f] = s.v[f] /\ t.p.pending[f] = s.p.pending[f]
  BY <1>0, <1>2, <1>3, SeekElementIs
<1>5. r = IF t.v[l].seeking \/ t.p.pending[l] # Seeks!None THEN t ELSE [t EXCEPT !.p.target = Seeks!None]
  BY <1>1, <1>3 DEF Seeks!SeekLeader
<1>6. CASE t.v[l].seeking \/ t.p.pending[l] # Seeks!None
  BY <1>0, <1>4, <1>5, <1>6 DEF LeadsTo
<1>7. CASE ~(t.v[l].seeking \/ t.p.pending[l] # Seeks!None)
  <2>1. r = [t EXCEPT !.p.target = Seeks!None]
    BY <1>5, <1>7
  <2>2. /\ r \in PlaybackState /\ r.v = t.v /\ r.p.target = Seeks!None
        /\ r.p.resumeAt = t.p.resumeAt /\ r.p.pending = t.p.pending
    BY <1>0, <1>4, <2>1, TargetIs
  <2> QED
    BY <1>4, <1>7, <2>2 DEF LeadsTo, Goal
<1> QED
  BY <1>6, <1>7

(* Where the clock is.                                                     *)
LEMMA TimeIs ==
    ASSUME NEW s \in PlaybackState, NEW time, NEW moving, LeadsTo(s, time, moving), s.v["leader"].loaded
    PROVE  Seeks!Time(s) = time
BY DEF LeadsTo, Goal, Seeks!Time, Seeks!Usable

(* The follower goes where the leader does, as far as it can.              *)
Follows(s, time) ==
    Goal(s, "follower") = Seeks!Within(time, "follower")

Sought(s, time, r) ==
    /\ r \in PlaybackState
    /\ LeadsTo(r, time, FALSE)
    /\ \A e \in Pair : r.v[e].loaded = s.v[e].loaded /\ (s.v[e].seeking => r.v[e].seeking)
    /\ r.p.resumeAt = s.p.resumeAt
    /\ s.v["follower"].loaded => Follows(r, time)
    /\ ~s.v["follower"].loaded => /\ r.v["follower"] = s.v["follower"]
                                  /\ r.p.pending["follower"] = s.p.pending["follower"]
    /\ r.p.pending["follower"] # Seeks!None
         => r.v["follower"].seeking \/ r.p.pending["follower"] = s.p.pending["follower"]

LEMMA SeekIs ==
    ASSUME Seeks!SeeksAssumption, NEW s \in PlaybackState, s.v["leader"].loaded, NEW time \in Seeks!Frames,
           NEW r, r = Seeks!Seek(s, time)
    PROVE  Sought(s, time, r)
<1> USE DEF Sought
<1> DEFINE l == "leader"
           f == "follower"
<1>0. l \in Pair /\ f \in Pair /\ f # l /\ \A e \in Pair : e = l \/ e = f
  BY DEF Pair
<1>1. PICK q : q = Seeks!SeekLeader(s, time)
  OBVIOUS
<1>2. /\ q \in PlaybackState /\ LeadsTo(q, time, FALSE)
      /\ q.v[l].loaded = s.v[l].loaded
      /\ q.p.resumeAt = s.p.resumeAt
      /\ s.v[l].seeking => q.v[l].seeking
      /\ q.v[f] = s.v[f] /\ q.p.pending[f] = s.p.pending[f]
  BY <1>1, SeekLeaderIs
<1>3. r = IF s.v[f].loaded THEN Seeks!SeekElement(q, f, Seeks!Within(time, f)) ELSE q
  BY <1>1, <1>2 DEF Seeks!Seek, Seeks!Usable
<1>4. CASE ~s.v[f].loaded
  BY <1>0, <1>2, <1>3, <1>4
<1>5. CASE s.v[f].loaded
  <2>1. PICK w \in Seeks!Frames : w = Seeks!Within(time, f)
    BY <1>0, WithinIs
  <2>2. r = Seeks!SeekElement(q, f, w)
    BY <1>3, <1>5, <2>1
  <2>3. /\ r \in PlaybackState /\ Goal(r, f) = w
        /\ r.p.pending[f] # Seeks!None => r.v[f].seeking
        /\ r.v[f].loaded = q.v[f].loaded
        /\ r.p.target = q.p.target /\ r.p.resumeAt = q.p.resumeAt
        /\ q.v[f].seeking => r.v[f].seeking
        /\ r.v[l] = q.v[l] /\ r.p.pending[l] = q.p.pending[l]
    <3>1. q \in PlaybackState /\ w \in Seeks!Frames /\ l \in Pair /\ f \in Pair /\ f # l
      BY <1>0, <1>2
    <3>2. SoughtTo(q, f, w, r)
      BY <2>2, <3>1, SeekElementLeadsTo
    <3> QED
      BY <3>1, <3>2 DEF SoughtTo
  <2>4. LeadsTo(r, time, FALSE)
    BY <1>2, <2>3 DEF LeadsTo, Goal
  <2> QED
    BY <1>0, <1>2, <1>5, <2>1, <2>3, <2>4 DEF Follows
<1> QED
  BY <1>4, <1>5

Aligned(s, r) ==
    /\ r \in PlaybackState
    /\ r.v["leader"] = s.v["leader"] /\ r.p.pending["leader"] = s.p.pending["leader"]
    /\ r.p.target = s.p.target /\ r.p.resumeAt = s.p.resumeAt
    /\ r.v["follower"].loaded = s.v["follower"].loaded
    /\ s.v["follower"].seeking => r.v["follower"].seeking
    /\ s.v["leader"].loaded /\ s.v["follower"].loaded => Follows(r, Seeks!Time(s))
    /\ ~(s.v["leader"].loaded /\ s.v["follower"].loaded) => r = s
    /\ r.p.pending["follower"] # Seeks!None
         => r.v["follower"].seeking \/ r.p.pending["follower"] = s.p.pending["follower"]

LEMMA AlignFollowerIs ==
    ASSUME Seeks!SeeksAssumption, NEW s \in PlaybackState, NEW r, r = Seeks!AlignFollower(s),
           s.v["leader"].loaded => Seeks!Time(s) \in Seeks!Frames
    PROVE  Aligned(s, r)
<1> USE DEF Aligned
<1> DEFINE l == "leader"
           f == "follower"
<1>0. l \in Pair /\ f \in Pair /\ f # l
  BY DEF Pair
<1>1. CASE ~(s.v[l].loaded /\ s.v[f].loaded)
  <2>1. r = s
    BY <1>1 DEF Seeks!AlignFollower, Seeks!Usable
  <2> QED
    BY <1>1, <2>1
<1>2. CASE s.v[l].loaded /\ s.v[f].loaded
  <2>1. PICK w \in Seeks!Frames : w = Seeks!Within(Seeks!Time(s), f)
    BY <1>0, <1>2, WithinIs
  <2>2. r = IF s.v[f].at # w \/ s.p.pending[f] # Seeks!None THEN Seeks!SeekElement(s, f, w) ELSE s
    BY <1>2, <2>1 DEF Seeks!AlignFollower, Seeks!Usable
  <2>3. CASE r = Seeks!SeekElement(s, f, w)
    <3>1. /\ r \in PlaybackState /\ Goal(r, f) = w
          /\ r.p.pending[f] # Seeks!None => r.v[f].seeking
          /\ r.v[f].loaded = s.v[f].loaded
          /\ r.p.target = s.p.target /\ r.p.resumeAt = s.p.resumeAt
          /\ s.v[f].seeking => r.v[f].seeking
          /\ r.v[l] = s.v[l] /\ r.p.pending[l] = s.p.pending[l]
      BY <1>0, <2>1, <2>3, SeekElementIs
    <3> QED
      BY <1>2, <2>1, <3>1 DEF Follows
  <2>4. CASE s.v[f].at = w /\ s.p.pending[f] = Seeks!None
    <3>1. r = s /\ Goal(s, f) = w
      BY <2>2, <2>4 DEF Goal
    <3> QED
      BY <1>2, <2>1, <3>1 DEF Follows
  <2> QED
    BY <2>2, <2>3, <2>4
<1> QED
  BY <1>1, <1>2

(* The end of a seek starts the next one, or none is needed.               *)
Ended(s, e, r) ==
    /\ r \in PlaybackState
    /\ Goal(r, e) = Goal(s, e) /\ r.p.pending[e] = Seeks!None
    /\ r.v[e].loaded = s.v[e].loaded /\ r.p.resumeAt = s.p.resumeAt
    /\ s.v[e].seeking => r.v[e].seeking
    /\ \A x \in Pair : x # e => r.v[x] = s.v[x] /\ r.p.pending[x] = s.p.pending[x]
    /\ e # "leader" => r.p.target = s.p.target
    /\ e = "leader" => \/ r.p.target = Seeks!None
                       \/ r.p.target = s.p.target /\ r.v[e].seeking

LEMMA OnSeekedIs ==
    ASSUME NEW s \in PlaybackState, NEW e \in Pair, NEW r, r = Seeks!OnSeeked(s, e),
           s.p.pending[e] # Seeks!None => s.p.pending[e] \in Seeks!Frames
    PROVE  Ended(s, e, r)
<1> USE DEF Ended
<1>0. Seeks!None \in Moments
  BY MomentsAre
<1>1. PICK d : d = [s EXCEPT !.p.pending[e] = Seeks!None]
  OBVIOUS
<1>2. /\ d \in PlaybackState /\ d.v = s.v /\ d.p.target = s.p.target /\ d.p.resumeAt = s.p.resumeAt
      /\ d.p.pending[e] = Seeks!None
      /\ \A x \in Pair : x # e => d.p.pending[x] = s.p.pending[x]
  <2>1. d = Pends(s, e, Seeks!None)
    BY <1>1 DEF Pends
  <2> QED
    BY <1>0, <2>1, PendingIs, SMTT(40)
<1>3. PICK time : time = s.p.pending[e]
  OBVIOUS
<1>4. r = IF time # Seeks!None /\ s.v[e].at # time THEN Seeks!Moved(d, e, time)
          ELSE IF e = "leader" THEN [d EXCEPT !.p.target = Seeks!None] ELSE d
  BY <1>1, <1>3 DEF Seeks!OnSeeked
<1>5. CASE time # Seeks!None /\ s.v[e].at # time
  <2>1. r = Seeks!Moved(d, e, time) /\ time \in Seeks!Frames
    BY <1>3, <1>4, <1>5
  <2>2. /\ r \in PlaybackState /\ r.p = d.p /\ r.v[e].at = time /\ r.v[e].loaded = d.v[e].loaded
        /\ r.v[e].seeking
        /\ \A x \in Pair : x # e => r.v[x] = d.v[x]
    <3>1. time \in Seeks!Frames /\ d.v[e].at # time
      BY <1>2, <1>5, <2>1
    <3> QED
      BY <1>2, <2>1, <3>1, MovedIs, SMTT(40)
  <2>3. Goal(r, e) = time /\ Goal(s, e) = time
    BY <1>2, <1>3, <1>5, <2>2 DEF Goal
  <2> QED
    BY <1>2, <2>2, <2>3
<1>6. CASE ~(time # Seeks!None /\ s.v[e].at # time) /\ e = "leader"
  <2>1. r = [d EXCEPT !.p.target = Seeks!None]
    BY <1>4, <1>6
  <2>2. /\ r \in PlaybackState /\ r.v = d.v /\ r.p.target = Seeks!None
        /\ r.p.resumeAt = d.p.resumeAt /\ r.p.pending = d.p.pending
    <3>1. d \in PlaybackState
      BY <1>2
    <3> QED
      BY <1>0, <2>1, <3>1 DEF PlaybackState, PlayerState
  <2>3. Goal(r, e) = s.v[e].at /\ Goal(s, e) = s.v[e].at
    BY <1>2, <1>3, <1>6, <2>2 DEF Goal
  <2> QED
    BY <1>2, <1>6, <2>2, <2>3
<1>7. CASE ~(time # Seeks!None /\ s.v[e].at # time) /\ e # "leader"
  <2>1. r = d
    BY <1>4, <1>7
  <2>2. Goal(r, e) = s.v[e].at /\ Goal(s, e) = s.v[e].at
    BY <1>2, <1>3, <1>7, <2>1 DEF Goal
  <2> QED
    BY <1>2, <1>7, <2>1, <2>2
<1> QED
  BY <1>5, <1>6, <1>7

-----------------------------------------------------------------------------
(* The events that were not handled yet.                                   *)
EventKinds == {"seeked", "loaded"}
Queued(q, kind) == \E i \in DOMAIN q : q[i] = kind
LoadsFirst(q) == \A i \in DOMAIN q : q[i] = "loaded" => i = 1

LEMMA EventIsHandled ==
    ASSUME NEW q \in Seq(EventKinds), q # <<>>, LoadsFirst(q)
    PROVE  /\ Tail(q) \in Seq(EventKinds) /\ LoadsFirst(Tail(q)) /\ ~Queued(Tail(q), "loaded")
           /\ Head(q) \in EventKinds
           /\ Head(q) # "loaded" => ~Queued(q, "loaded")
           /\ Head(q) = "loaded" => Queued(q, "loaded") /\ (Queued(Tail(q), "seeked") <=> Queued(q, "seeked"))
           /\ Head(q) = "seeked" => Queued(q, "seeked")
<1>1. /\ Len(q) \in Nat /\ Len(q) >= 1 /\ DOMAIN q = 1..Len(q) /\ Head(q) = q[1]
      /\ \A i \in 1..Len(q) : q[i] \in EventKinds
  OBVIOUS
<1>2. /\ Tail(q) \in Seq(EventKinds) /\ DOMAIN Tail(q) = 1..(Len(q) - 1)
      /\ \A i \in 1..(Len(q) - 1) : Tail(q)[i] = q[i + 1]
  OBVIOUS
<1>3. \A i \in 1..(Len(q) - 1) : i + 1 \in 1..Len(q) /\ i + 1 # 1 /\ Tail(q)[i] # "loaded"
  BY <1>1, <1>2 DEF LoadsFirst
<1>4. ASSUME Head(q) = "loaded" PROVE Queued(Tail(q), "seeked") <=> Queued(q, "seeked")
  <2>1. ASSUME NEW i \in 1..Len(q), q[i] = "seeked" PROVE Queued(Tail(q), "seeked")
    <3>1. i # 1
      BY <1>1, <1>4, <2>1
    <3>2. i - 1 \in 1..(Len(q) - 1) /\ (i - 1) + 1 = i
      BY <1>1, <3>1
    <3>3. Tail(q)[i - 1] = q[i]
      BY <1>2, <3>2
    <3> QED
      BY <1>2, <2>1, <3>2, <3>3 DEF Queued
  <2> QED
    BY <1>1, <1>2, <1>3, <2>1 DEF Queued
<1> QED
  BY <1>1, <1>2, <1>3, <1>4 DEF Queued, LoadsFirst

LEMMA EventIsFired ==
    ASSUME NEW q \in Seq(EventKinds), LoadsFirst(q), NEW kind \in EventKinds, kind = "loaded" => q = <<>>
    PROVE  /\ Append(q, kind) \in Seq(EventKinds) /\ LoadsFirst(Append(q, kind))
           /\ Append(q, kind) # <<>>
           /\ Queued(Append(q, kind), kind)
           /\ \A other \in EventKinds : other # kind => (Queued(Append(q, kind), other) <=> Queued(q, other))
<1>1. /\ Append(q, kind) \in Seq(EventKinds) /\ Len(q) \in Nat
      /\ DOMAIN q = 1..Len(q) /\ DOMAIN Append(q, kind) = 1..(Len(q) + 1)
      /\ \A i \in 1..Len(q) : Append(q, kind)[i] = q[i]
      /\ Append(q, kind)[Len(q) + 1] = kind
  BY AppendProperties
<1>2. LoadsFirst(Append(q, kind))
  <2>1. q = <<>> => Len(q) = 0
    OBVIOUS
  <2> QED
    BY <1>1, <2>1 DEF LoadsFirst
<1>3. Len(q) + 1 \in 1..(Len(q) + 1) /\ \A i \in 1..(Len(q) + 1) : i \in 1..Len(q) \/ i = Len(q) + 1
  BY <1>1
<1>4. \A i \in 1..Len(q) : i \in 1..(Len(q) + 1)
  BY <1>1
<1>5. Append(q, kind) # <<>>
  BY <1>1
<1>6. ASSUME NEW other \in EventKinds, other # kind PROVE Queued(Append(q, kind), other) <=> Queued(q, other)
  BY <1>1, <1>3, <1>4, <1>6 DEF Queued
<1>7. Queued(Append(q, kind), kind)
  BY <1>1, <1>3 DEF Queued
<1> QED
  BY <1>1, <1>2, <1>5, <1>6, <1>7

(* An element is attached once the event of its loading was handled.       *)
Attached(s, ev, e) == s.v[e].loaded /\ ~Queued(ev[e], "loaded")

StillThere(s, ev, e) ==
    ~s.v[e].seeking /\ s.p.pending[e] = Seeks!None /\ ~Queued(ev[e], "seeked")

WellTyped(s, ev, ask) ==
    /\ s \in PlaybackState
    /\ ev \in [Pair -> Seq(EventKinds)]
    /\ ask \in Seeks!Frames
    /\ \A e \in Pair : s.p.pending[e] # Seeks!None => s.p.pending[e] \in Seeks!Frames

(* Before it loads, and for the leader before that is handled, nothing     *)
(* moves: the leader will start where users are.                           *)
Leading(s, ev, ask) ==
    /\ ~Attached(s, ev, "leader") => /\ StillThere(s, ev, "leader")
                                     /\ s.p.target = Seeks!None /\ s.p.resumeAt = ask
    /\ Attached(s, ev, "leader") => LeadsTo(s, ask, Queued(ev["leader"], "seeked"))

Following(s, ev, ask) ==
    /\ s.p.pending["follower"] # Seeks!None
         => s.v["follower"].seeking \/ Queued(ev["follower"], "seeked")
    /\ Attached(s, ev, "leader") /\ Attached(s, ev, "follower") => Follows(s, ask)

Unloaded(s, ev, e) == ~s.v[e].loaded => StillThere(s, ev, e) /\ ev[e] = <<>>

InSync(s, ev, ask) ==
    /\ WellTyped(s, ev, ask)
    /\ \A e \in Pair : LoadsFirst(ev[e]) /\ Unloaded(s, ev, e)
    /\ Leading(s, ev, ask)
    /\ Following(s, ev, ask)

SeekInv == InSync(Seeks!Now, events, asked)

LEMMA SeeksStart == AppAssumption /\ Seeks!Init => SeekInv
<1> SUFFICES ASSUME AppAssumption, Seeks!Init PROVE SeekInv
  OBVIOUS
<1>f. 0 \in Seeks!Frames /\ 0 \in Moments /\ Seeks!None \in Moments
  BY MomentsAre DEF AppAssumption, Seeks!SeeksAssumption, Seeks!Frames
<1>n. PICK s : s = Seeks!Now
  OBVIOUS
<1>0. s.v = video /\ s.p = player
  BY <1>n DEF Seeks!Now
<1>1. \A e \in Pair : /\ s.v[e].loaded = FALSE /\ s.v[e].seeking = FALSE
                      /\ s.p.pending[e] = Seeks!None /\ events[e] = <<>>
  BY <1>0 DEF Seeks!Init, Seeks!Elements, Pair
<1>2. s \in PlaybackState
  BY <1>n, <1>f DEF Seeks!Init, Seeks!Elements, Pair, Seeks!Now, PlaybackState, VideoState, PlayerState
<1>3. WellTyped(s, events, asked)
  BY <1>f, <1>1, <1>2 DEF WellTyped, Seeks!Init, Seeks!Elements, Pair
<1>4. \A e \in Pair : LoadsFirst(events[e]) /\ ~Queued(events[e], "seeked")
  BY <1>1 DEF LoadsFirst, Queued
<1>5. s.p.target = Seeks!None /\ s.p.resumeAt = asked
  BY <1>0 DEF Seeks!Init
<1>6. \A e \in Pair : ~Attached(s, events, e) /\ StillThere(s, events, e) /\ Unloaded(s, events, e)
  BY <1>1, <1>4 DEF Attached, StillThere, Unloaded
<1>7. "leader" \in Pair /\ "follower" \in Pair
  BY DEF Pair
<1>8. Leading(s, events, asked) /\ Following(s, events, asked)
  BY <1>1, <1>5, <1>6, <1>7 DEF Leading, Following
<1> QED
  BY <1>3, <1>4, <1>6, <1>8, <1>n DEF SeekInv, InSync

(* Users scrub: both elements go where they are now.                       *)
LEMMA ScrubKeepsSync ==
    ASSUME Seeks!SeeksAssumption, NEW s, NEW ev, NEW ask, InSync(s, ev, ask), NEW time \in Seeks!Frames,
           ~Queued(ev["leader"], "loaded"), NEW r, r = Seeks!Seek(s, time)
    PROVE  InSync(r, ev, time)
<1> DEFINE l == "leader"
           f == "follower"
<1>0. l \in Pair /\ f \in Pair /\ f # l /\ \A e \in Pair : e = l \/ e = f
  BY DEF Pair
<1>1. /\ s \in PlaybackState /\ ev \in [Pair -> Seq(EventKinds)]
      /\ \A e \in Pair : LoadsFirst(ev[e])
      /\ \A e \in Pair : s.p.pending[e] # Seeks!None => s.p.pending[e] \in Seeks!Frames
  BY DEF InSync, WellTyped
<1>2. CASE ~s.v[l].loaded
  <2>1. r = Resumes(s, time)
    BY <1>2 DEF Seeks!Seek, Seeks!Usable, Resumes
  <2>2. /\ r \in PlaybackState /\ r.v = s.v /\ r.p.target = s.p.target
        /\ r.p.resumeAt = time /\ r.p.pending = s.p.pending
    BY <1>1, <2>1, ResumeIs
  <2>3. WellTyped(r, ev, time)
    BY <1>1, <2>2 DEF WellTyped
  <2>4. \A e \in Pair : Unloaded(r, ev, e)
    BY <2>2 DEF InSync, Unloaded, StillThere
  <2>5. ~Attached(s, ev, l) /\ ~Attached(r, ev, l)
    BY <1>2, <2>2 DEF Attached
  <2>6. Leading(r, ev, time) /\ Following(r, ev, time)
    BY <2>2, <2>5 DEF InSync, Leading, Following, StillThere
  <2> QED
    BY <1>1, <2>3, <2>4, <2>6 DEF InSync
<1>3. CASE s.v[l].loaded
  <2>1. /\ r \in PlaybackState
        /\ LeadsTo(r, time, FALSE)
        /\ \A e \in Pair : r.v[e].loaded = s.v[e].loaded
        /\ s.v[f].seeking => r.v[f].seeking
        /\ s.v[f].loaded => Follows(r, time)
        /\ ~s.v[f].loaded => r.v[f] = s.v[f] /\ r.p.pending[f] = s.p.pending[f]
        /\ r.p.pending[f] # Seeks!None => r.v[f].seeking \/ r.p.pending[f] = s.p.pending[f]
    <3>1. Sought(s, time, r)
      BY <1>1, <1>3, SeekIs
    <3> QED
      BY <1>0, <3>1, Zenon DEF Sought
  <2>2. LeadsTo(r, time, Queued(ev[l], "seeked"))
    BY <2>1 DEF LeadsTo
  <2>3. r.p.pending[l] # Seeks!None => r.p.pending[l] \in Seeks!Frames
    BY <2>1 DEF LeadsTo, Goal
  <2>4. r.p.pending[f] # Seeks!None => r.p.pending[f] \in Seeks!Frames
    <3>1. Seeks!Within(time, f) \in Seeks!Frames
      BY <1>0, WithinIs
    <3> QED
      BY <1>0, <1>1, <2>1, <3>1 DEF Follows, Goal
  <2>5. WellTyped(r, ev, time)
    BY <1>0, <1>1, <2>1, <2>3, <2>4 DEF WellTyped
  <2>6. \A e \in Pair : Unloaded(r, ev, e)
    BY <1>0, <1>3, <2>1 DEF InSync, Unloaded, StillThere
  <2>7. Leading(r, ev, time)
    BY <1>0, <1>3, <2>1, <2>2 DEF Leading, Attached
  <2>8. Following(r, ev, time)
    BY <1>0, <2>1 DEF InSync, Following, Attached
  <2> QED
    BY <1>1, <2>5, <2>6, <2>7, <2>8 DEF InSync
<1> QED
  BY <1>2, <1>3

(* The end of a seek is heard.                                             *)
LEMMA SeekedKeepsSync ==
    ASSUME NEW s, NEW ev, NEW ask, InSync(s, ev, ask), NEW e \in Pair,
           ev[e] # <<>>, Head(ev[e]) = "seeked",
           NEW evn, evn = [ev EXCEPT ![e] = Tail(ev[e])], NEW r, r = Seeks!OnSeeked(s, e)
    PROVE  InSync(r, evn, ask)
<1> DEFINE l == "leader"
           f == "follower"
<1>0. l \in Pair /\ f \in Pair /\ f # l /\ \A x \in Pair : x = l \/ x = f
  BY DEF Pair
<1>1. /\ s \in PlaybackState /\ ev \in [Pair -> Seq(EventKinds)] /\ ask \in Seeks!Frames
      /\ \A x \in Pair : LoadsFirst(ev[x])
      /\ \A x \in Pair : s.p.pending[x] # Seeks!None => s.p.pending[x] \in Seeks!Frames
  BY DEF InSync, WellTyped
<1>2. Ended(s, e, r)
  BY <1>1, OnSeekedIs
<1>3. /\ evn \in [Pair -> Seq(EventKinds)]
      /\ \A x \in Pair : x # e => evn[x] = ev[x]
      /\ LoadsFirst(evn[e]) /\ ~Queued(evn[e], "loaded") /\ ~Queued(ev[e], "loaded") /\ Queued(ev[e], "seeked")
  <2>1. ev[e] \in Seq(EventKinds) /\ evn[e] = Tail(ev[e])
    BY <1>1
  <2>2. /\ Tail(ev[e]) \in Seq(EventKinds) /\ LoadsFirst(Tail(ev[e])) /\ ~Queued(Tail(ev[e]), "loaded")
        /\ ~Queued(ev[e], "loaded") /\ Queued(ev[e], "seeked")
    BY <1>1, <2>1, EventIsHandled
  <2> QED
    BY <1>1, <2>1, <2>2
<1>4. s.v[e].loaded /\ r.v[e].loaded /\ Attached(s, ev, e) /\ Attached(r, evn, e)
  BY <1>2, <1>3 DEF InSync, Unloaded, Attached, Ended
<1>5. WellTyped(r, evn, ask)
  BY <1>1, <1>2, <1>3 DEF WellTyped, Ended
<1>6. \A x \in Pair : LoadsFirst(evn[x]) /\ Unloaded(r, evn, x)
  BY <1>1, <1>2, <1>3, <1>4 DEF InSync, Unloaded, StillThere, Ended
<1>7. CASE e = l
  <2>1. LeadsTo(s, ask, Queued(ev[l], "seeked"))
    BY <1>4, <1>7 DEF InSync, Leading
  <2>2. LeadsTo(r, ask, Queued(evn[l], "seeked"))
    BY <1>2, <1>7, <2>1 DEF LeadsTo, Ended
  <2>3. Leading(r, evn, ask)
    BY <1>4, <1>7, <2>2 DEF Leading
  <2>4. r.v[f] = s.v[f] /\ r.p.pending[f] = s.p.pending[f] /\ evn[f] = ev[f]
    BY <1>0, <1>2, <1>3, <1>7 DEF Ended
  <2>5. Following(r, evn, ask)
    BY <1>4, <1>7, <2>4 DEF InSync, Following, Attached, Follows, Goal
  <2> QED
    BY <1>5, <1>6, <2>3, <2>5 DEF InSync
<1>8. CASE e = f
  <2>1. /\ r.v[l] = s.v[l] /\ r.p.pending[l] = s.p.pending[l] /\ evn[l] = ev[l]
        /\ r.p.target = s.p.target /\ r.p.resumeAt = s.p.resumeAt
    BY <1>0, <1>2, <1>3, <1>8 DEF Ended
  <2>2. Leading(r, evn, ask)
    BY <2>1 DEF InSync, Leading, Attached, StillThere, LeadsTo, Goal
  <2>3. Goal(r, f) = Goal(s, f) /\ r.p.pending[f] = Seeks!None
    BY <1>2, <1>8 DEF Ended
  <2>4. Following(r, evn, ask)
    BY <1>4, <1>8, <2>1, <2>3 DEF InSync, Following, Attached, Follows
  <2> QED
    BY <1>5, <1>6, <2>2, <2>4 DEF InSync
<1> QED
  BY <1>0, <1>7, <1>8

(* An element that loaded is attached: the leader goes where users are,    *)
(* the follower where the leader is.                                       *)
LEMMA LoadedKeepsSync ==
    ASSUME Seeks!SeeksAssumption, NEW s, NEW ev, NEW ask, InSync(s, ev, ask), NEW e \in Pair,
           ev[e] # <<>>, Head(ev[e]) = "loaded",
           NEW evn, evn = [ev EXCEPT ![e] = Tail(ev[e])], NEW r, r = Seeks!OnLoaded(s, e)
    PROVE  InSync(r, evn, ask)
<1> DEFINE l == "leader"
           f == "follower"
<1>0. l \in Pair /\ f \in Pair /\ f # l /\ \A x \in Pair : x = l \/ x = f
  BY DEF Pair
<1>1. /\ s \in PlaybackState /\ ev \in [Pair -> Seq(EventKinds)] /\ ask \in Seeks!Frames
      /\ \A x \in Pair : LoadsFirst(ev[x])
      /\ \A x \in Pair : s.p.pending[x] # Seeks!None => s.p.pending[x] \in Seeks!Frames
  BY DEF InSync, WellTyped
<1>2. /\ evn \in [Pair -> Seq(EventKinds)]
      /\ \A x \in Pair : x # e => evn[x] = ev[x]
      /\ LoadsFirst(evn[e]) /\ ~Queued(evn[e], "loaded") /\ Queued(ev[e], "loaded")
      /\ Queued(evn[e], "seeked") <=> Queued(ev[e], "seeked")
  <2>1. ev[e] \in Seq(EventKinds) /\ evn[e] = Tail(ev[e])
    BY <1>1
  <2>2. /\ Tail(ev[e]) \in Seq(EventKinds) /\ LoadsFirst(Tail(ev[e])) /\ ~Queued(Tail(ev[e]), "loaded")
        /\ Queued(ev[e], "loaded") /\ (Queued(Tail(ev[e]), "seeked") <=> Queued(ev[e], "seeked"))
    BY <1>1, <2>1, EventIsHandled
  <2> QED
    BY <1>1, <2>1, <2>2
<1>3. s.v[e].loaded /\ ~Attached(s, ev, e)
  BY <1>2 DEF InSync, Unloaded, Attached
<1>4. Seeks!Within(ask, f) \in Seeks!Frames
  BY <1>0, <1>1, WithinIs
<1>5. CASE e = l /\ s.v[l].at # s.p.resumeAt
  <2>1. StillThere(s, ev, l) /\ s.p.target = Seeks!None /\ s.p.resumeAt = ask
    BY <1>3, <1>5 DEF InSync, Leading
  <2>2. r = Seeks!Seek(s, ask)
    BY <1>5, <2>1 DEF Seeks!OnLoaded
  <2>3. Sought(s, ask, r)
    BY <1>1, <1>3, <1>5, <2>2, SeekIs
  <2>4. LeadsTo(r, ask, Queued(evn[l], "seeked"))
    BY <2>3 DEF Sought, LeadsTo
  <2>5. r.v[l].loaded /\ Attached(r, evn, l) /\ evn[f] = ev[f]
    BY <1>0, <1>2, <1>3, <1>5, <2>3 DEF Attached, Sought
  <2>6. r.p.pending[l] # Seeks!None => r.p.pending[l] \in Seeks!Frames
    BY <1>1, <2>4 DEF LeadsTo, Goal
  <2>7. r.p.pending[f] # Seeks!None => r.p.pending[f] \in Seeks!Frames
    BY <1>0, <1>1, <1>4, <2>3 DEF Sought, Follows, Goal
  <2>8. WellTyped(r, evn, ask)
    BY <1>0, <1>1, <1>2, <2>3, <2>6, <2>7 DEF WellTyped, Sought
  <2>9. \A x \in Pair : LoadsFirst(evn[x]) /\ Unloaded(r, evn, x)
    BY <1>0, <1>1, <1>2, <1>5, <2>3, <2>5 DEF InSync, Unloaded, StillThere, Sought
  <2>10. Leading(r, evn, ask)
    BY <2>4, <2>5 DEF Leading
  <2>11. Following(r, evn, ask)
    BY <1>0, <2>3, <2>5 DEF InSync, Following, Attached, Sought
  <2> QED
    BY <2>8, <2>9, <2>10, <2>11 DEF InSync
<1>6. CASE ~(e = l /\ s.v[l].at # s.p.resumeAt)
  <2>1. r = Seeks!AlignFollower(s)
    BY <1>6 DEF Seeks!OnLoaded
  <2>2. s.v[l].at \in Seeks!Frames
    BY <1>0, <1>1 DEF PlaybackState, VideoState
  <2>3. e = l => /\ LeadsTo(s, ask, Queued(evn[l], "seeked"))
                 /\ Goal(s, l) = ask
    BY <1>3, <1>6 DEF InSync, Leading, StillThere, LeadsTo, Goal
  <2>4. s.v[l].loaded => Seeks!Time(s) \in Seeks!Frames
    <3>1. CASE Attached(s, ev, l)
      <4>1. LeadsTo(s, ask, Queued(ev[l], "seeked"))
        BY <3>1 DEF InSync, Leading
      <4> QED
        BY <1>1, <4>1, TimeIs
    <3>2. CASE ~Attached(s, ev, l)
      <4>1. s.p.target = Seeks!None
        BY <3>2 DEF InSync, Leading
      <4> QED
        BY <2>2, <4>1 DEF Seeks!Time, Seeks!Usable
    <3> QED
      BY <3>1, <3>2
  <2>5. Aligned(s, r)
    BY <1>1, <2>1, <2>4, AlignFollowerIs
  <2>6. /\ r \in PlaybackState /\ r.v[l] = s.v[l] /\ r.p.pending[l] = s.p.pending[l]
        /\ r.p.target = s.p.target /\ r.p.resumeAt = s.p.resumeAt /\ r.v[f].loaded = s.v[f].loaded
    BY <2>5 DEF Aligned
  <2>7. Leading(r, evn, ask)
    <3>1. CASE e = l
      <4>1. LeadsTo(r, ask, Queued(evn[l], "seeked"))
        BY <2>3, <2>6, <3>1 DEF LeadsTo, Goal
      <4>2. Attached(r, evn, l)
        BY <1>2, <1>3, <2>6, <3>1 DEF Attached
      <4> QED
        BY <4>1, <4>2 DEF Leading
    <3>2. CASE e = f
      <4>1. evn[l] = ev[l]
        BY <1>0, <1>2, <3>2
      <4> QED
        BY <2>6, <4>1 DEF InSync, Leading, Attached, StillThere, LeadsTo, Goal
    <3> QED
      BY <1>0, <3>1, <3>2
  <2>8. Attached(r, evn, l) /\ Attached(r, evn, f) => Follows(r, ask)
    <3>1. ASSUME Attached(r, evn, l), Attached(r, evn, f) PROVE Follows(r, ask)
      <4>1. LeadsTo(s, ask, Queued(evn[l], "seeked"))
        BY <2>6, <2>7, <3>1 DEF Leading, LeadsTo, Goal
      <4>2. s.v[l].loaded /\ s.v[f].loaded
        BY <2>6, <3>1 DEF Attached
      <4>3. Seeks!Time(s) = ask
        BY <1>1, <4>1, <4>2, TimeIs
      <4> QED
        BY <2>5, <4>2, <4>3 DEF Aligned
    <3> QED
      BY <3>1
  <2>9. (Queued(evn[f], "seeked") <=> Queued(ev[f], "seeked")) /\ (Queued(evn[l], "seeked") <=> Queued(ev[l], "seeked"))
    BY <1>0, <1>2
  <2>10. r.p.pending[f] # Seeks!None => r.v[f].seeking \/ Queued(evn[f], "seeked")
    BY <2>5, <2>9 DEF InSync, Following, Aligned
  <2>11. r.p.pending[f] # Seeks!None => r.p.pending[f] \in Seeks!Frames
    <3>1. CASE s.v[l].loaded /\ s.v[f].loaded
      <4>1. Follows(r, Seeks!Time(s)) /\ Seeks!Within(Seeks!Time(s), f) \in Seeks!Frames
        BY <1>0, <2>4, <2>5, <3>1, WithinIs DEF Aligned
      <4> QED
        BY <4>1 DEF Follows, Goal
    <3>2. CASE ~(s.v[l].loaded /\ s.v[f].loaded)
      BY <1>0, <1>1, <2>5, <3>2 DEF Aligned
    <3> QED
      BY <3>1, <3>2
  <2>12. WellTyped(r, evn, ask)
    BY <1>0, <1>1, <1>2, <2>6, <2>11 DEF WellTyped
  <2>13. ASSUME NEW x \in Pair PROVE LoadsFirst(evn[x]) /\ Unloaded(r, evn, x)
    <3>1. LoadsFirst(evn[x])
      BY <1>1, <1>2
    <3>2. ASSUME ~r.v[x].loaded PROVE StillThere(r, evn, x) /\ evn[x] = <<>>
      <4>1. ~s.v[x].loaded
        BY <1>0, <2>6, <3>2
      <4>2. x # e /\ evn[x] = ev[x] /\ StillThere(s, ev, x) /\ ev[x] = <<>>
        BY <1>2, <1>3, <4>1 DEF InSync, Unloaded
      <4>3. r = s \/ x = l
        BY <1>0, <2>5, <4>1 DEF Aligned
      <4> QED
        BY <2>6, <4>2, <4>3 DEF StillThere
    <3> QED
      BY <3>1, <3>2 DEF Unloaded
  <2> QED
    BY <2>7, <2>8, <2>10, <2>12, <2>13 DEF InSync, Following
<1> QED
  BY <1>5, <1>6

(* The browser: an element loads, or ends a seek, and will say so.         *)
Fired(s, e, kind, r) ==
    /\ r.p = s.p
    /\ \A x \in Pair : x # e => r.v[x] = s.v[x]
    /\ r.v[e].at = s.v[e].at
    /\ kind = "loaded" => ~s.v[e].loaded
    /\ kind = "loaded" => r.v[e].loaded /\ r.v[e].seeking = s.v[e].seeking
    /\ kind = "seeked" => ~r.v[e].seeking /\ r.v[e].loaded = s.v[e].loaded /\ s.v[e].seeking

LEMMA BrowserKeepsSync ==
    ASSUME NEW s, NEW ev, NEW ask, InSync(s, ev, ask), NEW e \in Pair, NEW kind \in EventKinds,
           NEW r \in PlaybackState, Fired(s, e, kind, r),
           NEW evn, evn = [ev EXCEPT ![e] = Append(ev[e], kind)]
    PROVE  InSync(r, evn, ask)
<1> USE DEF Fired
<1> DEFINE l == "leader"
           f == "follower"
<1>0. l \in Pair /\ f \in Pair /\ f # l /\ \A x \in Pair : x = l \/ x = f
  BY DEF Pair
<1>1. /\ s \in PlaybackState /\ ev \in [Pair -> Seq(EventKinds)] /\ ask \in Seeks!Frames
      /\ \A x \in Pair : LoadsFirst(ev[x])
      /\ \A x \in Pair : s.p.pending[x] # Seeks!None => s.p.pending[x] \in Seeks!Frames
  BY DEF InSync, WellTyped
<1>2. kind = "loaded" => ev[e] = <<>>
  BY DEF InSync, Unloaded
<1>3. /\ evn \in [Pair -> Seq(EventKinds)]
      /\ \A x \in Pair : x # e => evn[x] = ev[x]
      /\ LoadsFirst(evn[e]) /\ Queued(evn[e], kind)
      /\ \A other \in EventKinds : other # kind => (Queued(evn[e], other) <=> Queued(ev[e], other))
  <2>1. ev[e] \in Seq(EventKinds) /\ evn[e] = Append(ev[e], kind)
    BY <1>1
  <2>2. /\ Append(ev[e], kind) \in Seq(EventKinds) /\ LoadsFirst(Append(ev[e], kind))
        /\ Queued(Append(ev[e], kind), kind)
        /\ \A other \in EventKinds : other # kind => (Queued(Append(ev[e], kind), other) <=> Queued(ev[e], other))
    BY <1>1, <1>2, <2>1, EventIsFired
  <2> QED
    BY <1>1, <2>1, <2>2
<1>4. WellTyped(r, evn, ask)
  BY <1>1, <1>3 DEF WellTyped
<1>5. \A x \in Pair : Goal(r, x) = Goal(s, x)
  BY DEF Goal
<1>6. CASE kind = "loaded"
  <2>1. ~s.v[e].loaded /\ StillThere(s, ev, e) /\ ~Attached(s, ev, e) /\ ~Attached(r, evn, e)
    BY <1>3, <1>6 DEF InSync, Unloaded, Attached
  <2>2. r.v[e].loaded /\ StillThere(r, evn, e)
    <3>1. "seeked" \in EventKinds /\ "seeked" # kind
      BY <1>6 DEF EventKinds
    <3> QED
      BY <1>3, <1>6, <2>1, <3>1 DEF StillThere
  <2>3. \A x \in Pair : LoadsFirst(evn[x]) /\ Unloaded(r, evn, x)
    BY <1>1, <1>3, <2>2 DEF InSync, Unloaded, StillThere
  <2>4. CASE e = l
    <3>1. Leading(r, evn, ask)
      BY <2>1, <2>2, <2>4 DEF InSync, Leading
    <3>2. r.v[f] = s.v[f] /\ evn[f] = ev[f]
      BY <1>0, <1>3, <2>4
    <3>3. Following(r, evn, ask)
      BY <2>1, <2>4, <3>2 DEF InSync, Following
    <3> QED
      BY <1>4, <2>3, <3>1, <3>3 DEF InSync
  <2>5. CASE e = f
    <3>1. r.v[l] = s.v[l] /\ evn[l] = ev[l]
      BY <1>0, <1>3, <2>5
    <3>2. Leading(r, evn, ask)
      BY <3>1 DEF InSync, Leading, Attached, StillThere, LeadsTo, Goal
    <3>3. Following(r, evn, ask)
      BY <2>1, <2>2, <2>5 DEF Following, StillThere
    <3> QED
      BY <1>4, <2>3, <3>2, <3>3 DEF InSync
  <2> QED
    BY <1>0, <2>4, <2>5
<1>7. CASE kind = "seeked"
  <2>1. s.v[e].loaded /\ r.v[e].loaded
    BY <1>7 DEF InSync, Unloaded, StillThere
  <2>2. "loaded" \in EventKinds /\ "loaded" # kind
    BY <1>7 DEF EventKinds
  <2>3. Attached(r, evn, e) <=> Attached(s, ev, e)
    BY <1>3, <2>1, <2>2 DEF Attached
  <2>4. \A x \in Pair : LoadsFirst(evn[x]) /\ Unloaded(r, evn, x)
    BY <1>1, <1>3, <2>1 DEF InSync, Unloaded, StillThere
  <2>5. CASE e = l
    <3>1. Attached(s, ev, l)
      BY <1>7, <2>5 DEF InSync, Leading, StillThere
    <3>2. Queued(evn[l], "seeked")
      BY <1>3, <1>7, <2>5
    <3>3. LeadsTo(r, ask, Queued(evn[l], "seeked"))
      BY <1>0, <1>5, <3>1, <3>2 DEF InSync, Leading, LeadsTo
    <3>4. Leading(r, evn, ask)
      BY <2>3, <2>5, <3>1, <3>3 DEF Leading
    <3>5. r.v[f] = s.v[f] /\ evn[f] = ev[f]
      BY <1>0, <1>3, <2>5
    <3>6. Following(r, evn, ask)
      BY <1>0, <1>5, <3>1, <3>5 DEF InSync, Following, Attached, Follows
    <3> QED
      BY <1>4, <2>4, <3>4, <3>6 DEF InSync
  <2>6. CASE e = f
    <3>1. r.v[l] = s.v[l] /\ evn[l] = ev[l]
      BY <1>0, <1>3, <2>6
    <3>2. Leading(r, evn, ask)
      BY <3>1 DEF InSync, Leading, Attached, StillThere, LeadsTo, Goal
    <3>3. Queued(evn[f], "seeked")
      BY <1>3, <1>7, <2>6
    <3>4. Attached(r, evn, l) /\ Attached(r, evn, f) => Attached(s, ev, l) /\ Attached(s, ev, f)
      BY <2>3, <2>6, <3>1 DEF Attached
    <3>5. Following(r, evn, ask)
      BY <1>0, <1>5, <3>3, <3>4 DEF InSync, Following, Follows
    <3> QED
      BY <1>4, <2>4, <3>2, <3>5 DEF InSync
  <2> QED
    BY <1>0, <2>5, <2>6
<1> QED
  BY <1>6, <1>7 DEF EventKinds

LEMMA SeeksNext == AppAssumption /\ SeekInv /\ [Seeks!Next]_videos => SeekInv'
<1> SUFFICES ASSUME AppAssumption, SeekInv, [Seeks!Next]_videos PROVE SeekInv'
  OBVIOUS
<1>0. Seeks!SeeksAssumption /\ Seeks!Elements = Pair
  BY DEF AppAssumption, Seeks!Elements, Pair
<1>1. PICK s, ev, ask : s = Seeks!Now /\ ev = events /\ ask = asked
  OBVIOUS
<1>2. InSync(s, ev, ask) /\ s.v = video /\ s.p = player
  BY <1>1 DEF SeekInv, Seeks!Now
<1>3. s \in PlaybackState /\ ev \in [Pair -> Seq(EventKinds)]
  BY <1>2 DEF InSync, WellTyped
<1>4. ASSUME NEW r \in PlaybackState, NEW evn, NEW askn, InSync(r, evn, askn),
             video' = r.v, player' = r.p, events' = evn, asked' = askn
      PROVE  SeekInv'
  <2>1. Seeks!Now' = r
    BY <1>4 DEF Seeks!Now, PlaybackState
  <2> QED
    BY <1>4, <2>1 DEF SeekInv
<1>5. CASE UNCHANGED videos
  <2>1. UNCHANGED <<video, player, events, asked>>
    BY <1>5 DEF videos
  <2> QED
    BY <1>1, <1>2, <1>3, <1>4, <2>1
<1>6. CASE Seeks!UserSeeks
  <2>1. PICK time \in Seeks!Frames :
            /\ ~Queued(ev["leader"], "loaded")
            /\ Seeks!Becomes(Seeks!Seek(s, time)) /\ asked' = time /\ UNCHANGED events
    BY <1>1, <1>6 DEF Seeks!UserSeeks, Queued
  <2>2. time \in Seeks!Frames
    BY <2>1
  <2>3. PICK r : r = Seeks!Seek(s, time)
    OBVIOUS
  <2>4. InSync(r, ev, time)
    BY <1>0, <1>2, <2>1, <2>2, <2>3, ScrubKeepsSync
  <2>5. r \in PlaybackState
    BY <2>4 DEF InSync, WellTyped
  <2> QED
    BY <1>1, <1>4, <2>1, <2>3, <2>4, <2>5 DEF Seeks!Becomes
<1>7. ASSUME NEW e \in Pair, Seeks!Deliver(e) PROVE SeekInv'
  <2>1. PICK r : r = IF Head(ev[e]) = "loaded" THEN Seeks!OnLoaded(s, e) ELSE Seeks!OnSeeked(s, e)
    OBVIOUS
  <2>2. PICK evn : evn = [ev EXCEPT ![e] = Tail(ev[e])]
    OBVIOUS
  <2>3. ev[e] # <<>> /\ events' = evn /\ video' = r.v /\ player' = r.p /\ asked' = ask
    BY <1>1, <1>7, <2>1, <2>2 DEF Seeks!Deliver, Seeks!Becomes
  <2>4. Head(ev[e]) = "loaded" \/ Head(ev[e]) = "seeked"
    <3>1. ev[e] \in Seq(EventKinds) /\ LoadsFirst(ev[e])
      BY <1>2, <1>3 DEF InSync
    <3>2. Head(ev[e]) \in EventKinds
      BY <2>3, <3>1, EventIsHandled
    <3> QED
      BY <3>2 DEF EventKinds
  <2>5. InSync(r, evn, ask)
    <3>1. CASE Head(ev[e]) = "loaded"
      BY <1>0, <1>2, <2>1, <2>2, <2>3, <3>1, LoadedKeepsSync
    <3>2. CASE Head(ev[e]) = "seeked"
      BY <1>0, <1>2, <2>1, <2>2, <2>3, <3>2, SeekedKeepsSync
    <3> QED
      BY <2>4, <3>1, <3>2
  <2>6. r \in PlaybackState
    BY <2>5 DEF InSync, WellTyped
  <2> QED
    BY <1>4, <2>3, <2>5, <2>6
<1>8. ASSUME NEW e \in Pair, Seeks!Load(e) \/ Seeks!SeekEnds(e) PROVE SeekInv'
  <2>0. PICK v : v = video'
    OBVIOUS
  <2>1. PICK kind \in EventKinds :
            /\ events' = [events EXCEPT ![e] = Append(@, kind)]
            /\ UNCHANGED <<player, asked>>
            /\ \/ kind = "loaded" /\ ~video[e].loaded /\ v = [video EXCEPT ![e].loaded = TRUE]
               \/ kind = "seeked" /\ video[e].seeking /\ v = [video EXCEPT ![e].seeking = FALSE]
    BY <1>8, <2>0 DEF Seeks!Load, Seeks!SeekEnds, Seeks!Fires, EventKinds
  <2>2. PICK r : r = [v |-> v, p |-> player]
    OBVIOUS
  <2>3. video \in [Pair -> VideoState] /\ player \in PlayerState
    BY <1>2, <1>3 DEF PlaybackState
  <2>4. /\ v \in [Pair -> VideoState]
        /\ \A x \in Pair : x # e => v[x] = video[x]
        /\ v[e].at = video[e].at
        /\ kind = "loaded" => v[e].loaded /\ v[e].seeking = video[e].seeking
        /\ kind = "seeked" => ~v[e].seeking /\ v[e].loaded = video[e].loaded
    <3>1. CASE kind = "loaded"
      <4>1. v = [video EXCEPT ![e].loaded = TRUE]
        BY <2>1, <3>1
      <4> QED
        BY <2>3, <3>1, <4>1 DEF VideoState
    <3>2. CASE kind = "seeked"
      <4>1. v = [video EXCEPT ![e].seeking = FALSE]
        BY <2>1, <3>2
      <4> QED
        BY <2>3, <3>2, <4>1 DEF VideoState
    <3> QED
      BY <3>1, <3>2 DEF EventKinds
  <2>5. r \in PlaybackState /\ r.v = v /\ r.p = s.p
    BY <1>2, <2>2, <2>3, <2>4 DEF PlaybackState
  <2>6. PICK evn : evn = [ev EXCEPT ![e] = Append(ev[e], kind)]
    OBVIOUS
  <2>7. InSync(r, evn, ask)
    <3>1. Fired(s, e, kind, r)
      BY <1>2, <2>1, <2>4, <2>5 DEF Fired
    <3> QED
      BY <1>2, <2>5, <2>6, <3>1, BrowserKeepsSync
  <2>8. video' = r.v /\ player' = r.p /\ events' = evn /\ asked' = ask
    BY <1>1, <1>2, <2>0, <2>1, <2>5, <2>6
  <2> QED
    BY <1>4, <2>5, <2>7, <2>8
<1> QED
  BY <1>0, <1>5, <1>6, <1>7, <1>8 DEF Seeks!Next

(* Once no video seeks, loads or has an event to handle, they show the     *)
(* same frame, the one users asked for last, and nothing is pending        *)
(* (seek, seekElement, onSeeked, alignFollower).                           *)
THEOREM SettledIsInSync == AppSpec => []SameFrameWhenSettled
<1>1. AppInit => SeekInv
  BY SeeksStart, AppAssumption DEF AppInit
<1>2. SeekInv /\ [AppNext]_app => SeekInv'
  BY SeeksNext, StepsOfViewers, AppAssumption
<1>3. SeekInv => SameFrameWhenSettled
  <2> SUFFICES ASSUME SeekInv, Seeks!Settled
               PROVE  /\ player.target = Seeks!None
                      /\ \A e \in Seeks!Elements : player.pending[e] = Seeks!None
                      /\ video["leader"].at = asked
                      /\ video["follower"].at = Seeks!Within(asked, "follower")
    BY DEF SameFrameWhenSettled, Seeks!SameFrameWhenSettled
  <2>1. PICK s : s = Seeks!Now
    OBVIOUS
  <2>2. InSync(s, events, asked) /\ s.v = video /\ s.p = player
    BY <2>1 DEF SeekInv, Seeks!Now
  <2>3. \A e \in Pair : events[e] = <<>> /\ ~s.v[e].seeking /\ s.v[e].loaded
    BY <2>2 DEF Seeks!Settled, Seeks!Elements, Pair
  <2>4. "leader" \in Pair /\ "follower" \in Pair /\ Seeks!Elements = Pair
    BY DEF Pair, Seeks!Elements
  <2>5. \A e \in Pair : ~Queued(events[e], "seeked") /\ Attached(s, events, e)
    BY <2>3 DEF Queued, Attached
  <2>6. LeadsTo(s, asked, Queued(events["leader"], "seeked")) /\ Follows(s, asked)
        /\ s.p.pending["follower"] = Seeks!None
    BY <2>2, <2>3, <2>4, <2>5 DEF InSync, Leading, Following
  <2>7. s.p.pending["leader"] = Seeks!None /\ s.p.target = Seeks!None
    BY <2>3, <2>4, <2>5, <2>6 DEF LeadsTo
  <2>8. Goal(s, "leader") = asked /\ Goal(s, "follower") = Seeks!Within(asked, "follower")
    BY <2>6 DEF LeadsTo, Follows
  <2>9. \A e \in Pair : s.p.pending[e] = Seeks!None
    BY <2>6, <2>7 DEF Pair
  <2> QED
    BY <2>2, <2>4, <2>7, <2>8, <2>9 DEF Goal
<1> QED
  BY <1>1, <1>2, <1>3, PTL DEF AppSpec

ScrubsAreCounted == seeks \in 0..MaxSeeks

LEMMA SeekShapes == AppSpec => []Seeks!TypeOK
<1>1. AppInit => SeekInv /\ ScrubsAreCounted
  BY SeeksStart, AppAssumption DEF AppInit, AppAssumption, Seeks!SeeksAssumption, Seeks!Init, ScrubsAreCounted
<1>2. SeekInv /\ ScrubsAreCounted /\ [AppNext]_app => SeekInv' /\ ScrubsAreCounted'
  <2> SUFFICES ASSUME SeekInv, ScrubsAreCounted, [Seeks!Next]_videos PROVE SeekInv' /\ ScrubsAreCounted'
    BY StepsOfViewers
  <2>1. SeekInv'
    BY SeeksNext, AppAssumption
  <2>2. ScrubsAreCounted'
    <3>1. CASE UNCHANGED videos
      BY <3>1 DEF videos, ScrubsAreCounted
    <3>2. CASE Seeks!UserSeeks
      BY <3>2, AppAssumption DEF Seeks!UserSeeks, ScrubsAreCounted, AppAssumption, Seeks!SeeksAssumption
    <3>3. ASSUME NEW e \in Seeks!Elements, Seeks!Load(e) \/ Seeks!SeekEnds(e) \/ Seeks!Deliver(e)
          PROVE  ScrubsAreCounted'
      BY <3>3 DEF Seeks!Load, Seeks!SeekEnds, Seeks!Deliver, Seeks!Fires, ScrubsAreCounted
    <3> QED
      BY <3>1, <3>2, <3>3 DEF Seeks!Next
  <2> QED
    BY <2>1, <2>2
<1>3. SeekInv /\ ScrubsAreCounted => Seeks!TypeOK
  <2> SUFFICES ASSUME SeekInv, ScrubsAreCounted PROVE Seeks!TypeOK
    OBVIOUS
  <2>1. Seeks!Now \in PlaybackState /\ events \in [Pair -> Seq(EventKinds)] /\ asked \in Seeks!Frames
    BY DEF SeekInv, InSync, WellTyped
  <2>2. video \in [Pair -> VideoState] /\ player \in PlayerState
    BY <2>1 DEF Seeks!Now, PlaybackState
  <2> QED
    BY <2>1, <2>2 DEF ScrubsAreCounted, Seeks!TypeOK, Seeks!Elements, Pair, VideoState, PlayerState, Moments, EventKinds
<1> QED
  BY <1>1, <1>2, <1>3, PTL DEF AppSpec

-----------------------------------------------------------------------------
(***************************************************************************)
(* References.  The URL only has the colors and names that could not be    *)
(* told, so both promises come down to the readings: what side_colors and  *)
(* reference_names give to the new URL is what they gave to the old one.   *)
(***************************************************************************)
(***************************************************************************)
(* The k-th smallest of a finite set of numbers (Smallest).                *)
(***************************************************************************)
Below(S, n) == {m \in S : m < n}
Within(S, b) == \A m \in S : m \in Int /\ 0 <= m /\ m <= b

LEMMA SameCardinality == \A S : Refs!Cardinality(S) = Cardinality(S)
BY Zenon DEF Refs!Cardinality, Cardinality

LEMMA LeastOf ==
    ASSUME NEW T \in SUBSET Nat, T # {}
    PROVE  \E x \in T : \A y \in T : x <= y
<1>1. IsWellFoundedOn(OpToRel(<, Nat), Nat)
  BY NatLessThanWellFounded
<1>2. PICK x \in T : \A y \in T : <<y, x>> \notin OpToRel(<, Nat)
  BY <1>1, WFMin
<1>3. \A y \in T : ~(y < x)
  BY <1>2 DEF OpToRel
<1> QED
  BY <1>3

LEMMA BelowIsFinite ==
    ASSUME NEW b \in Nat, NEW S, Within(S, b), NEW n \in Int
    PROVE  /\ IsFiniteSet(S) /\ IsFiniteSet(Below(S, n))
           /\ Cardinality(S) \in Nat /\ Cardinality(Below(S, n)) \in Nat
           /\ Cardinality(Below(S, n)) <= Cardinality(S)
<1>1. IsFiniteSet(0..b)
  BY FS_Interval
<1>2. IsFiniteSet(S)
  <2>1. S \in SUBSET (0..b)
    BY DEF Within
  <2> QED
    BY <1>1, <2>1, FS_Subset
<1>3. Below(S, n) \in SUBSET S
  BY DEF Below
<1>4. IsFiniteSet(Below(S, n)) /\ Cardinality(Below(S, n)) <= Cardinality(S)
  BY <1>2, <1>3, FS_Subset
<1> QED
  BY <1>2, <1>4, FS_CardinalityType

LEMMA BelowGrows ==
    ASSUME NEW S, \A y \in S : y \in Int, NEW x \in S, NEW m \in Int, x < m
    PROVE  Below(S, x) \in SUBSET Below(S, m) /\ x \in Below(S, m) /\ x \notin Below(S, x)
BY DEF Below

(* Elements with as many others below them are the same.                   *)
LEMMA PlacesDiffer ==
    ASSUME NEW b \in Nat, NEW S, Within(S, b), NEW x \in S, NEW y \in S,
           Cardinality(Below(S, x)) = Cardinality(Below(S, y))
    PROVE  x = y
<1>1. ASSUME NEW u \in S, NEW v \in S, u < v PROVE Cardinality(Below(S, u)) # Cardinality(Below(S, v))
  <2>0. \A m \in S : m \in Int
    BY DEF Within
  <2>1. Below(S, u) \in SUBSET Below(S, v) /\ u \in Below(S, v) /\ u \notin Below(S, u)
    BY <1>1, <2>0 DEF Below
  <2>2. IsFiniteSet(Below(S, v))
    BY <2>0, BelowIsFinite
  <2> QED
    BY <2>1, <2>2, FS_Subset
<1>2. x \in Int /\ y \in Int
  BY DEF Within
<1> QED
  BY <1>1, <1>2

LEMMA SomeHasPlace ==
    ASSUME NEW b \in Nat, NEW S, Within(S, b), NEW k \in 1..Cardinality(S)
    PROVE  \E x \in S : Cardinality(Below(S, x)) = k - 1
<1>0. \A m \in S : m \in Int /\ 0 <= m /\ m <= b
  BY DEF Within
<1>1. PICK T : T = {n \in 0..(b + 1) : Cardinality(Below(S, n)) >= k}
  OBVIOUS
<1>2. Below(S, b + 1) = S /\ Cardinality(S) \in Nat
  <2>1. Below(S, b + 1) = S
    BY <1>0 DEF Below
  <2>2. Cardinality(S) \in Nat
    BY BelowIsFinite
  <2> QED
    BY <2>1, <2>2
<1>3. b + 1 \in T
  BY <1>1, <1>2
<1>4. PICK n \in T : \A m \in T : n <= m
  BY <1>1, <1>3, LeastOf
<1>5. n \in 0..(b + 1) /\ Cardinality(Below(S, n)) >= k
  BY <1>1, <1>4
<1>6. n # 0
  <2>1. Below(S, 0) = {}
    BY <1>0 DEF Below
  <2>2. Cardinality(Below(S, 0)) = 0
    BY <2>1, FS_EmptySet
  <2> QED
    BY <1>2, <1>5, <2>2
<1>7. n - 1 \notin T /\ n - 1 \in 0..b
  BY <1>4, <1>5, <1>6
<1>8. Cardinality(Below(S, n - 1)) < k /\ Cardinality(Below(S, n - 1)) \in Nat /\ IsFiniteSet(Below(S, n - 1))
  <2>1. n - 1 \in 0..(b + 1) /\ n - 1 \in Int
    BY <1>7
  <2>2. Cardinality(Below(S, n - 1)) \in Nat /\ IsFiniteSet(Below(S, n - 1))
    BY <2>1, BelowIsFinite
  <2>3. ~(Cardinality(Below(S, n - 1)) >= k)
    BY <1>1, <1>7, <2>1
  <2> QED
    BY <2>2, <2>3
<1>9. CASE n - 1 \in S
  <2>1. Below(S, n) = Below(S, n - 1) \cup {n - 1} /\ n - 1 \notin Below(S, n - 1)
    BY <1>0, <1>5, <1>9 DEF Below
  <2>2. Cardinality(Below(S, n)) = Cardinality(Below(S, n - 1)) + 1
    BY <1>8, <2>1, FS_AddElement
  <2> QED
    BY <1>2, <1>5, <1>8, <1>9, <2>2
<1>10. CASE n - 1 \notin S
  <2>1. Below(S, n) = Below(S, n - 1)
    BY <1>0, <1>5, <1>10 DEF Below
  <2> QED
    BY <1>2, <1>5, <1>8, <2>1
<1> QED
  BY <1>9, <1>10

LEMMA SmallestIs ==
    ASSUME NEW b \in Nat, NEW S, Within(S, b), NEW k \in 1..Cardinality(S)
    PROVE  /\ Refs!Smallest(k, S) \in S /\ Cardinality(Below(S, Refs!Smallest(k, S))) = k - 1
           /\ \A x \in S : Cardinality(Below(S, x)) = k - 1 => x = Refs!Smallest(k, S)
<1>1. Refs!Smallest(k, S) = CHOOSE x \in S : Cardinality(Below(S, x)) = k - 1
  BY SameCardinality DEF Refs!Smallest, Below
<1>2. \E x \in S : Cardinality(Below(S, x)) = k - 1
  BY SomeHasPlace
<1>3. Refs!Smallest(k, S) \in S /\ Cardinality(Below(S, Refs!Smallest(k, S))) = k - 1
  BY <1>1, <1>2
<1> QED
  BY <1>3, PlacesDiffer

(***************************************************************************)
(* What the sides' colors are, from those that are given.                  *)
(***************************************************************************)
Has(c, i) == c[i] # Refs!Gray /\ \A j \in 1..(i - 1) : c[j] # c[i]
FreeOf(c) == Refs!Colors \ {c[i] : i \in DOMAIN c}
Lacking(c, i) == {j \in 1..i : ~Has(c, j)}
Side(c, i) == IF Has(c, i) THEN c[i]
              ELSE IF Cardinality(Lacking(c, i)) <= Cardinality(FreeOf(c))
                   THEN Refs!Smallest(Cardinality(Lacking(c, i)), FreeOf(c)) ELSE Refs!Gray

LEMMA SideIs ==
    ASSUME NEW c \in Refs!Colorings
    PROVE  Refs!side_colors[c] = [i \in DOMAIN c |-> Side(c, i)]
BY SameCardinality DEF Refs!side_colors, Side, Lacking, FreeOf, Has

LEMMA ColoringIs ==
    ASSUME AppAssumption, NEW c
    PROVE  /\ c \in Refs!Colorings <=> \E n \in 1..(MaxReferences + 1) : c \in [1..n -> Refs!Colors \cup {Refs!Gray}]
           /\ c \in Refs!Colorings => /\ Len(c) \in 1..(MaxReferences + 1) /\ DOMAIN c = 1..Len(c)
                                      /\ \A i \in 1..Len(c) : c[i] \in Refs!Colors \cup {Refs!Gray}
BY DEF Refs!Colorings, AppAssumption, Refs!ReferencesAssumption

(* How many of P there are up to i.                                        *)
Upto(P, i) == {j \in 1..i : j \in P}

LEMMA UptoAre ==
    ASSUME NEW P, NEW i \in Nat
    PROVE  /\ Upto(P, i) \subseteq 1..i /\ IsFiniteSet(Upto(P, i)) /\ Cardinality(Upto(P, i)) \in Nat
           /\ i >= 1 /\ i \in P => Cardinality(Upto(P, i)) >= 1
           /\ \A h \in Nat : h < i /\ i \in P => Cardinality(Upto(P, h)) < Cardinality(Upto(P, i))
<1>1. \A k \in Nat : Upto(P, k) \subseteq 1..k /\ IsFiniteSet(1..k)
  BY FS_Interval DEF Upto
<1>2. \A k \in Nat : IsFiniteSet(Upto(P, k)) /\ Cardinality(Upto(P, k)) \in Nat
  BY <1>1, FS_Subset, FS_CardinalityType
<1>3. ASSUME i >= 1, i \in P PROVE Cardinality(Upto(P, i)) >= 1
  <2>1. i \in Upto(P, i)
    BY <1>3 DEF Upto
  <2>2. Cardinality(Upto(P, i)) # 0
    BY <1>2, <2>1, FS_EmptySet
  <2> QED
    BY <1>2, <2>2
<1>4. ASSUME NEW h \in Nat, h < i, i \in P PROVE Cardinality(Upto(P, h)) < Cardinality(Upto(P, i))
  <2>1. Upto(P, h) \in SUBSET Upto(P, i) /\ i \in Upto(P, i) /\ i \notin Upto(P, h)
    BY <1>4 DEF Upto
  <2>2. Cardinality(Upto(P, h)) <= Cardinality(Upto(P, i))
    BY <1>2, <2>1, FS_Subset
  <2>3. Cardinality(Upto(P, h)) # Cardinality(Upto(P, i))
    BY <1>2, <2>1, FS_Subset
  <2> QED
    BY <1>2, <2>2, <2>3
<1> QED
  BY <1>1, <1>2, <1>3, <1>4

(* The r-th of P, if it has that many up to i.                             *)
LEMMA UptoHas ==
    ASSUME NEW P, NEW i \in Nat, NEW r \in 1..Cardinality(Upto(P, i))
    PROVE  \E j \in 1..i : j \in P /\ Cardinality(Upto(P, j)) = r
<1>0. PICK W : W = Upto(P, i)
  OBVIOUS
<1>1. Within(W, i) /\ r \in Nat /\ r >= 1
  <2>1. W \subseteq 1..i /\ Cardinality(Upto(P, i)) \in Nat
    BY <1>0, UptoAre
  <2> QED
    BY <2>1 DEF Within
<1>2. PICK j \in W : Cardinality(Below(W, j)) = r - 1
  BY <1>0, <1>1, SomeHasPlace
<1>3. j \in 1..i /\ j \in P /\ j \in Int
  BY <1>0, <1>2 DEF Upto
<1>4. Upto(P, j) = Below(W, j) \cup {j} /\ j \notin Below(W, j)
  BY <1>0, <1>3 DEF Upto, Below
<1>5. IsFiniteSet(Below(W, j)) /\ Cardinality(Below(W, j)) \in Nat
  BY <1>1, <1>3, BelowIsFinite
<1>6. Cardinality(Upto(P, j)) = Cardinality(Below(W, j)) + 1
  BY <1>4, <1>5, FS_AddElement
<1> QED
  BY <1>1, <1>2, <1>3, <1>5, <1>6

LEMMA WaitsAre ==
    ASSUME NEW c, NEW i \in Nat
    PROVE  /\ Lacking(c, i) \subseteq 1..i /\ IsFiniteSet(Lacking(c, i)) /\ Cardinality(Lacking(c, i)) \in Nat
           /\ i >= 1 /\ ~Has(c, i) => Cardinality(Lacking(c, i)) >= 1
           /\ \A h \in Nat : h < i /\ ~Has(c, i) =>
                 Cardinality(Lacking(c, h)) < Cardinality(Lacking(c, i))
           /\ \A r \in 1..Cardinality(Lacking(c, i)) :
                 \E j \in 1..i : ~Has(c, j) /\ Cardinality(Lacking(c, j)) = r
<1>1. PICK P : P = {j \in Nat : ~Has(c, j)}
  OBVIOUS
<1>2. \A k \in Nat : Lacking(c, k) = Upto(P, k) /\ (~Has(c, k) <=> k \in P)
  BY <1>1 DEF Lacking, Upto
<1>3. \A r \in 1..Cardinality(Lacking(c, i)) : \E j \in 1..i : ~Has(c, j) /\ Cardinality(Lacking(c, j)) = r
  <2> SUFFICES ASSUME NEW r \in 1..Cardinality(Lacking(c, i))
               PROVE  \E j \in 1..i : ~Has(c, j) /\ Cardinality(Lacking(c, j)) = r
    OBVIOUS
  <2>1. PICK j \in 1..i : j \in P /\ Cardinality(Upto(P, j)) = r
    BY <1>2, UptoHas
  <2> QED
    BY <1>2, <2>1
<1> QED
  BY <1>2, <1>3, UptoAre

LEMMA FreeIs ==
    ASSUME AppAssumption, NEW c
    PROVE  /\ side_color_count \in Nat /\ Within(FreeOf(c), side_color_count)
           /\ FreeOf(c) \subseteq Refs!Colors /\ Cardinality(FreeOf(c)) \in Nat
           /\ \A i \in DOMAIN c : c[i] \notin FreeOf(c)
           /\ Refs!Gray \notin Refs!Colors
<1>1. side_color_count \in Nat
  BY DEF AppAssumption, Refs!ReferencesAssumption
<1>2. Within(FreeOf(c), side_color_count)
  BY <1>1 DEF Within, FreeOf, Refs!Colors
<1>3. Cardinality(FreeOf(c)) \in Nat
  BY <1>1, <1>2, BelowIsFinite
<1>4. Refs!Gray \notin Refs!Colors
  BY DEF Refs!Gray, Refs!Colors
<1> QED
  BY <1>1, <1>2, <1>3, <1>4 DEF FreeOf

LEMMA SideWhen ==
    ASSUME AppAssumption, NEW c \in Refs!Colorings, NEW i \in 1..Len(c)
    PROVE  /\ Side(c, i) \in Refs!Colors \cup {Refs!Gray}
           /\ Has(c, i) => Side(c, i) = c[i] /\ c[i] # Refs!Gray
           /\ ~Has(c, i) /\ Side(c, i) # Refs!Gray =>
                 /\ Side(c, i) \in FreeOf(c)
                 /\ Cardinality(Below(FreeOf(c), Side(c, i))) = Cardinality(Lacking(c, i)) - 1
<1>1. i \in DOMAIN c /\ c[i] \in Refs!Colors \cup {Refs!Gray} /\ i \in Nat /\ i >= 1
  BY ColoringIs
<1>2. CASE Has(c, i)
  BY <1>1, <1>2 DEF Side, Has
<1>3. CASE ~Has(c, i)
  <2>1. PICK k : k = Cardinality(Lacking(c, i))
    OBVIOUS
  <2>2. k \in Nat /\ k >= 1
    BY <1>1, <1>3, <2>1, WaitsAre
  <2>3. PICK S : S = FreeOf(c)
    OBVIOUS
  <2>4. Side(c, i) = IF k <= Cardinality(S) THEN Refs!Smallest(k, S) ELSE Refs!Gray
    BY <1>3, <2>1, <2>3 DEF Side
  <2>5. S \subseteq Refs!Colors /\ Within(S, side_color_count) /\ side_color_count \in Nat /\ Cardinality(S) \in Nat
    BY <2>3, FreeIs
  <2>6. CASE k <= Cardinality(S)
    <3>1. k \in 1..Cardinality(S)
      BY <2>2, <2>5, <2>6
    <3>2. Refs!Smallest(k, S) \in S /\ Cardinality(Below(S, Refs!Smallest(k, S))) = k - 1
      BY <2>5, <3>1, SmallestIs
    <3> QED
      BY <1>3, <2>1, <2>3, <2>4, <2>5, <2>6, <3>2
  <2>7. CASE ~(k <= Cardinality(S))
    BY <1>3, <2>4, <2>7
  <2> QED
    BY <2>6, <2>7
<1> QED
  BY <1>2, <1>3

(* Two sides only share gray.                                              *)
LEMMA SidesDiffer ==
    ASSUME AppAssumption, NEW c \in Refs!Colorings, NEW i \in 1..Len(c), NEW j \in 1..Len(c),
           i # j, Side(c, i) # Refs!Gray
    PROVE  Side(c, i) # Side(c, j)
<1>1. ASSUME NEW a \in 1..Len(c), NEW b \in 1..Len(c), a < b, Side(c, a) # Refs!Gray
      PROVE  Side(c, a) # Side(c, b)
  <2>0. a \in DOMAIN c /\ b \in DOMAIN c /\ a \in Nat /\ b \in Nat /\ a \in 1..(b - 1)
    BY <1>1, ColoringIs
  <2>1. SUFFICES ASSUME Side(c, a) = Side(c, b) PROVE FALSE
    OBVIOUS
  <2>2. c[a] \notin FreeOf(c) /\ c[b] \notin FreeOf(c)
    BY <2>0, FreeIs
  <2>3. CASE Has(c, a) /\ Has(c, b)
    BY <2>0, <2>1, <2>3, SideWhen DEF Has
  <2>4. CASE Has(c, a) /\ ~Has(c, b)
    BY <1>1, <2>1, <2>2, <2>4, SideWhen
  <2>5. CASE ~Has(c, a) /\ Has(c, b)
    BY <1>1, <2>1, <2>2, <2>5, SideWhen
  <2>6. CASE ~Has(c, a) /\ ~Has(c, b)
    <3>1. /\ Cardinality(Below(FreeOf(c), Side(c, a))) = Cardinality(Lacking(c, a)) - 1
          /\ Cardinality(Below(FreeOf(c), Side(c, b))) = Cardinality(Lacking(c, b)) - 1
      BY <1>1, <2>1, <2>6, SideWhen
    <3>2. Cardinality(Lacking(c, a)) \in Nat /\ Cardinality(Lacking(c, b)) \in Nat
      BY <2>0, WaitsAre
    <3>3. Cardinality(Lacking(c, a)) < Cardinality(Lacking(c, b))
      BY <1>1, <2>0, <2>6, WaitsAre
    <3> QED
      BY <2>1, <3>1, <3>2, <3>3
  <2> QED
    BY <2>3, <2>4, <2>5, <2>6
<1> QED
  BY <1>1, ColoringIs

(* A color that is given stays with the first that has it.                 *)
LEMMA GivenStays ==
    ASSUME AppAssumption, NEW c \in Refs!Colorings, NEW i \in 1..Len(c), c[i] # Refs!Gray
    PROVE  \E j \in 1..Len(c) : c[j] = c[i] /\ Side(c, j) = c[i]
<1>0. Len(c) \in Nat
  BY ColoringIs
<1>1. PICK T : T = {k \in 1..Len(c) : c[k] = c[i]}
  OBVIOUS
<1>2. T \in SUBSET Nat /\ T # {}
  BY <1>0, <1>1
<1>3. PICK j \in T : \A k \in T : j <= k
  BY <1>2, LeastOf
<1>4. j \in 1..Len(c) /\ c[j] = c[i]
  BY <1>1, <1>3
<1>5. ASSUME NEW k \in 1..(j - 1) PROVE c[k] # c[j]
  <2>1. k \in 1..Len(c) /\ k < j
    BY <1>0, <1>4
  <2> QED
    BY <1>1, <1>3, <1>4, <2>1
<1>6. Has(c, j)
  BY <1>4, <1>5 DEF Has
<1> QED
  BY <1>4, <1>6, SideWhen

(***************************************************************************)
(* needed_colors: what is dropped does not change the colors.              *)
(***************************************************************************)
Without(kept, i) == [j \in DOMAIN kept |-> IF j = i THEN Refs!Gray ELSE kept[j]]
Drop(c, kept, i) ==
    IF Refs!side_colors[Without(kept, i)] = Refs!side_colors[c] THEN Without(kept, i) ELSE kept

(* What a coloring becomes along the loop, up to the i-th.                 *)
Along(c, f, i) == f = [k \in 0..i |-> IF k = 0 THEN Refs!side_colors[c] ELSE Drop(c, f[k - 1], k)]

LEMMA LoopIs ==
    ASSUME NEW c, NEW n \in Nat
    PROVE  \E f : Along(c, f, n)
<1>1. PICK T : T = {m \in Nat : ~\E f : Along(c, f, m)}
  OBVIOUS
<1>2. ASSUME T # {} PROVE FALSE
  <2>1. PICK m \in T : \A k \in T : m <= k
    BY <1>1, <1>2, LeastOf
  <2>2. m \in Nat /\ ~\E f : Along(c, f, m)
    BY <1>1, <2>1
  <2>3. m # 0
    <3>1. PICK f : f = [k \in 0..0 |-> Refs!side_colors[c]]
      OBVIOUS
    <3>2. Along(c, f, 0)
      BY <3>1 DEF Along
    <3> QED
      BY <2>2, <3>2
  <2>4. m - 1 \notin T /\ m - 1 \in Nat
    BY <2>1, <2>2, <2>3
  <2>5. PICK f : Along(c, f, m - 1)
    BY <1>1, <2>4
  <2>6. PICK g : g = [k \in 0..m |-> IF k = m THEN Drop(c, f[m - 1], m) ELSE f[k]]
    OBVIOUS
  <2>7. \A k \in 0..(m - 1) : f[k] = IF k = 0 THEN Refs!side_colors[c] ELSE Drop(c, f[k - 1], k)
    BY <2>5 DEF Along
  <2>8. \A k \in 0..(m - 1) : g[k] = f[k]
    BY <2>2, <2>6
  <2>9. ASSUME NEW k \in 0..m PROVE g[k] = IF k = 0 THEN Refs!side_colors[c] ELSE Drop(c, g[k - 1], k)
    <3>1. CASE k = m
      BY <2>2, <2>3, <2>6, <2>8, <3>1
    <3>2. CASE k = 0
      BY <2>2, <2>3, <2>7, <2>8, <3>2
    <3>3. CASE k # 0 /\ k # m
      <4>1. k \in 0..(m - 1) /\ k - 1 \in 0..(m - 1)
        BY <2>2, <3>3
      <4> QED
        BY <2>7, <2>8, <3>3, <4>1
    <3> QED
      BY <3>1, <3>2, <3>3
  <2>10. Along(c, g, m)
    <3>1. g = [k \in 0..m |-> g[k]]
      BY <2>6
    <3>2. PICK h : h = [k \in 0..m |-> IF k = 0 THEN Refs!side_colors[c] ELSE Drop(c, g[k - 1], k)]
      OBVIOUS
    <3>3. \A k \in 0..m : g[k] = h[k]
      BY <2>9, <3>2
    <3>4. g = h
      BY <3>1, <3>2, <3>3
    <3> QED
      BY <3>2, <3>4 DEF Along
  <2> QED
    BY <2>2, <2>10
<1> QED
  BY <1>1, <1>2

LEMMA NeededIs ==
    ASSUME AppAssumption, NEW c \in Refs!Colorings
    PROVE  \E f : Along(c, f, Len(c)) /\ Refs!needed_colors[c] = f[Len(c)]
<1>1. PICK n : n = Len(c)
  OBVIOUS
<1>2. n \in Nat
  BY <1>1, ColoringIs
<1>3. PICK f : f = CHOOSE g : Along(c, g, n)
  OBVIOUS
<1>4. Along(c, f, n)
  BY <1>2, <1>3, LoopIs
<1>5. Refs!needed_colors[c] = f[n]
  BY <1>1, <1>3, Zenon DEF Refs!needed_colors, Along, Drop, Without
<1> QED
  BY <1>1, <1>4, <1>5

(* The sides' colors, as a coloring.                                       *)
LEMMA SidesAre ==
    ASSUME AppAssumption, NEW c \in Refs!Colorings, NEW s, s = Refs!side_colors[c]
    PROVE  /\ s \in Refs!Colorings /\ DOMAIN s = 1..Len(c) /\ Len(s) = Len(c) /\ Len(c) \in Nat
           /\ \A i \in 1..Len(c) : s[i] = Side(c, i)
<1>1. s = [i \in DOMAIN c |-> Side(c, i)]
  BY SideIs
<1>2. DOMAIN c = 1..Len(c) /\ Len(c) \in 1..(MaxReferences + 1) /\ Len(c) \in Nat
  <2>1. DOMAIN c = 1..Len(c) /\ Len(c) \in 1..(MaxReferences + 1)
    BY ColoringIs
  <2> QED
    BY <2>1
<1>3. \A i \in 1..Len(c) : s[i] = Side(c, i) /\ Side(c, i) \in Refs!Colors \cup {Refs!Gray}
  BY <1>1, <1>2, SideWhen
<1>4. s \in [1..Len(c) -> Refs!Colors \cup {Refs!Gray}]
  BY <1>1, <1>2, <1>3
<1>5. s \in Refs!Colorings
  BY <1>2, <1>4, ColoringIs
<1>6. DOMAIN s = 1..Len(c) /\ DOMAIN s = 1..Len(s) /\ Len(s) \in Nat
  <2>1. DOMAIN s = 1..Len(s) /\ Len(s) \in 1..(MaxReferences + 1)
    BY <1>5, ColoringIs
  <2> QED
    BY <1>4, <2>1
<1>7. Len(s) = Len(c)
  BY <1>2, <1>6
<1> QED
  BY <1>2, <1>3, <1>5, <1>6, <1>7

(* A side is gray when the free colors went to those before it.            *)
LEMMA GrayMeansNoneLeft ==
    ASSUME AppAssumption, NEW c \in Refs!Colorings, NEW i \in 1..Len(c), Side(c, i) = Refs!Gray,
           NEW s, s = Refs!side_colors[c]
    PROVE  FreeOf(s) = {}
<1>0. /\ DOMAIN s = 1..Len(c) /\ Len(c) \in Nat /\ \A j \in 1..Len(c) : s[j] = Side(c, j)
      /\ DOMAIN c = 1..Len(c)
  BY SidesAre, ColoringIs
<1>1. SUFFICES ASSUME NEW x \in FreeOf(s) PROVE FALSE
  OBVIOUS
<1>2. x \in Refs!Colors /\ \A j \in 1..Len(c) : x # Side(c, j)
  BY <1>0 DEF FreeOf
<1>3. x # Refs!Gray
  BY <1>2, FreeIs
<1>4. x \in FreeOf(c)
  <2> SUFFICES ASSUME NEW j \in 1..Len(c), c[j] = x PROVE FALSE
    BY <1>0, <1>2 DEF FreeOf
  <2> QED
    BY <1>2, <1>3, GivenStays
<1>5. PICK S : S = FreeOf(c)
  OBVIOUS
<1>6. Within(S, side_color_count) /\ side_color_count \in Nat /\ Cardinality(S) \in Nat /\ S \subseteq Refs!Colors
  BY <1>5, FreeIs
<1>7. i \in Nat /\ i >= 1 /\ i <= Len(c)
  BY <1>0
<1>8. ~Has(c, i) /\ Cardinality(Lacking(c, i)) > Cardinality(S)
  <2>1. ~Has(c, i)
    BY SideWhen
  <2>2. PICK k : k = Cardinality(Lacking(c, i))
    OBVIOUS
  <2>3. k \in Nat /\ k >= 1
    BY <1>7, <2>1, <2>2, WaitsAre
  <2>4. k <= Cardinality(S) => Refs!Smallest(k, S) \in S
    BY <1>6, <2>3, SmallestIs
  <2>5. Side(c, i) = IF k <= Cardinality(S) THEN Refs!Smallest(k, S) ELSE Refs!Gray
    BY <1>5, <2>1, <2>2 DEF Side
  <2>6. ~(k <= Cardinality(S))
    BY <1>6, <2>4, <2>5, FreeIs
  <2> QED
    BY <1>6, <2>1, <2>2, <2>3, <2>6
<1>9. PICK r : r = Cardinality(Below(S, x)) + 1
  OBVIOUS
<1>10. r \in 1..Cardinality(S)
  <2>1. x \in S /\ x \in Int
    BY <1>4, <1>5, <1>6 DEF Within
  <2>2. Cardinality(Below(S, x)) \in Nat /\ IsFiniteSet(S) /\ Cardinality(Below(S, x)) <= Cardinality(S)
    BY <1>6, <2>1, BelowIsFinite
  <2>3. Below(S, x) \in SUBSET S /\ x \notin Below(S, x)
    BY <2>1 DEF Below
  <2>4. Cardinality(Below(S, x)) # Cardinality(S)
    BY <2>1, <2>2, <2>3, FS_Subset
  <2> QED
    BY <1>6, <1>9, <2>2, <2>4
<1>11. x = Refs!Smallest(r, S)
  <2>1. x \in S /\ Cardinality(Below(S, x)) = r - 1
    <3>1. x \in Int
      BY <1>4, <1>5, <1>6 DEF Within
    <3>2. Cardinality(Below(S, x)) \in Nat
      BY <1>6, <3>1, BelowIsFinite
    <3> QED
      BY <1>4, <1>5, <1>9, <3>2
  <2> QED
    BY <1>6, <1>10, <2>1, SmallestIs
(* The one that waits at that place got it.                                *)
<1>12. r \in 1..Cardinality(Lacking(c, i))
  <2>1. Cardinality(Lacking(c, i)) \in Nat
    BY <1>7, WaitsAre
  <2> QED
    BY <1>6, <1>8, <1>10, <2>1
<1>13. PICK j \in 1..i : ~Has(c, j) /\ Cardinality(Lacking(c, j)) = r
  BY <1>7, <1>12, WaitsAre
<1>14. j \in 1..Len(c)
  BY <1>0, <1>7
<1>15. Side(c, j) = x
  BY <1>5, <1>6, <1>10, <1>11, <1>13 DEF Side
<1> QED
  BY <1>2, <1>14, <1>15

LEMMA SidesStay ==
    ASSUME AppAssumption, NEW c \in Refs!Colorings, NEW s, s = Refs!side_colors[c]
    PROVE  Refs!side_colors[s] = s
<1>0. /\ s \in Refs!Colorings /\ DOMAIN s = 1..Len(c) /\ Len(s) = Len(c) /\ Len(c) \in Nat
      /\ \A i \in 1..Len(c) : s[i] = Side(c, i)
  BY SidesAre
<1>1. ASSUME NEW i \in 1..Len(c) PROVE Side(s, i) = s[i]
  <2>1. CASE s[i] # Refs!Gray
    <3>1. ASSUME NEW j \in 1..(i - 1) PROVE s[j] # s[i]
      <4>1. j \in 1..Len(c) /\ j # i
        BY <1>0
      <4> QED
        BY <1>0, <2>1, <4>1, SidesDiffer
    <3>2. Has(s, i)
      BY <2>1, <3>1 DEF Has
    <3> QED
      BY <3>2 DEF Side
  <2>2. CASE s[i] = Refs!Gray
    <3>1. FreeOf(s) = {}
      BY <1>0, <2>2, GrayMeansNoneLeft
    <3>2. ~Has(s, i)
      BY <2>2 DEF Has
    <3>3. Cardinality(Lacking(s, i)) >= 1 /\ Cardinality(Lacking(s, i)) \in Nat
      BY <3>2, WaitsAre
    <3>4. Cardinality(FreeOf(s)) = 0
      BY <3>1, FS_EmptySet
    <3> QED
      BY <2>2, <3>2, <3>3, <3>4 DEF Side
  <2> QED
    BY <2>1, <2>2
<1>2. PICK t : t = Refs!side_colors[s]
  OBVIOUS
<1>3. DOMAIN t = DOMAIN s /\ t = [i \in DOMAIN s |-> Side(s, i)]
  BY <1>0, <1>2, SideIs
<1>4. s = [i \in DOMAIN s |-> s[i]]
  BY <1>0, ColoringIs
<1> QED
  BY <1>0, <1>1, <1>2, <1>3, <1>4

LEMMA NeededKeeps ==
    ASSUME AppAssumption, NEW c \in Refs!Colorings, NEW d, d = Refs!needed_colors[c]
    PROVE  /\ d \in Refs!Colorings /\ Len(d) = Len(c) /\ DOMAIN d = 1..Len(c)
           /\ Refs!side_colors[d] = Refs!side_colors[c]
<1>1. PICK f : Along(c, f, Len(c)) /\ d = f[Len(c)]
  BY NeededIs
<1>2. PICK n : n = Len(c)
  OBVIOUS
<1>3. n \in Nat /\ n \in 1..(MaxReferences + 1)
  <2>1. n \in 1..(MaxReferences + 1)
    BY <1>2, ColoringIs
  <2> QED
    BY <2>1
<1>4. PICK good : good = {e \in [1..n -> Refs!Colors \cup {Refs!Gray}] : Refs!side_colors[e] = Refs!side_colors[c]}
  OBVIOUS
<1>5. ASSUME NEW e \in good, NEW k PROVE Drop(c, e, k) \in good
  <2>1. PICK w : w = Without(e, k)
    OBVIOUS
  <2>2. w \in [1..n -> Refs!Colors \cup {Refs!Gray}]
    BY <1>4, <2>1 DEF Without
  <2> QED
    BY <1>4, <2>1, <2>2 DEF Drop
<1>6. PICK s : s = Refs!side_colors[c]
  OBVIOUS
<1>7. s \in good
  <2>1. s \in Refs!Colorings /\ DOMAIN s = 1..n /\ Refs!side_colors[s] = s /\ Len(s) = n
    BY <1>2, <1>6, SidesAre, SidesStay
  <2>2. s \in [1..n -> Refs!Colors \cup {Refs!Gray}]
    BY <1>3, <2>1, ColoringIs
  <2> QED
    BY <1>4, <1>6, <2>1, <2>2
<1>8. \A k \in 0..n : f[k] = IF k = 0 THEN s ELSE Drop(c, f[k - 1], k)
  BY <1>1, <1>2, <1>6 DEF Along
<1>9. PICK T : T = {k \in 0..n : f[k] \notin good}
  OBVIOUS
<1>10. ASSUME T # {} PROVE FALSE
  <2>1. T \in SUBSET Nat
    BY <1>3, <1>9
  <2>2. PICK k \in T : \A m \in T : k <= m
    BY <1>10, <2>1, LeastOf
  <2>3. k \in 0..n /\ f[k] \notin good
    BY <1>9, <2>2
  <2>4. k # 0
    BY <1>3, <1>7, <1>8, <2>3
  <2>5. k - 1 \in 0..n /\ k - 1 \notin T
    BY <1>3, <2>2, <2>3, <2>4
  <2>6. f[k - 1] \in good
    BY <1>9, <2>5
  <2> QED
    BY <1>3, <1>5, <1>8, <2>3, <2>4, <2>6
<1>11. d \in good
  BY <1>1, <1>2, <1>3, <1>9, <1>10
<1>12. d \in [1..n -> Refs!Colors \cup {Refs!Gray}] /\ Refs!side_colors[d] = s
  BY <1>4, <1>6, <1>11
<1>13. d \in Refs!Colorings
  BY <1>3, <1>12, ColoringIs
<1>14. DOMAIN d = 1..n /\ Len(d) = n
  <2>1. DOMAIN d = 1..Len(d) /\ Len(d) \in 1..(MaxReferences + 1)
    BY <1>13, ColoringIs
  <2> QED
    BY <1>3, <1>12, <2>1
<1> QED
  BY <1>2, <1>6, <1>12, <1>13, <1>14

(***************************************************************************)
(* Sequences of references.                                                *)
(***************************************************************************)
Inserted(q, i, e, k) == IF k < i THEN q[k] ELSE IF k = i THEN e ELSE q[k - 1]

LEMMA InsertIs ==
    ASSUME NEW S, NEW q \in Seq(S), NEW i \in 1..(Len(q) + 1), NEW e \in S
    PROVE  /\ Refs!InsertAt(q, i, e) \in Seq(S) /\ Len(Refs!InsertAt(q, i, e)) = Len(q) + 1
           /\ \A k \in 1..(Len(q) + 1) : Refs!InsertAt(q, i, e)[k] = Inserted(q, i, e, k)
<1> DEFINE r == Refs!InsertAt(q, i, e)
<1> HIDE DEF r
<1>0. PICK n \in Nat : n = Len(q)
  BY LenProperties
<1>1. PICK a, b : a = SubSeq(q, 1, i - 1) /\ b = SubSeq(q, i, Len(q))
  OBVIOUS
<1>2. a \in Seq(S) /\ Len(a) = i - 1 /\ \A k \in 1..(i - 1) : a[k] = q[k]
  <2>1. \A k \in 1..(i - 1) : q[k] \in S
    BY <1>0, ElementOfSeq
  <2> QED
    BY <1>0, <1>1, <2>1, SubSeqProperties
<1>3. b \in Seq(S) /\ Len(b) = n - i + 1 /\ \A k \in 1..(n - i + 1) : b[k] = q[k + i - 1]
  <2>1. \A k \in i..n : q[k] \in S
    BY <1>0, ElementOfSeq
  <2> QED
    BY <1>0, <1>1, <2>1, SubSeqProperties
<1>4. PICK h : h = a \o <<e>>
  OBVIOUS
<1>5. h \in Seq(S) /\ Len(h) = i /\ \A k \in 1..i : h[k] = IF k < i THEN q[k] ELSE e
  <2>1. <<e>> \in Seq(S) /\ Len(<<e>>) = 1 /\ <<e>>[1] = e
    OBVIOUS
  <2>2. h \in Seq(S) /\ Len(h) = i
        /\ \A k \in 1..i : h[k] = IF k <= i - 1 THEN a[k] ELSE <<e>>[k - (i - 1)]
    BY <1>0, <1>2, <1>4, <2>1, ConcatProperties
  <2> QED
    BY <1>0, <1>2, <2>1, <2>2
<1>6. r = h \o b
  BY <1>1, <1>4 DEF r, Refs!InsertAt
<1>7. /\ r \in Seq(S) /\ Len(r) = n + 1
      /\ \A k \in 1..(n + 1) : r[k] = IF k <= i THEN h[k] ELSE b[k - i]
  <2>1. h \in Seq(S) /\ b \in Seq(S)
    BY <1>3, <1>5
  <2>2. /\ h \o b \in Seq(S) /\ Len(h \o b) = Len(h) + Len(b)
        /\ \A k \in 1..Len(h) + Len(b) : (h \o b)[k] = IF k <= Len(h) THEN h[k] ELSE b[k - Len(h)]
    BY <2>1, ConcatProperties
  <2>3. Len(h) = i /\ Len(h) + Len(b) = n + 1
    BY <1>0, <1>3, <1>5
  <2> QED
    BY <1>6, <2>2, <2>3
<1>8. ASSUME NEW k \in 1..(n + 1) PROVE r[k] = IF k < i THEN q[k] ELSE IF k = i THEN e ELSE q[k - 1]
  <2>1. CASE k <= i
    <3>1. k \in 1..i
      BY <1>0, <2>1
    <3>2. r[k] = h[k]
      BY <1>7, <2>1
    <3> QED
      BY <1>0, <1>5, <2>1, <3>1, <3>2
  <2>2. CASE k > i
    <3>1. k - i \in 1..(n - i + 1) /\ k - i + i - 1 = k - 1
      BY <1>0, <2>2
    <3>2. r[k] = b[k - i] /\ b[k - i] = q[k - i + i - 1]
      BY <1>0, <1>3, <1>7, <2>2, <3>1
    <3> QED
      BY <1>0, <2>2, <3>1, <3>2
  <2> QED
    BY <1>0, <2>1, <2>2
<1> QED
  BY <1>0, <1>7, <1>8 DEF r, Inserted

RestOf(q, i, k) == IF k < i THEN q[k] ELSE q[k + 1]

LEMMA RemoveIs ==
    ASSUME NEW S, NEW q \in Seq(S), NEW i \in 1..Len(q), NEW r, r = Refs!RemoveAt(q, i)
    PROVE  /\ r \in Seq(S) /\ Len(r) = Len(q) - 1
           /\ \A k \in 1..(Len(q) - 1) : r[k] = RestOf(q, i, k)
<1> USE DEF RestOf
<1>0. PICK n \in Nat : n = Len(q)
  BY LenProperties
<1>1. PICK a, b : a = SubSeq(q, 1, i - 1) /\ b = SubSeq(q, i + 1, Len(q))
  OBVIOUS
<1>2. a \in Seq(S) /\ Len(a) = i - 1 /\ \A k \in 1..(i - 1) : a[k] = q[k]
  <2>1. \A k \in 1..(i - 1) : q[k] \in S
    BY <1>0, ElementOfSeq
  <2> QED
    BY <1>0, <1>1, <2>1, SubSeqProperties
<1>3. b \in Seq(S) /\ Len(b) = n - i /\ \A k \in 1..(n - i) : b[k] = q[k + i]
  <2>1. \A k \in (i + 1)..n : q[k] \in S
    BY <1>0, ElementOfSeq
  <2> QED
    BY <1>0, <1>1, <2>1, SubSeqProperties
<1>4. r = a \o b
  BY <1>1 DEF Refs!RemoveAt
<1>5. /\ r \in Seq(S) /\ Len(r) = n - 1
      /\ \A k \in 1..(n - 1) : r[k] = IF k <= i - 1 THEN a[k] ELSE b[k - (i - 1)]
  <2>1. /\ r \in Seq(S) /\ Len(r) = Len(a) + Len(b)
        /\ \A k \in 1..Len(a) + Len(b) : r[k] = IF k <= Len(a) THEN a[k] ELSE b[k - Len(a)]
    <3>1. a \in Seq(S) /\ b \in Seq(S)
      BY <1>2, <1>3
    <3>2. /\ a \o b \in Seq(S) /\ Len(a \o b) = Len(a) + Len(b)
          /\ \A k \in 1..Len(a) + Len(b) : (a \o b)[k] = IF k <= Len(a) THEN a[k] ELSE b[k - Len(a)]
      BY <3>1, ConcatProperties
    <3> QED
      BY <1>4, <3>2
  <2>2. Len(a) + Len(b) = n - 1
    BY <1>0, <1>2, <1>3
  <2> QED
    BY <1>2, <2>1, <2>2
<1>6. ASSUME NEW k \in 1..(n - 1) PROVE r[k] = IF k < i THEN q[k] ELSE q[k + 1]
  <2>1. CASE k < i
    BY <1>0, <1>2, <1>5, <2>1
  <2>2. CASE k >= i
    <3>1. k - (i - 1) \in 1..(n - i) /\ k - (i - 1) + i = k + 1
      BY <1>0, <2>2
    <3> QED
      BY <1>0, <1>3, <1>5, <2>2, <3>1
  <2> QED
    BY <1>0, <2>1, <2>2
<1> QED
  BY <1>0, <1>5, <1>6

LEMMA PutBack ==
    ASSUME NEW S, NEW q \in Seq(S), NEW i \in 1..Len(q)
    PROVE  Refs!InsertAt(Refs!RemoveAt(q, i), i, q[i]) = q
<1>0. PICK n \in Nat : n = Len(q)
  BY LenProperties
<1>1. PICK r : r = Refs!RemoveAt(q, i)
  OBVIOUS
<1>2. r \in Seq(S) /\ Len(r) = n - 1 /\ \A k \in 1..(n - 1) : r[k] = IF k < i THEN q[k] ELSE q[k + 1]
  <2>1. r \in Seq(S) /\ Len(r) = n - 1 /\ \A k \in 1..(n - 1) : r[k] = RestOf(q, i, k)
    BY <1>0, <1>1, RemoveIs
  <2> QED
    BY <2>1 DEF RestOf
<1>3. PICK e \in S : e = q[i]
  BY ElementOfSeq
<1>4. PICK t : t = Refs!InsertAt(r, i, e)
  OBVIOUS
<1>5. i \in 1..(Len(r) + 1)
  BY <1>0, <1>2
<1>6. /\ t \in Seq(S) /\ Len(t) = n
      /\ \A k \in 1..n : t[k] = IF k < i THEN r[k] ELSE IF k = i THEN e ELSE r[k - 1]
  <2>1. /\ t \in Seq(S) /\ Len(t) = Len(r) + 1
        /\ \A k \in 1..(Len(r) + 1) : t[k] = Inserted(r, i, e, k)
    <3>1. r \in Seq(S) /\ e \in S
      BY <1>2, <1>3
    <3> QED
      BY <1>4, <1>5, <3>1, InsertIs
  <2> QED
    BY <1>0, <1>2, <2>1 DEF Inserted
<1>7. ASSUME NEW k \in 1..n PROVE t[k] = q[k]
  <2>1. CASE k < i
    <3>1. k \in 1..(n - 1)
      BY <1>0, <2>1
    <3> QED
      BY <1>2, <1>6, <2>1, <3>1
  <2>2. CASE k = i
    BY <1>0, <1>3, <1>6, <2>2
  <2>3. CASE k > i
    <3>1. k - 1 \in 1..(n - 1) /\ ~(k - 1 < i) /\ k - 1 + 1 = k
      BY <1>0, <2>3
    <3> QED
      BY <1>0, <1>2, <1>6, <2>3, <3>1
  <2> QED
    BY <1>0, <2>1, <2>2, <2>3
<1>8. t = q
  BY <1>0, <1>6, <1>7, SeqEqual
<1> QED
  BY <1>1, <1>3, <1>4, <1>8

(* Where what is at k came from, when one was moved.                       *)
MovedFrom(from, to, k) ==
    IF k = to THEN from
    ELSE IF (IF k < to THEN k ELSE k - 1) < from THEN (IF k < to THEN k ELSE k - 1)
    ELSE (IF k < to THEN k ELSE k - 1) + 1

LEMMA MoveIs ==
    ASSUME NEW S, NEW q \in Seq(S), NEW from \in 1..Len(q), NEW to \in 1..Len(q),
           NEW r, r = Refs!Moved(q, from, to)
    PROVE  /\ r \in Seq(S) /\ Len(r) = Len(q)
           /\ \A k \in 1..Len(q) : r[k] = q[MovedFrom(from, to, k)]
<1>0. PICK n \in Nat : n = Len(q)
  BY LenProperties
<1>1. PICK a : a = Refs!RemoveAt(q, from)
  OBVIOUS
<1>2. a \in Seq(S) /\ Len(a) = n - 1 /\ \A k \in 1..(n - 1) : a[k] = IF k < from THEN q[k] ELSE q[k + 1]
  <2>1. a \in Seq(S) /\ Len(a) = n - 1 /\ \A k \in 1..(n - 1) : a[k] = RestOf(q, from, k)
    BY <1>0, <1>1, RemoveIs
  <2> QED
    BY <2>1 DEF RestOf
<1>3. PICK e \in S : e = q[from]
  BY ElementOfSeq
<1>4. r = Refs!InsertAt(a, to, e) /\ to \in 1..(Len(a) + 1)
  BY <1>0, <1>1, <1>2, <1>3 DEF Refs!Moved
<1>5. /\ r \in Seq(S) /\ Len(r) = n
      /\ \A k \in 1..n : r[k] = IF k < to THEN a[k] ELSE IF k = to THEN e ELSE a[k - 1]
  <2>1. /\ r \in Seq(S) /\ Len(r) = Len(a) + 1
        /\ \A k \in 1..(Len(a) + 1) : r[k] = Inserted(a, to, e, k)
    <3>1. a \in Seq(S) /\ e \in S
      BY <1>2, <1>3
    <3> QED
      BY <1>4, <3>1, InsertIs
  <2> QED
    BY <1>0, <1>2, <2>1 DEF Inserted
<1>6. ASSUME NEW k \in 1..n PROVE r[k] = q[MovedFrom(from, to, k)]
  <2>1. CASE k < to
    <3>1. k \in 1..(n - 1)
      BY <1>0, <2>1
    <3> QED
      BY <1>2, <1>5, <2>1, <3>1 DEF MovedFrom
  <2>2. CASE k = to
    BY <1>0, <1>3, <1>5, <2>2 DEF MovedFrom
  <2>3. CASE k > to
    <3>1. k - 1 \in 1..(n - 1)
      BY <1>0, <2>3
    <3> QED
      BY <1>0, <1>2, <1>5, <2>3, <3>1 DEF MovedFrom
  <2> QED
    BY <1>0, <2>1, <2>2, <2>3
<1> QED
  BY <1>0, <1>5, <1>6

Shuffles(n, from, to) ==
    /\ \A k \in 1..n : MovedFrom(from, to, k) \in 1..n
    /\ \A j, k \in 1..n : MovedFrom(from, to, j) = MovedFrom(from, to, k) => j = k
    /\ \A h \in 1..n : \E k \in 1..n : MovedFrom(from, to, k) = h
    /\ \A k \in 1..n : MovedFrom(from + 1, to + 1, k + 1) = MovedFrom(from, to, k) + 1
    /\ MovedFrom(from + 1, to + 1, 1) = 1

LEMMA MovesAre ==
    ASSUME NEW n \in Nat, NEW from \in 1..n, NEW to \in 1..n
    PROVE  Shuffles(n, from, to)
<1> USE DEF Shuffles
<1>1. \A k \in 1..n : MovedFrom(from, to, k) \in 1..n
  BY DEF MovedFrom
<1>2. \A j, k \in 1..n : MovedFrom(from, to, j) = MovedFrom(from, to, k) => j = k
  BY DEF MovedFrom
<1>3. ASSUME NEW h \in 1..n PROVE \E k \in 1..n : MovedFrom(from, to, k) = h
  <2>1. CASE h = from
    BY <2>1 DEF MovedFrom
  <2>2. CASE h < from
    <3>1. CASE h < to
      BY <2>2, <3>1 DEF MovedFrom
    <3>2. CASE h >= to
      <4>1. h + 1 \in 1..n /\ MovedFrom(from, to, h + 1) = h
        BY <2>2, <3>2 DEF MovedFrom
      <4> QED
        BY <4>1
    <3> QED
      BY <3>1, <3>2
  <2>3. CASE h > from
    <3>1. CASE h - 1 < to
      <4>1. h - 1 \in 1..n /\ MovedFrom(from, to, h - 1) = h
        BY <2>3, <3>1 DEF MovedFrom
      <4> QED
        BY <4>1
    <3>2. CASE h - 1 >= to
      <4>1. MovedFrom(from, to, h) = h
        BY <2>3, <3>2 DEF MovedFrom
      <4> QED
        BY <4>1
    <3> QED
      BY <3>1, <3>2
  <2> QED
    BY <2>1, <2>2, <2>3
<1>4. \A k \in 1..n : MovedFrom(from + 1, to + 1, k + 1) = MovedFrom(from, to, k) + 1
  BY DEF MovedFrom
<1>5. MovedFrom(from + 1, to + 1, 1) = 1
  BY DEF MovedFrom
<1> QED
  BY <1>1, <1>2, <1>3, <1>4, <1>5

(***************************************************************************)
(* What references are called, from the labels that are given.             *)
(***************************************************************************)
Heads == {"", "ref"} \cup UserNames
LabelSet == Heads \X Seq(Nat)

Nameless(ls, i) == {j \in 1..i : ls[j] = Refs!NoLabel}
FreeNames(ls) == {n \in 1..(2 * Len(ls)) : \A i \in DOMAIN ls : ls[i] # Refs!ref_name(n)}
Number(ls, i) == Refs!Smallest(Cardinality(Nameless(ls, i)), FreeNames(ls))
NameOf(ls, i) == IF ls[i] # Refs!NoLabel THEN ls[i] ELSE Refs!ref_name(Number(ls, i))
LabelsOf(rs) == [i \in DOMAIN rs |-> rs[i].label]

LEMMA RefNames ==
    /\ \A m, n : Refs!ref_name(m) = Refs!ref_name(n) => m = n
    /\ \A n : Refs!ref_name(n) # Refs!NoLabel /\ Refs!ref_name(n)[1] = "ref"
    /\ \A n \in Nat : Refs!ref_name(n) \in LabelSet
    /\ Refs!NoLabel \in LabelSet
<1>1. ASSUME NEW m, NEW n, Refs!ref_name(m) = Refs!ref_name(n) PROVE m = n
  <2>1. <<m>> = <<n>>
    BY <1>1 DEF Refs!ref_name
  <2> QED
    BY <2>1
<1>2. \A n : Refs!ref_name(n) # Refs!NoLabel /\ Refs!ref_name(n)[1] = "ref"
  BY DEF Refs!ref_name, Refs!NoLabel
<1>3. ASSUME NEW n \in Nat PROVE Refs!ref_name(n) \in LabelSet
  <2>1. <<n>> \in Seq(Nat)
    OBVIOUS
  <2> QED
    BY <2>1 DEF Refs!ref_name, LabelSet, Heads
<1>4. Refs!NoLabel \in LabelSet
  <2>1. <<>> \in Seq(Nat)
    BY EmptySeq
  <2> QED
    BY <2>1 DEF Refs!NoLabel, LabelSet, Heads
<1> QED
  BY <1>1, <1>2, <1>3, <1>4

LEMMA PlainNames == ASSUME NEW name \in UserNames PROVE <<name, <<>>>> \in LabelSet
<1>1. PICK none : none = <<>>
  OBVIOUS
<1>2. none \in Seq(Nat)
  BY <1>1, EmptySeq
<1>3. <<name, none>> \in LabelSet
  BY <1>2 DEF LabelSet, Heads
<1> QED
  BY <1>1, <1>3

LEMMA NamesAre ==
    ASSUME NEW S, NEW rs \in Seq(S), NEW ls, ls = LabelsOf(rs)
    PROVE  Refs!reference_names(rs) = [i \in DOMAIN ls |-> NameOf(ls, i)]
<1>1. DOMAIN ls = DOMAIN rs /\ DOMAIN rs = 1..Len(rs) /\ Len(rs) \in Nat /\ Len(ls) = Len(rs)
  BY LenProperties DEF LabelsOf
<1>2. \A i \in DOMAIN rs : ls[i] = rs[i].label
  BY DEF LabelsOf
<1>3. PICK used : used = {rs[i].label : i \in DOMAIN rs}
  OBVIOUS
<1>4. PICK free : free = {n \in 1..(2 * Len(rs)) : Refs!ref_name(n) \notin used}
  OBVIOUS
<1>5. free = FreeNames(ls)
  BY <1>1, <1>2, <1>3, <1>4 DEF FreeNames
<1>6. ASSUME NEW i \in DOMAIN rs PROVE {j \in 1..i : rs[j].label = Refs!NoLabel} = Nameless(ls, i)
  BY <1>1, <1>2 DEF Nameless
<1>7. Refs!reference_names(rs) =
        [i \in DOMAIN rs |-> IF rs[i].label # Refs!NoLabel THEN rs[i].label
            ELSE Refs!ref_name(Refs!Smallest(Cardinality({j \in 1..i : rs[j].label = Refs!NoLabel}), free))]
  BY <1>3, <1>4, SameCardinality DEF Refs!reference_names
<1>8. ASSUME NEW i \in DOMAIN rs
      PROVE  Refs!reference_names(rs)[i] = NameOf(ls, i)
  BY <1>2, <1>5, <1>6, <1>7 DEF NameOf, Number
<1>9. PICK r : r = Refs!reference_names(rs)
  OBVIOUS
<1>10. r = [i \in DOMAIN rs |-> r[i]]
  BY <1>7, <1>9
<1> QED
  BY <1>1, <1>8, <1>9, <1>10

(* Those that are taken by somebody are not more than there is somebody.   *)
LEMMA FewTaken ==
    ASSUME NEW L \in Nat, NEW T, IsFiniteSet(T), NEW taker \in [T -> 1..L],
           \A x, y \in T : taker[x] = taker[y] => x = y
    PROVE  Cardinality(T) <= L
<1>1. IsFiniteSet(1..L) /\ Cardinality(1..L) = L
  BY FS_Interval
<1>2. Cardinality(T) \in Nat
  BY FS_CardinalityType
<1>3. ~(L < Cardinality(T))
  BY <1>1, FS_PigeonHole
<1> QED
  BY <1>2, <1>3

LEMMA NamesSuffice ==
    ASSUME NEW ls \in Seq(LabelSet)
    PROVE  /\ Len(ls) \in Nat /\ 2 * Len(ls) \in Nat /\ Within(FreeNames(ls), 2 * Len(ls))
           /\ Cardinality(FreeNames(ls)) \in Nat /\ Cardinality(FreeNames(ls)) >= Len(ls)
<1>0. PICK L \in Nat : L = Len(ls) /\ DOMAIN ls = 1..L
  BY LenProperties
<1>1. 2 * L \in Nat /\ Within(FreeNames(ls), 2 * L)
  BY <1>0 DEF Within, FreeNames
<1>2. Cardinality(FreeNames(ls)) \in Nat
  BY <1>1, BelowIsFinite
<1>3. PICK T : T = (1..(2 * L)) \ FreeNames(ls)
  OBVIOUS
<1>4. IsFiniteSet(1..(2 * L)) /\ Cardinality(1..(2 * L)) = 2 * L
  BY <1>1, FS_Interval
<1>5. (1..(2 * L)) \cap FreeNames(ls) = FreeNames(ls)
  BY <1>0 DEF FreeNames
<1>6. IsFiniteSet(T) /\ Cardinality(T) = 2 * L - Cardinality(FreeNames(ls))
  <2>1. PICK I : I = 1..(2 * L)
    OBVIOUS
  <2>2. IsFiniteSet(I \ FreeNames(ls))
        /\ Cardinality(I \ FreeNames(ls)) = Cardinality(I) - Cardinality(I \cap FreeNames(ls))
    BY <1>4, <2>1, FS_Difference
  <2> QED
    BY <1>3, <1>4, <1>5, <2>1, <2>2
<1>7. \A n \in T : \E i \in 1..L : ls[i] = Refs!ref_name(n)
  BY <1>0, <1>3 DEF FreeNames
<1>8. PICK taker : taker = [n \in T |-> CHOOSE i \in 1..L : ls[i] = Refs!ref_name(n)]
  OBVIOUS
<1>9. ASSUME NEW n \in T PROVE taker[n] \in 1..L /\ ls[taker[n]] = Refs!ref_name(n)
  BY <1>7, <1>8
<1>10. taker \in [T -> 1..L]
  BY <1>8, <1>9
<1>11. \A x, y \in T : taker[x] = taker[y] => x = y
  BY <1>9, RefNames
<1>12. Cardinality(T) <= L
  BY <1>6, <1>10, <1>11, FewTaken
<1>13. L <= Cardinality(FreeNames(ls))
  BY <1>2, <1>6, <1>12
<1> QED
  BY <1>0, <1>1, <1>2, <1>13

LEMMA NamelessAre ==
    ASSUME NEW ls, NEW i \in Nat
    PROVE  /\ Nameless(ls, i) \subseteq 1..i /\ IsFiniteSet(Nameless(ls, i))
           /\ Cardinality(Nameless(ls, i)) \in Nat /\ Cardinality(Nameless(ls, i)) <= i
           /\ i >= 1 /\ ls[i] = Refs!NoLabel => Cardinality(Nameless(ls, i)) >= 1
           /\ \A h \in Nat : h < i /\ ls[i] = Refs!NoLabel =>
                 Cardinality(Nameless(ls, h)) < Cardinality(Nameless(ls, i))
           /\ \A r \in 1..Cardinality(Nameless(ls, i)) :
                 \E j \in 1..i : ls[j] = Refs!NoLabel /\ Cardinality(Nameless(ls, j)) = r
<1>1. PICK P : P = {j \in Nat : ls[j] = Refs!NoLabel}
  OBVIOUS
<1>2. \A k \in Nat : Nameless(ls, k) = Upto(P, k) /\ (ls[k] = Refs!NoLabel <=> k \in P)
  BY <1>1 DEF Nameless, Upto
<1>3. ASSUME NEW r \in 1..Cardinality(Nameless(ls, i))
      PROVE  \E j \in 1..i : ls[j] = Refs!NoLabel /\ Cardinality(Nameless(ls, j)) = r
  <2>1. PICK j \in 1..i : j \in P /\ Cardinality(Upto(P, j)) = r
    BY <1>2, UptoHas
  <2> QED
    BY <1>2, <2>1
<1>4. Cardinality(Nameless(ls, i)) <= i
  <2>1. IsFiniteSet(1..i) /\ Cardinality(1..i) = i
    BY FS_Interval
  <2>2. Nameless(ls, i) \in SUBSET (1..i)
    BY DEF Nameless
  <2> QED
    BY <2>1, <2>2, FS_Subset
<1> QED
  BY <1>2, <1>3, <1>4, UptoAre

LEMMA NumberIs ==
    ASSUME NEW ls \in Seq(LabelSet), NEW i \in 1..Len(ls), ls[i] = Refs!NoLabel
    PROVE  /\ Number(ls, i) \in FreeNames(ls) /\ Number(ls, i) \in Nat /\ Number(ls, i) >= 1
           /\ Cardinality(Below(FreeNames(ls), Number(ls, i))) = Cardinality(Nameless(ls, i)) - 1
           /\ \A x \in FreeNames(ls) :
                 Cardinality(Below(FreeNames(ls), x)) = Cardinality(Nameless(ls, i)) - 1 => x = Number(ls, i)
<1>1. PICK k : k = Cardinality(Nameless(ls, i))
  OBVIOUS
<1>2. i \in Nat /\ i >= 1 /\ i <= Len(ls) /\ Len(ls) \in Nat
  BY LenProperties
<1>3. k \in Nat /\ k >= 1 /\ k <= i
  BY <1>1, <1>2, NamelessAre
<1>4. PICK S : S = FreeNames(ls)
  OBVIOUS
<1>5. PICK b \in Nat : Within(S, b) /\ Cardinality(S) \in Nat /\ Cardinality(S) >= Len(ls)
  BY <1>4, NamesSuffice
<1>6. k \in 1..Cardinality(S)
  BY <1>2, <1>3, <1>5
<1>7. /\ Refs!Smallest(k, S) \in S /\ Cardinality(Below(S, Refs!Smallest(k, S))) = k - 1
      /\ \A x \in S : Cardinality(Below(S, x)) = k - 1 => x = Refs!Smallest(k, S)
  BY <1>5, <1>6, SmallestIs
<1>8. \A x \in S : x \in Nat /\ x >= 1
  BY <1>2, <1>4 DEF FreeNames
<1> QED
  BY <1>1, <1>4, <1>7, <1>8 DEF Number

LEMMA NameIs ==
    ASSUME NEW ls \in Seq(LabelSet), NEW i \in 1..Len(ls)
    PROVE  NameOf(ls, i) \in LabelSet /\ NameOf(ls, i) # Refs!NoLabel
<1>1. CASE ls[i] # Refs!NoLabel
  BY <1>1, ElementOfSeq DEF NameOf
<1>2. CASE ls[i] = Refs!NoLabel
  BY <1>2, NumberIs, RefNames DEF NameOf
<1> QED
  BY <1>1, <1>2

(* A name we gave is nobody else's.                                        *)
LEMMA NamesDiffer ==
    ASSUME NEW ls \in Seq(LabelSet), NEW i \in 1..Len(ls), NEW j \in 1..Len(ls), i # j,
           ls[i] = Refs!NoLabel
    PROVE  NameOf(ls, i) # NameOf(ls, j)
<1>0. i \in Nat /\ j \in Nat /\ DOMAIN ls = 1..Len(ls)
  BY LenProperties
<1>1. NameOf(ls, i) = Refs!ref_name(Number(ls, i)) /\ Number(ls, i) \in FreeNames(ls)
  BY NumberIs DEF NameOf
<1>2. CASE ls[j] # Refs!NoLabel
  BY <1>0, <1>1, <1>2 DEF NameOf, FreeNames
<1>3. CASE ls[j] = Refs!NoLabel
  <2>1. NameOf(ls, j) = Refs!ref_name(Number(ls, j))
    BY <1>3 DEF NameOf
  <2>2. SUFFICES ASSUME Number(ls, i) = Number(ls, j) PROVE FALSE
    BY <1>1, <2>1, RefNames
  <2>3. Cardinality(Nameless(ls, i)) - 1 = Cardinality(Nameless(ls, j)) - 1
    BY <1>3, <2>2, NumberIs
  <2>4. Cardinality(Nameless(ls, i)) \in Nat /\ Cardinality(Nameless(ls, j)) \in Nat
    BY <1>0, NamelessAre
  <2>5. \/ Cardinality(Nameless(ls, i)) < Cardinality(Nameless(ls, j))
        \/ Cardinality(Nameless(ls, j)) < Cardinality(Nameless(ls, i))
    BY <1>0, <1>3, NamelessAre
  <2> QED
    BY <2>3, <2>4, <2>5
<1> QED
  BY <1>2, <1>3

(* with_names: what is written, all but the "ref" that we gave.            *)
Written(ls, i) == IF ls[i] = Refs!NoLabel /\ NameOf(ls, i) = Refs!ref_name(1) THEN Refs!NoLabel ELSE NameOf(ls, i)

(* The names ms are those of ls where p says, some written down, and new   *)
(* ones.                                                                   *)
Brought(ls, ms, p) ==
    /\ \A k \in 1..Len(ms) : p[k] \in 0..Len(ls)
    /\ \A k \in 1..Len(ms) : p[k] = 0 => ms[k] # Refs!NoLabel /\ ms[k] # Refs!ref_name(1)
    /\ \A k \in 1..Len(ms) : p[k] # 0 => ms[k] = Written(ls, p[k])
    /\ \A j, k \in 1..Len(ms) : p[j] = p[k] /\ p[j] # 0 => j = k

(* References that come from others with their names written, and new ones *)
(* with a name that is not "ref", are called as before.                    *)
LEMMA NamesCarried ==
    ASSUME NEW ls \in Seq(LabelSet), NEW ms \in Seq(LabelSet), NEW p, Brought(ls, ms, p),
           NEW k \in 1..Len(ms), p[k] # 0
    PROVE  NameOf(ms, k) = NameOf(ls, p[k])
<1> USE DEF Brought
<1>0. Len(ms) \in Nat /\ Len(ls) \in Nat /\ DOMAIN ms = 1..Len(ms) /\ DOMAIN ls = 1..Len(ls)
  BY LenProperties
<1>1. PICK i \in 1..Len(ls) : i = p[k]
  <2>1. p[k] \in 0..Len(ls)
    OBVIOUS
  <2> QED
    BY <1>0, <2>1
<1>2. ms[k] = Written(ls, i) /\ NameOf(ls, i) # Refs!NoLabel
  BY <1>1, NameIs
<1>3. CASE ~(ls[i] = Refs!NoLabel /\ NameOf(ls, i) = Refs!ref_name(1))
  <2>1. ms[k] = NameOf(ls, i)
    BY <1>2, <1>3 DEF Written
  <2> QED
    BY <1>1, <1>2, <2>1 DEF NameOf
<1>4. CASE ls[i] = Refs!NoLabel /\ NameOf(ls, i) = Refs!ref_name(1)
  <2>1. ms[k] = Refs!NoLabel
    BY <1>2, <1>4 DEF Written
(* Another would be called "ref" as well.                                  *)
  <2>2. ASSUME NEW j \in 1..Len(ms), j # k
        PROVE  ms[j] # Refs!NoLabel /\ ms[j] # Refs!ref_name(1)
    <3>1. CASE p[j] = 0
      BY <3>1
    <3>2. CASE p[j] # 0
      <4>1. PICK h \in 1..Len(ls) : h = p[j]
        <5>1. p[j] \in 0..Len(ls)
          OBVIOUS
        <5> QED
          BY <1>0, <3>2, <5>1
      <4>2. h # i
        BY <1>1, <2>2, <3>2, <4>1
      <4>3. NameOf(ls, h) # Refs!ref_name(1)
        BY <1>4, <4>2, NamesDiffer
      <4>4. NameOf(ls, h) # Refs!NoLabel
        BY NameIs
      <4>5. ms[j] = Written(ls, h)
        BY <3>2, <4>1
      <4> QED
        BY <4>3, <4>4, <4>5 DEF Written
    <3> QED
      BY <3>1, <3>2
  <2>3. 1 \in FreeNames(ms)
    <3>1. \A j \in 1..Len(ms) : ms[j] # Refs!ref_name(1)
      BY <2>1, <2>2, RefNames
    <3>2. 1 \in 1..(2 * Len(ms))
      BY <1>0
    <3> QED
      BY <1>0, <3>1, <3>2 DEF FreeNames
  <2>4. Below(FreeNames(ms), 1) = {}
    <3>1. \A x \in FreeNames(ms) : x \in Int /\ x >= 1
      BY <1>0 DEF FreeNames
    <3> QED
      BY <3>1 DEF Below
  <2>5. Nameless(ms, k) = {k}
    <3>1. \A j \in 1..k : j \in 1..Len(ms)
      BY <1>0
    <3>2. \A j \in 1..k : ms[j] = Refs!NoLabel => j = k
      BY <2>2, <3>1
    <3>3. k \in 1..k
      BY <1>0
    <3> QED
      BY <2>1, <3>2, <3>3 DEF Nameless
  <2>6. Cardinality(Below(FreeNames(ms), 1)) = 0 /\ Cardinality(Nameless(ms, k)) = 1
    BY <2>4, <2>5, FS_EmptySet, FS_Singleton
  <2>7. Cardinality(Below(FreeNames(ms), 1)) = Cardinality(Nameless(ms, k)) - 1
    BY <2>6
  <2>8. Number(ms, k) = 1
    BY <2>1, <2>3, <2>7, NumberIs
  <2> QED
    BY <1>1, <1>4, <2>1, <2>8 DEF NameOf
<1> QED
  BY <1>3, <1>4

(* One added with a name that is nobody's does not rename the others.      *)
LEMMA NamesAppended ==
    ASSUME NEW ls \in Seq(LabelSet), NEW e \in LabelSet, e # Refs!NoLabel,
           \A n \in Nat, i \in 1..Len(ls) : e = Refs!ref_name(n) => NameOf(ls, i) # e,
           NEW ms, ms = Append(ls, e), NEW k \in 1..Len(ls)
    PROVE  NameOf(ms, k) = NameOf(ls, k)
<1>0. /\ ms \in Seq(LabelSet) /\ Len(ms) = Len(ls) + 1 /\ ms[Len(ls) + 1] = e
      /\ \A i \in 1..Len(ls) : ms[i] = ls[i]
      /\ Len(ls) \in Nat /\ DOMAIN ls = 1..Len(ls) /\ DOMAIN ms = 1..(Len(ls) + 1)
  BY AppendProperties, LenProperties
<1>1. CASE ls[k] # Refs!NoLabel
  BY <1>0, <1>1 DEF NameOf
<1>2. CASE ls[k] = Refs!NoLabel
  <2>1. PICK m : m = Number(ls, k)
    OBVIOUS
  <2>2. PICK F, G : F = FreeNames(ls) /\ G = FreeNames(ms)
    OBVIOUS
  <2>3. /\ m \in F /\ m \in Nat /\ Cardinality(Below(F, m)) = Cardinality(Nameless(ls, k)) - 1
        /\ NameOf(ls, k) = Refs!ref_name(m)
    BY <1>2, <2>1, <2>2, NumberIs DEF NameOf
  <2>4. Nameless(ms, k) = Nameless(ls, k)
    <3>1. \A j \in 1..k : j \in 1..Len(ls)
      BY <1>0
    <3> QED
      BY <1>0, <3>1 DEF Nameless
  <2>5. \A x : x \in F <=> x \in 1..(2 * Len(ls)) /\ \A i \in 1..Len(ls) : ls[i] # Refs!ref_name(x)
    BY <1>0, <2>2 DEF FreeNames
  <2>6. \A x : x \in G <=> /\ x \in 1..(2 * (Len(ls) + 1)) /\ e # Refs!ref_name(x)
                           /\ \A i \in 1..Len(ls) : ls[i] # Refs!ref_name(x)
    <3>1. \A x : x \in G <=> x \in 1..(2 * (Len(ls) + 1)) /\ \A i \in 1..(Len(ls) + 1) : ms[i] # Refs!ref_name(x)
      BY <1>0, <2>2 DEF FreeNames
    <3>2. ASSUME NEW x PROVE (\A i \in 1..(Len(ls) + 1) : ms[i] # Refs!ref_name(x)) <=>
                             (e # Refs!ref_name(x) /\ \A i \in 1..Len(ls) : ls[i] # Refs!ref_name(x))
      <4>1. \A i : i \in 1..(Len(ls) + 1) <=> i \in 1..Len(ls) \/ i = Len(ls) + 1
        BY <1>0
      <4> QED
        BY <1>0, <4>1
    <3> QED
      BY <3>1, <3>2
(* A free number below this one is the number of one before.               *)
  <2>7. ASSUME NEW x \in F, x < m PROVE e # Refs!ref_name(x)
    <3>0. x \in Nat
      BY <1>0, <2>5, <2>7
    <3>1. PICK b \in Nat : Within(F, b)
      BY <2>2, NamesSuffice
    <3>2. PICK r : r = Cardinality(Below(F, x)) + 1
      OBVIOUS
    <3>3. Below(F, x) \in SUBSET Below(F, m) /\ x \in Below(F, m) /\ x \notin Below(F, x)
      <4>1. \A y \in F : y \in Int
        BY <3>1 DEF Within
      <4> QED
        BY <2>3, <2>7, <3>0, <4>1, BelowGrows
    <3>4. /\ IsFiniteSet(Below(F, m)) /\ Cardinality(Below(F, m)) \in Nat /\ Cardinality(Below(F, x)) \in Nat
      BY <2>3, <3>0, <3>1, BelowIsFinite
    <3>5. Cardinality(Below(F, x)) <= Cardinality(Below(F, m)) /\ Cardinality(Below(F, x)) # Cardinality(Below(F, m))
      BY <3>3, <3>4, FS_Subset
    <3>6. Cardinality(Nameless(ls, k)) \in Nat
      BY NamelessAre
    <3>7. r \in 1..Cardinality(Nameless(ls, k))
      BY <2>3, <3>2, <3>4, <3>5, <3>6
    <3>8. PICK j \in 1..k : ls[j] = Refs!NoLabel /\ Cardinality(Nameless(ls, j)) = r
      BY <3>7, NamelessAre
    <3>9. j \in 1..Len(ls)
      BY <1>0
    <3>10. Cardinality(Below(F, x)) = Cardinality(Nameless(ls, j)) - 1
      BY <3>2, <3>4, <3>8
    <3>11. x = Number(ls, j)
      BY <2>2, <2>7, <3>8, <3>9, <3>10, NumberIs
    <3>12. NameOf(ls, j) = Refs!ref_name(x)
      BY <3>8, <3>11 DEF NameOf
    <3> QED
      BY <3>0, <3>9, <3>12
  <2>8. m \in G
    <3>1. e # Refs!ref_name(m)
      BY <2>3
    <3>2. m \in 1..(2 * (Len(ls) + 1))
      BY <1>0, <2>3, <2>5
    <3> QED
      BY <2>3, <2>5, <2>6, <3>1, <3>2
  <2>9. Below(G, m) = Below(F, m)
    <3>1. ASSUME NEW x \in G, x < m PROVE x \in F
      <4>1. m \in 1..(2 * Len(ls)) /\ x \in 1..(2 * (Len(ls) + 1))
        BY <2>3, <2>5, <2>6, <3>1
      <4>2. x \in 1..(2 * Len(ls))
        BY <1>0, <3>1, <4>1
      <4> QED
        BY <2>5, <2>6, <3>1, <4>2
    <3>2. ASSUME NEW x \in F, x < m PROVE x \in G
      <4>1. x \in 1..(2 * Len(ls))
        BY <2>5, <3>2
      <4>2. x \in 1..(2 * (Len(ls) + 1))
        BY <1>0, <4>1
      <4> QED
        BY <2>5, <2>6, <2>7, <3>2, <4>2
    <3> QED
      BY <3>1, <3>2 DEF Below
  <2>10. ms[k] = Refs!NoLabel /\ k \in 1..Len(ms)
    BY <1>0, <1>2
  <2>11. Cardinality(Below(G, m)) = Cardinality(Nameless(ms, k)) - 1
    BY <2>3, <2>4, <2>9
  <2>12. m = Number(ms, k)
    BY <1>0, <2>2, <2>8, <2>10, <2>11, NumberIs
  <2> QED
    BY <2>3, <2>10, <2>12 DEF NameOf
<1> QED
  BY <1>1, <1>2

LEMMA NextRefName ==
    ASSUME NEW names \in Seq(LabelSet)
    PROVE  \E n \in Nat : /\ n >= 2 /\ Refs!next_ref_name(names) = Refs!ref_name(n)
                          /\ \A i \in 1..Len(names) : names[i] # Refs!ref_name(n)
<1>0. PICK L \in Nat : L = Len(names) /\ DOMAIN names = 1..L
  BY LenProperties
<1>1. PICK free : free = {n \in 2..(L + 2) : \A i \in 1..L : names[i] # Refs!ref_name(n)}
  OBVIOUS
<1>2. Refs!next_ref_name(names) = Refs!ref_name(Refs!Smallest(1, free))
  BY <1>0, <1>1 DEF Refs!next_ref_name
<1>3. Within(free, L + 2) /\ L + 2 \in Nat
  BY <1>0, <1>1 DEF Within
<1>4. ASSUME free = {} PROVE FALSE
  <2>1. PICK T : T = 2..(L + 2)
    OBVIOUS
  <2>2. IsFiniteSet(T) /\ Cardinality(T) = L + 1
    BY <1>0, <2>1, FS_Interval
  <2>3. \A n \in T : \E i \in 1..L : names[i] = Refs!ref_name(n)
    BY <1>1, <1>4, <2>1
  <2>4. PICK taker : taker = [n \in T |-> CHOOSE i \in 1..L : names[i] = Refs!ref_name(n)]
    OBVIOUS
  <2>5. ASSUME NEW n \in T PROVE taker[n] \in 1..L /\ names[taker[n]] = Refs!ref_name(n)
    BY <2>3, <2>4
  <2>6. taker \in [T -> 1..L]
    BY <2>4, <2>5
  <2>7. \A x, y \in T : taker[x] = taker[y] => x = y
    BY <2>5, RefNames
  <2>8. Cardinality(T) <= L
    BY <1>0, <2>2, <2>6, <2>7, FewTaken
  <2> QED
    BY <1>0, <2>2, <2>8
<1>5. 1 \in 1..Cardinality(free)
  <2>1. IsFiniteSet(free) /\ Cardinality(free) \in Nat
    BY <1>3, BelowIsFinite
  <2>2. Cardinality(free) # 0
    BY <1>4, <2>1, FS_EmptySet
  <2> QED
    BY <2>1, <2>2
<1>6. Refs!Smallest(1, free) \in free
  BY <1>3, <1>5, SmallestIs
<1>7. PICK n \in free : n = Refs!Smallest(1, free)
  BY <1>6
<1>8. n \in Nat /\ n >= 2 /\ \A i \in 1..L : names[i] # Refs!ref_name(n)
  BY <1>0, <1>1
<1> QED
  BY <1>0, <1>2, <1>7, <1>8

LEMMA CopyName ==
    ASSUME NEW names \in Seq(LabelSet), NEW i \in 1..Len(names), names[i] # Refs!NoLabel
    PROVE  /\ Refs!copy_name(names, i) \in LabelSet
           /\ Refs!copy_name(names, i) # Refs!NoLabel /\ Refs!copy_name(names, i) # Refs!ref_name(1)
<1>0. PICK L \in Nat : L = Len(names) /\ DOMAIN names = 1..L
  BY LenProperties
<1>1. PICK l, q : l = names[i][1] /\ q = names[i][2]
  OBVIOUS
<1>8. l \in Heads /\ q \in Seq(Nat) /\ Len(q) \in Nat
  <2>1. names[i] \in Heads \X Seq(Nat)
    BY ElementOfSeq DEF LabelSet
  <2>2. l \in Heads /\ q \in Seq(Nat)
    BY <1>1, <2>1
  <2> QED
    BY <2>2, LenProperties
<1>9. names[i][1] = l /\ names[i][2] = q
  BY <1>1
<1>2. CASE Refs!is_default_name(names[i])
  <2>1. Refs!copy_name(names, i) = Refs!next_ref_name(names)
    BY <1>2 DEF Refs!copy_name
  <2>2. PICK n \in Nat : n >= 2 /\ Refs!next_ref_name(names) = Refs!ref_name(n)
    BY NextRefName
  <2>3. n # 1
    BY <2>2
  <2> QED
    BY <2>1, <2>2, <2>3, RefNames
<1>3. CASE ~Refs!is_default_name(names[i])
  <2>1. PICK free : free = {n \in 1..(L + 1) : \A j \in 1..L : names[j] # <<l, Append(q, n)>>}
    OBVIOUS
  <2>2. PICK m : m = Refs!Smallest(1, free)
    OBVIOUS
  <2>3. Refs!copy_name(names, i) = <<l, Append(q, m)>>
    BY <1>0, <1>9, <1>3, <2>1, <2>2 DEF Refs!copy_name
  <2>4. l # "ref"
    BY <1>9, <1>3 DEF Refs!is_default_name
  <2>5. Within(free, L + 1) /\ L + 1 \in Nat
    BY <1>0, <2>1 DEF Within
  <2>6. ASSUME free = {} PROVE FALSE
    <3>1. PICK T : T = 1..(L + 1)
      OBVIOUS
    <3>2. IsFiniteSet(T) /\ Cardinality(T) = L + 1
      BY <1>0, <3>1, FS_Interval
    <3>3. \A n \in T : \E j \in 1..L : names[j] = <<l, Append(q, n)>>
      BY <2>1, <2>6, <3>1
    <3>4. PICK taker : taker = [n \in T |-> CHOOSE j \in 1..L : names[j] = <<l, Append(q, n)>>]
      OBVIOUS
    <3>5. ASSUME NEW n \in T PROVE taker[n] \in 1..L /\ names[taker[n]] = <<l, Append(q, n)>>
      BY <3>3, <3>4
    <3>6. taker \in [T -> 1..L]
      BY <3>4, <3>5
    <3>7. ASSUME NEW x \in T, NEW y \in T, taker[x] = taker[y] PROVE x = y
      <4>1. <<l, Append(q, x)>> = <<l, Append(q, y)>>
        BY <3>5, <3>7
      <4>2. Append(q, x) = Append(q, y)
        BY <4>1
      <4>3. x \in Nat /\ y \in Nat
        BY <1>0, <3>1
      <4>4. Append(q, x)[Len(q) + 1] = x /\ Append(q, y)[Len(q) + 1] = y
        BY <1>8, <4>3, AppendProperties
      <4> QED
        BY <4>2, <4>4
    <3>8. Cardinality(T) <= L
      BY <1>0, <3>2, <3>6, <3>7, FewTaken
    <3> QED
      BY <1>0, <3>2, <3>8
  <2>7. 1 \in 1..Cardinality(free)
    <3>1. IsFiniteSet(free) /\ Cardinality(free) \in Nat
      BY <2>5, BelowIsFinite
    <3>2. Cardinality(free) # 0
      BY <2>6, <3>1, FS_EmptySet
    <3> QED
      BY <3>1, <3>2
  <2>8. m \in free
    BY <2>2, <2>5, <2>7, SmallestIs
  <2>9. m \in Nat
    BY <1>0, <2>1, <2>8
  <2>10. PICK r \in Seq(Nat) : r = Append(q, m) /\ Len(r) = Len(q) + 1 /\ Len(q) \in Nat
    BY <1>8, <2>9, AppendProperties
  <2>11. Refs!copy_name(names, i) \in LabelSet
    <3>1. <<l, r>> \in LabelSet
      BY <1>8, <2>10 DEF LabelSet
    <3> QED
      BY <2>3, <2>10, <3>1
  <2>12. r # <<>>
    BY <1>8, <2>10, EmptySeq
  <2>13. Refs!copy_name(names, i) # Refs!NoLabel
    <3>1. <<l, r>> # <<"", <<>>>>
      BY <2>12
    <3> QED
      BY <2>3, <2>10, <3>1 DEF Refs!NoLabel
  <2>14. Refs!copy_name(names, i) # Refs!ref_name(1)
    BY <2>3, <2>4 DEF Refs!ref_name
  <2> QED
    BY <2>11, <2>13, <2>14
<1> QED
  BY <1>2, <1>3

(***************************************************************************)
(* The URL, and what it shows.                                             *)
(***************************************************************************)
ColorSet == Refs!Colors \cup {Refs!Gray}
SideSet == [label : LabelSet, color : ColorSet]
Places == -1..MaxReferences

RefsInv ==
    /\ url.top \in SideSet /\ url.ref \in SideSet /\ url.others \in Seq(SideSet)
    /\ url.ref_index \in 0..Len(url.others) /\ Len(url.others) < MaxReferences
    /\ was \in Seq(Places) /\ Len(was) = Len(url.others) + 2
    /\ url.top.label # Refs!ref_name(1)

LEMMA SideChanged ==
    ASSUME NEW x \in SideSet
    PROVE  /\ x.label \in LabelSet /\ x.color \in ColorSet
           /\ \A v \in ColorSet : /\ [x EXCEPT !.color = v] \in SideSet
                                  /\ [x EXCEPT !.color = v].color = v
                                  /\ [x EXCEPT !.color = v].label = x.label
           /\ \A l \in LabelSet : /\ [x EXCEPT !.label = l] \in SideSet
                                  /\ [x EXCEPT !.label = l].label = l
                                  /\ [x EXCEPT !.label = l].color = x.color
BY DEF SideSet

LEMMA ReferencesAre ==
    ASSUME RefsInv, NEW rs, rs = Refs!references
    PROVE  /\ rs \in Seq(SideSet) /\ Len(rs) = Len(url.others) + 1 /\ Len(rs) \in Nat
           /\ Len(rs) >= 1 /\ Refs!shown \in 1..Len(rs)
<1>1. url.others \in Seq(SideSet) /\ url.ref \in SideSet /\ url.ref_index + 1 \in 1..(Len(url.others) + 1)
      /\ Len(url.others) \in Nat
  BY LenProperties DEF RefsInv
<1>2. Refs!InsertAt(url.others, url.ref_index + 1, url.ref) \in Seq(SideSet)
      /\ Len(Refs!InsertAt(url.others, url.ref_index + 1, url.ref)) = Len(url.others) + 1
  BY <1>1, InsertIs
<1>3. Refs!shown = url.ref_index + 1
  BY DEF Refs!shown
<1> QED
  BY <1>1, <1>2, <1>3 DEF Refs!references

LEMMA ColoringOf ==
    ASSUME AppAssumption, NEW top \in SideSet, NEW rs \in Seq(SideSet), Len(rs) \in 1..MaxReferences,
           NEW c, c = Refs!ColorsOf(top, rs)
    PROVE  /\ c \in Refs!Colorings /\ Len(c) = Len(rs) + 1 /\ Len(rs) \in Nat /\ DOMAIN c = 1..(Len(rs) + 1)
           /\ c[1] = top.color /\ \A k \in 1..Len(rs) : c[k + 1] = rs[k].color
<1>1. MaxReferences \in Nat /\ Len(rs) \in Nat /\ Len(rs) >= 1
  BY LenProperties DEF AppAssumption, Refs!ReferencesAssumption
<1>2. c = [i \in 1..(Len(rs) + 1) |-> IF i = 1 THEN top.color ELSE rs[i - 1].color]
  BY DEF Refs!ColorsOf
<1>3. ASSUME NEW i \in 1..(Len(rs) + 1) PROVE c[i] \in ColorSet
  <2>1. CASE i = 1
    BY <1>2, <2>1, SideChanged
  <2>2. CASE i # 1
    <3>1. i - 1 \in 1..Len(rs)
      BY <1>1, <2>2
    <3>2. rs[i - 1] \in SideSet
      BY <3>1, ElementOfSeq
    <3> QED
      BY <1>2, <2>2, <3>2, SideChanged
  <2> QED
    BY <2>1, <2>2
<1>4. c \in [1..(Len(rs) + 1) -> Refs!Colors \cup {Refs!Gray}]
  BY <1>2, <1>3 DEF ColorSet
<1>5. Len(rs) + 1 \in 1..(MaxReferences + 1)
  BY <1>1
<1>6. c \in Refs!Colorings
  BY <1>4, <1>5, ColoringIs
<1>7. DOMAIN c = 1..(Len(rs) + 1) /\ DOMAIN c = 1..Len(c) /\ Len(c) \in 1..(MaxReferences + 1)
  BY <1>4, <1>6, ColoringIs
<1>8. Len(c) = Len(rs) + 1
  BY <1>1, <1>7
<1>9. c[1] = top.color /\ \A k \in 1..Len(rs) : c[k + 1] = rs[k].color
  BY <1>1, <1>2
<1> QED
  BY <1>1, <1>6, <1>7, <1>8, <1>9

(* References with other colors, called the same.                          *)
LEMMA Recolored ==
    ASSUME NEW rs \in Seq(SideSet), NEW d, \A k \in 1..Len(rs) : d[k + 1] \in ColorSet,
           NEW r, r = Refs!Colored(rs, d)
    PROVE  /\ r \in Seq(SideSet) /\ Len(r) = Len(rs)
           /\ \A k \in 1..Len(rs) : r[k].color = d[k + 1] /\ r[k].label = rs[k].label
<1>1. Len(rs) \in Nat /\ DOMAIN rs = 1..Len(rs)
  BY LenProperties
<1>2. r = [i \in 1..Len(rs) |-> [rs[i] EXCEPT !.color = d[i + 1]]]
  BY <1>1 DEF Refs!Colored
<1>3. ASSUME NEW k \in 1..Len(rs)
      PROVE  r[k] \in SideSet /\ r[k].color = d[k + 1] /\ r[k].label = rs[k].label
  <2>1. rs[k] \in SideSet
    BY ElementOfSeq
  <2>2. PICK v \in ColorSet : v = d[k + 1]
    OBVIOUS
  <2>3. r[k] = [rs[k] EXCEPT !.color = v]
    BY <1>2, <2>2
  <2> QED
    BY <2>1, <2>2, <2>3, SideChanged
<1>4. r \in [1..Len(rs) -> SideSet]
  BY <1>2, <1>3
<1>5. r \in Seq(SideSet) /\ Len(r) = Len(rs)
  BY <1>1, <1>4
<1> QED
  BY <1>3, <1>5

LEMMA Showing ==
    ASSUME AppAssumption, NEW top \in SideSet, top.label # Refs!ref_name(1),
           NEW rs \in Seq(SideSet), Len(rs) \in 1..MaxReferences,
           NEW i \in 1..Len(rs), NEW places \in Seq(Places), Len(places) = Len(rs) + 1,
           Refs!Show(top, rs, i, places)
    PROVE  /\ RefsInv' /\ was' = places
           /\ Refs!ColorsShown' = Refs!side_colors[Refs!ColorsOf(top, rs)]
           /\ Refs!NamesShown' = Refs!reference_names(rs)
<1>0. Len(rs) \in Nat /\ DOMAIN rs = 1..Len(rs) /\ MaxReferences \in Nat
  BY LenProperties DEF AppAssumption, Refs!ReferencesAssumption
<1>1. PICK c : c = Refs!ColorsOf(top, rs)
  OBVIOUS
<1>2. c \in Refs!Colorings /\ Len(c) = Len(rs) + 1
  BY <1>1, ColoringOf
<1>3. PICK d : d = Refs!needed_colors[c]
  OBVIOUS
<1>4. d \in Refs!Colorings /\ Len(d) = Len(rs) + 1 /\ DOMAIN d = 1..(Len(rs) + 1)
      /\ Refs!side_colors[d] = Refs!side_colors[c]
  BY <1>2, <1>3, NeededKeeps
<1>5. \A k \in 1..(Len(rs) + 1) : d[k] \in ColorSet
  BY <1>4, ColoringIs DEF ColorSet
<1>6. PICK kept : kept = Refs!Colored(rs, d)
  OBVIOUS
<1>7. /\ kept \in Seq(SideSet) /\ Len(kept) = Len(rs)
      /\ \A k \in 1..Len(rs) : kept[k].color = d[k + 1] /\ kept[k].label = rs[k].label
  <2>1. \A k \in 1..Len(rs) : d[k + 1] \in ColorSet
    BY <1>0, <1>5
  <2> QED
    BY <1>6, <2>1, Recolored
<1>8. PICK above : above = [top EXCEPT !.color = d[1]]
  OBVIOUS
<1>9. above \in SideSet /\ above.color = d[1] /\ above.label = top.label
  <2>1. d[1] \in ColorSet
    BY <1>0, <1>5
  <2> QED
    BY <1>8, <2>1, SideChanged
<1>10. PICK rest : rest = Refs!RemoveAt(kept, i)
  OBVIOUS
<1>11. rest \in Seq(SideSet) /\ Len(rest) = Len(rs) - 1
  BY <1>7, <1>10, RemoveIs
<1>12. url' = [top |-> above, ref |-> kept[i], others |-> rest, ref_index |-> i - 1] /\ was' = places
  BY <1>1, <1>3, <1>6, <1>8, <1>10 DEF Refs!Show
<1>13. url'.top = above /\ url'.ref = kept[i] /\ url'.others = rest /\ url'.ref_index = i - 1
  BY <1>12
<1>14. kept[i] \in SideSet
  BY <1>7, ElementOfSeq
<1>15. RefsInv'
  BY <1>0, <1>9, <1>11, <1>12, <1>13, <1>14 DEF RefsInv
<1>16. Refs!references' = kept
  <2>1. Refs!InsertAt(rest, i, kept[i]) = kept
    BY <1>7, <1>10, PutBack
  <2>2. i - 1 + 1 = i
    BY <1>0
  <2> QED
    BY <1>13, <2>1, <2>2 DEF Refs!references
<1>17. Refs!ColorsOf(above, kept) = d
  <2>1. PICK e : e = Refs!ColorsOf(above, kept)
    OBVIOUS
  <2>2. /\ DOMAIN e = 1..(Len(rs) + 1) /\ e[1] = d[1]
        /\ \A k \in 1..Len(rs) : e[k + 1] = kept[k].color
    <3>1. kept \in Seq(SideSet) /\ Len(kept) \in 1..MaxReferences /\ above \in SideSet
      BY <1>7, <1>9
    <3>2. /\ DOMAIN e = 1..(Len(kept) + 1) /\ e[1] = above.color
          /\ \A k \in 1..Len(kept) : e[k + 1] = kept[k].color
      BY <2>1, <3>1, ColoringOf
    <3> QED
      BY <1>7, <1>9, <3>2
  <2>3. \A k \in 1..(Len(rs) + 1) : e[k] = d[k]
    <3> SUFFICES ASSUME NEW k \in 1..(Len(rs) + 1) PROVE e[k] = d[k]
      OBVIOUS
    <3>1. CASE k = 1
      BY <2>2, <3>1
    <3>2. CASE k # 1
      <4>1. k - 1 \in 1..Len(rs) /\ k - 1 + 1 = k
        BY <1>0, <3>2
      <4> QED
        BY <1>7, <2>2, <4>1
    <3> QED
      BY <3>1, <3>2
  <2>4. e = [k \in DOMAIN e |-> e[k]] /\ d = [k \in DOMAIN d |-> d[k]]
    <3>1. e = [k \in 1..(Len(kept) + 1) |-> IF k = 1 THEN above.color ELSE kept[k - 1].color]
      BY <2>1 DEF Refs!ColorsOf
    <3>2. \E n \in 1..(MaxReferences + 1) : d \in [1..n -> Refs!Colors \cup {Refs!Gray}]
      BY <1>4, ColoringIs
    <3> QED
      BY <3>1, <3>2
  <2> QED
    BY <1>4, <2>1, <2>2, <2>3, <2>4
<1>18. Refs!ColorsShown' = Refs!side_colors[Refs!ColorsOf(top, rs)]
  BY <1>1, <1>4, <1>13, <1>16, <1>17 DEF Refs!ColorsShown
<1>19. Refs!reference_names(kept) = Refs!reference_names(rs)
  <2>1. LabelsOf(kept) = LabelsOf(rs)
    <3>1. DOMAIN kept = 1..Len(rs)
      BY <1>7, LenProperties
    <3> QED
      BY <1>0, <1>7, <3>1 DEF LabelsOf
  <2> QED
    BY <1>7, <2>1, NamesAre
<1>20. Refs!NamesShown' = Refs!reference_names(rs)
  BY <1>16, <1>19 DEF Refs!NamesShown
<1> QED
  BY <1>12, <1>15, <1>18, <1>20

Passed(c, d, s, p) ==
    \A k \in 2..Len(d) : \/ p[k] = -1 /\ d[k] = Refs!Gray
                         \/ p[k] \in Int /\ p[k] + 1 \in 2..Len(c) /\ d[k] = s[p[k] + 1]
Once(d, p) == \A j, k \in 2..Len(d) : p[j] = p[k] /\ p[j] # -1 => j = k
Carried(c, d, s, t, p) ==
    /\ \A k \in 2..Len(d) : p[k] # -1 => s[p[k] + 1] \in {t[k], Refs!Gray}
    /\ (\A q \in 2..Len(c) : \E k \in 2..Len(d) : p[k] + 1 = q) => s[1] \in {t[1], Refs!Gray}

(* The top results keep their color, or take one that was freed.           *)
TopTakes(c, d, s, t, p) ==
    t[1] # s[1] => \E q \in 2..Len(c) : t[1] = s[q] /\ \A k \in 2..Len(d) : p[k] + 1 # q

LEMMA TopCarried ==
    ASSUME AppAssumption, NEW c \in Refs!Colorings, NEW d \in Refs!Colorings,
           NEW s, s = Refs!side_colors[c], NEW t, t = Refs!side_colors[d], NEW p,
           d[1] = c[1], Passed(c, d, s, p)
    PROVE  TopTakes(c, d, s, t, p)
<1>0. /\ Len(c) \in Nat /\ Len(c) >= 1 /\ Len(d) \in Nat /\ Len(d) >= 1
      /\ \A i \in 1..Len(c) : s[i] = Side(c, i)
      /\ \A i \in 1..Len(d) : t[i] = Side(d, i)
      /\ DOMAIN c = 1..Len(c) /\ DOMAIN d = 1..Len(d)
      /\ \A k \in 2..Len(d) : \/ p[k] = -1 /\ d[k] = Refs!Gray
                              \/ p[k] \in Int /\ p[k] + 1 \in 2..Len(c) /\ d[k] = s[p[k] + 1]
  <2>1. Len(c) \in 1..(MaxReferences + 1) /\ Len(d) \in 1..(MaxReferences + 1)
        /\ DOMAIN c = 1..Len(c) /\ DOMAIN d = 1..Len(d)
    BY ColoringIs
  <2>2. Len(c) \in Nat /\ Len(d) \in Nat /\ (\A i \in 1..Len(c) : s[i] = Side(c, i))
        /\ (\A i \in 1..Len(d) : t[i] = Side(d, i))
    BY SidesAre
  <2> QED
    BY <2>1, <2>2 DEF Passed
<1>1. 1 \in 1..Len(c) /\ 1 \in 1..Len(d) /\ s[1] = Side(c, 1) /\ t[1] = Side(d, 1)
  BY <1>0
<1>2. CASE c[1] # Refs!Gray
  <2>1. Has(c, 1) /\ Has(d, 1)
    BY <1>2 DEF Has
  <2>2. s[1] = c[1] /\ t[1] = d[1]
    BY <1>1, <2>1, SideWhen
  <2> QED
    BY <2>2 DEF TopTakes
<1>3. CASE c[1] = Refs!Gray
  <2>1. ~Has(c, 1) /\ ~Has(d, 1)
    BY <1>3 DEF Has
  <2>2. PICK F, G : F = FreeOf(c) /\ G = FreeOf(d)
    OBVIOUS
  <2>3. PICK x, y : x = s[1] /\ y = t[1]
    OBVIOUS
  <2>4. PICK b \in Nat : Within(F, b) /\ Within(G, b)
    BY <2>2, FreeIs
  <2>5. ASSUME NEW e, ~Has(e, 1) PROVE Cardinality(Lacking(e, 1)) = 1
    <3>1. Lacking(e, 1) = {1}
      BY <2>5 DEF Lacking
    <3> QED
      BY <3>1, FS_Singleton
  <2>6. ASSUME NEW z, NEW e \in Refs!Colorings, 1 \in 1..Len(e), ~Has(e, 1), z = Side(e, 1), z # Refs!Gray
        PROVE  z \in FreeOf(e) /\ \A v \in FreeOf(e) : ~(v < z)
    <3>1. z \in FreeOf(e) /\ Cardinality(Below(FreeOf(e), z)) = 0
      <4>1. z \in FreeOf(e) /\ Cardinality(Below(FreeOf(e), z)) = Cardinality(Lacking(e, 1)) - 1
        BY <2>6, SideWhen
      <4> QED
        BY <2>5, <2>6, <4>1
    <3>2. PICK m \in Nat : Within(FreeOf(e), m)
      BY FreeIs
    <3>3. z \in Int
      BY <3>1, <3>2 DEF Within
    <3>4. IsFiniteSet(Below(FreeOf(e), z))
      BY <3>2, <3>3, BelowIsFinite
    <3>5. Below(FreeOf(e), z) = {}
      BY <3>1, <3>4, FS_EmptySet
    <3> QED
      BY <3>1, <3>5 DEF Below
(* A color that became free was that of one not passed on.                 *)
  <2>7. ASSUME NEW z \in G, z \notin F
        PROVE  \E q \in 2..Len(c) : z = s[q] /\ \A k \in 2..Len(d) : p[k] + 1 # q
    <3>1. z \in Refs!Colors /\ \A k \in 1..Len(d) : d[k] # z
      BY <1>0, <2>2 DEF FreeOf
    <3>2. PICK i \in 1..Len(c) : c[i] = z
      BY <1>0, <2>2, <2>7, <3>1 DEF FreeOf
    <3>3. z # Refs!Gray
      BY <3>1, FreeIs
    <3>4. PICK j \in 1..Len(c) : c[j] = z /\ Side(c, j) = z
      BY <3>2, <3>3, GivenStays
    <3>5. j \in 2..Len(c)
      BY <1>0, <1>3, <3>3, <3>4
    <3>6. z = s[j]
      BY <1>0, <3>4
    <3>7. ASSUME NEW k \in 2..Len(d), p[k] + 1 = j PROVE FALSE
      <4>1. p[k] # -1
        BY <1>0, <3>5, <3>7
      <4>2. d[k] = s[j]
        BY <1>0, <3>7, <4>1
      <4>3. k \in 1..Len(d)
        BY <1>0
      <4> QED
        BY <3>1, <3>6, <4>2, <4>3
    <3> QED
      BY <3>5, <3>6, <3>7
  <2>8. ASSUME NEW e \in Refs!Colorings, 1 \in 1..Len(e), ~Has(e, 1), FreeOf(e) # {} PROVE Side(e, 1) # Refs!Gray
    <3>1. PICK S : S = FreeOf(e)
      OBVIOUS
    <3>2. PICK m \in Nat : Within(S, m)
      BY <3>1, FreeIs
    <3>3. IsFiniteSet(S) /\ Cardinality(S) \in Nat
      BY <3>2, BelowIsFinite
    <3>4. Cardinality(S) # 0
      BY <2>8, <3>1, <3>3, FS_EmptySet
    <3>5. 1 \in 1..Cardinality(S) /\ 1 <= Cardinality(S)
      BY <3>3, <3>4
    <3>6. Refs!Smallest(1, S) \in S
      BY <3>2, <3>5, SmallestIs
    <3>7. Side(e, 1) = Refs!Smallest(1, S)
      <4>1. Cardinality(Lacking(e, 1)) = 1
        BY <2>5, <2>8
      <4> QED
        BY <2>8, <3>1, <3>5, <4>1 DEF Side
    <3> QED
      BY <3>1, <3>6, <3>7, FreeIs
  <2>9. ASSUME x # Refs!Gray PROVE x \in G
    <3>1. x \in Refs!Colors
      <4>1. x \in F
        BY <1>1, <2>1, <2>2, <2>3, <2>6, <2>9
      <4> QED
        BY <2>2, <4>1, FreeIs
    <3>2. ASSUME NEW k \in 1..Len(d), d[k] = x PROVE FALSE
      <4>1. k # 1
        BY <1>3, <2>9, <3>2
      <4>2. k \in 2..Len(d)
        BY <1>0, <4>1
      <4>3. p[k] \in Int /\ p[k] + 1 \in 2..Len(c) /\ d[k] = s[p[k] + 1]
        BY <1>0, <2>9, <3>2, <4>2
      <4>4. PICK q \in 2..Len(c) : q = p[k] + 1
        BY <4>3
      <4>5. q \in 1..Len(c) /\ q # 1
        BY <1>0
      <4>6. Side(c, q) = x /\ Side(c, 1) = x
        BY <1>0, <1>1, <2>3, <3>2, <4>3, <4>4, <4>5
      <4> QED
        BY <1>1, <2>9, <4>5, <4>6, SidesDiffer
    <3> QED
      BY <1>0, <2>2, <3>1, <3>2 DEF FreeOf
  <2>10. CASE y = Refs!Gray
    <3>1. G = {}
      BY <1>1, <2>1, <2>2, <2>3, <2>8, <2>10
    <3>2. x = Refs!Gray
      BY <2>9, <3>1
    <3> QED
      BY <2>3, <2>10, <3>2 DEF TopTakes
  <2>11. CASE y # Refs!Gray
    <3>1. y \in G /\ \A v \in G : ~(v < y)
      BY <1>1, <2>1, <2>2, <2>3, <2>6, <2>11
    <3>2. CASE y \notin F
      BY <2>3, <2>7, <3>1, <3>2 DEF TopTakes
    <3>3. CASE y \in F
      <4>1. x # Refs!Gray
        BY <1>1, <2>1, <2>2, <2>3, <2>8, <3>3
      <4>2. x \in F /\ \A v \in F : ~(v < x)
        BY <1>1, <2>1, <2>2, <2>3, <2>6, <4>1
      <4>3. x \in Int /\ y \in Int
        BY <2>4, <3>3, <4>2 DEF Within
      <4>4. ~(y < x) /\ ~(x < y)
        BY <2>9, <3>1, <3>3, <4>1, <4>2
      <4>5. x = y
        BY <4>3, <4>4
      <4> QED
        BY <2>3, <4>5 DEF TopTakes
    <3> QED
      BY <3>2, <3>3
  <2> QED
    BY <2>10, <2>11
<1> QED
  BY <1>2, <1>3

(* Sides that kept their colors keep them, whatever the others do, and the *)
(* top results too if no reference was removed.                            *)
LEMMA ColorsCarried ==
    ASSUME AppAssumption, NEW c \in Refs!Colorings, NEW d \in Refs!Colorings,
           NEW s, s = Refs!side_colors[c], NEW t, t = Refs!side_colors[d], NEW p,
           d[1] = c[1], p[1] = 0, Passed(c, d, s, p), Once(d, p)
    PROVE  Carried(c, d, s, t, p)
<1>0. /\ Len(c) \in Nat /\ Len(c) >= 1 /\ Len(d) \in Nat /\ Len(d) >= 1
      /\ \A i \in 1..Len(c) : s[i] = Side(c, i)
      /\ \A i \in 1..Len(d) : t[i] = Side(d, i)
      /\ DOMAIN c = 1..Len(c) /\ DOMAIN d = 1..Len(d)
      /\ \A k \in 2..Len(d) : \/ p[k] = -1 /\ d[k] = Refs!Gray
                              \/ p[k] \in Int /\ p[k] + 1 \in 2..Len(c) /\ d[k] = s[p[k] + 1]
      /\ \A j, k \in 2..Len(d) : p[j] = p[k] /\ p[j] # -1 => j = k
  <2>3. /\ \A k \in 2..Len(d) : \/ p[k] = -1 /\ d[k] = Refs!Gray
                                \/ p[k] \in Int /\ p[k] + 1 \in 2..Len(c) /\ d[k] = s[p[k] + 1]
        /\ \A j, k \in 2..Len(d) : p[j] = p[k] /\ p[j] # -1 => j = k
    BY DEF Passed, Once
  <2>1. Len(c) \in 1..(MaxReferences + 1) /\ Len(d) \in 1..(MaxReferences + 1)
        /\ DOMAIN c = 1..Len(c) /\ DOMAIN d = 1..Len(d)
    BY ColoringIs
  <2>2. Len(c) \in Nat /\ Len(d) \in Nat /\ (\A i \in 1..Len(c) : s[i] = Side(c, i))
        /\ (\A i \in 1..Len(d) : t[i] = Side(d, i))
    BY SidesAre
  <2> QED
    BY <2>1, <2>2, <2>3
<1>1. c[1] # Refs!Gray => s[1] = c[1]
  <2>1. c[1] # Refs!Gray => Has(c, 1)
    BY DEF Has
  <2>2. 1 \in 1..Len(c)
    BY <1>0
  <2> QED
    BY <1>0, <2>1, <2>2, SideWhen
(* No color is given twice.                                                *)
<1>2. ASSUME NEW j \in 1..Len(d), NEW k \in 1..Len(d), j # k, d[j] = d[k] PROVE d[k] = Refs!Gray
  <2> SUFFICES ASSUME d[k] # Refs!Gray PROVE FALSE
    OBVIOUS
  <2>1. ASSUME NEW m \in {j, k} PROVE p[m] \in Int /\ p[m] + 1 \in 1..Len(c) /\ d[m] = s[p[m] + 1]
    <3>0. m \in 1..Len(d) /\ d[m] # Refs!Gray
      BY <1>2
    <3>1. CASE m = 1
      BY <1>0, <1>1, <3>0, <3>1
    <3>2. CASE m # 1
      <4>1. m \in 2..Len(d)
        BY <1>0, <3>0, <3>2
      <4>2. p[m] \in Int /\ p[m] + 1 \in 2..Len(c) /\ d[m] = s[p[m] + 1]
        BY <1>0, <3>0, <4>1
      <4> QED
        BY <1>0, <4>2
    <3> QED
      BY <3>1, <3>2
  <2>2. p[j] # p[k]
    <3>1. CASE j = 1 \/ k = 1
      <4>1. \A m \in 2..Len(d) : p[m] # -1 => p[m] # 0
        BY <1>0
      <4>2. p[j] # -1 /\ p[k] # -1
        BY <1>0, <2>1
      <4>3. j \in 2..Len(d) \/ k \in 2..Len(d)
        BY <1>0, <1>2
      <4>4. CASE j = 1
        <5>1. k \in 2..Len(d)
          BY <1>0, <1>2, <4>4
        <5> QED
          BY <4>1, <4>2, <4>4, <5>1
      <4>5. CASE k = 1
        <5>1. j \in 2..Len(d)
          BY <1>0, <1>2, <4>5
        <5> QED
          BY <4>1, <4>2, <4>5, <5>1
      <4> QED
        BY <3>1, <4>4, <4>5
    <3>2. CASE ~(j = 1 \/ k = 1)
      <4>1. j \in 2..Len(d) /\ k \in 2..Len(d)
        BY <1>0, <3>2
      <4>2. p[j] # -1
        BY <1>0, <2>1
      <4> QED
        BY <1>0, <1>2, <4>1, <4>2
    <3> QED
      BY <3>1, <3>2
  <2>3. PICK x \in 1..Len(c) : x = p[j] + 1 /\ d[j] = s[x] /\ p[j] \in Int
    BY <2>1
  <2>4. PICK y \in 1..Len(c) : y = p[k] + 1 /\ d[k] = s[y] /\ p[k] \in Int
    BY <2>1
  <2>5. x # y
    BY <2>2, <2>3, <2>4
  <2>6. Side(c, x) = Side(c, y) /\ Side(c, x) # Refs!Gray
    BY <1>0, <1>2, <2>3, <2>4
  <2> QED
    BY <2>5, <2>6, SidesDiffer
<1>3. ASSUME NEW k \in 2..Len(d), p[k] # -1 PROVE s[p[k] + 1] \in {t[k], Refs!Gray}
  <2> SUFFICES ASSUME s[p[k] + 1] # Refs!Gray PROVE s[p[k] + 1] = t[k]
    OBVIOUS
  <2>1. d[k] = s[p[k] + 1] /\ d[k] # Refs!Gray
    BY <1>0, <1>3
  <2>2. k \in 1..Len(d)
    BY <1>0
  <2>3. \A j \in 1..(k - 1) : d[j] # d[k]
    <3> SUFFICES ASSUME NEW j \in 1..(k - 1) PROVE d[j] # d[k]
      OBVIOUS
    <3>1. j \in 1..Len(d) /\ j # k
      BY <1>0, <2>2
    <3> QED
      BY <1>2, <2>1, <2>2, <3>1
  <2>4. Has(d, k)
    BY <2>1, <2>3 DEF Has
  <2>5. Side(d, k) = d[k]
    BY <2>2, <2>4, SideWhen
  <2> QED
    BY <1>0, <2>1, <2>2, <2>5
<1>4. ASSUME \A q \in 2..Len(c) : \E k \in 2..Len(d) : p[k] + 1 = q PROVE s[1] \in {t[1], Refs!Gray}
  <2>0. 1 \in 1..Len(c) /\ 1 \in 1..Len(d)
    BY <1>0
  <2>1. CASE c[1] # Refs!Gray
    <3>1. Has(d, 1)
      BY <2>1 DEF Has
    <3>2. t[1] = d[1]
      BY <1>0, <2>0, <3>1, SideWhen
    <3> QED
      BY <1>1, <2>1, <3>2
  <2>2. CASE c[1] = Refs!Gray
    <3> SUFFICES ASSUME s[1] # Refs!Gray PROVE s[1] = t[1]
      OBVIOUS
    <3>1. ~Has(c, 1) /\ ~Has(d, 1)
      BY <2>2 DEF Has
    <3>2. PICK x : x = s[1]
      OBVIOUS
    <3>3. PICK F, G : F = FreeOf(c) /\ G = FreeOf(d)
      OBVIOUS
    <3>4. ASSUME NEW e, ~Has(e, 1) PROVE Cardinality(Lacking(e, 1)) = 1
      <4>1. Lacking(e, 1) = {1}
        BY <3>4 DEF Lacking
      <4> QED
        BY <4>1, FS_Singleton
    <3>5. x \in F /\ Cardinality(Below(F, x)) = 0
      <4>1. Side(c, 1) = x /\ x # Refs!Gray
        BY <1>0, <2>0, <3>2
      <4>2. x \in F /\ Cardinality(Below(F, x)) = Cardinality(Lacking(c, 1)) - 1
        BY <2>0, <3>1, <3>3, <4>1, SideWhen
      <4> QED
        BY <3>1, <3>4, <4>2
    <3>6. G \subseteq F
      <4> SUFFICES ASSUME NEW y \in G, y \notin F PROVE FALSE
        OBVIOUS
      <4>1. y \in Refs!Colors /\ \A k \in 1..Len(d) : d[k] # y
        BY <1>0, <3>3 DEF FreeOf
      <4>2. PICK i \in 1..Len(c) : c[i] = y
        BY <1>0, <3>3, <4>1 DEF FreeOf
      <4>3. y # Refs!Gray
        BY <4>1, FreeIs
      <4>4. PICK j \in 1..Len(c) : c[j] = y /\ Side(c, j) = y
        BY <4>2, <4>3, GivenStays
      <4>5. j \in 2..Len(c)
        BY <1>0, <2>2, <4>3, <4>4
      <4>6. PICK k \in 2..Len(d) : p[k] + 1 = j
        BY <1>4, <4>5
      <4>7. p[k] # -1
        BY <1>0, <4>5, <4>6
      <4>8. d[k] = s[j]
        BY <1>0, <4>6, <4>7
      <4>9. k \in 1..Len(d)
        BY <1>0
      <4> QED
        BY <1>0, <4>1, <4>4, <4>8, <4>9
    <3>7. x \in G
      <4>1. x \in Refs!Colors
        BY <3>3, <3>5, FreeIs
      <4>2. ASSUME NEW k \in 1..Len(d), d[k] = x PROVE FALSE
        <5>1. k # 1
          BY <2>2, <3>2, <4>2
        <5>2. k \in 2..Len(d)
          BY <1>0, <5>1
        <5>3. p[k] \in Int /\ p[k] + 1 \in 2..Len(c) /\ d[k] = s[p[k] + 1]
          BY <1>0, <3>2, <4>2, <5>2
        <5>4. PICK q \in 2..Len(c) : q = p[k] + 1
          BY <5>3
        <5>5. q \in 1..Len(c) /\ q # 1
          BY <1>0
        <5>6. Side(c, q) = x /\ Side(c, 1) = x /\ x # Refs!Gray
          BY <1>0, <2>0, <3>2, <4>2, <5>3, <5>4, <5>5
        <5> QED
          BY <2>0, <5>5, <5>6, SidesDiffer
      <4> QED
        BY <1>0, <3>3, <4>1, <4>2 DEF FreeOf
    <3>8. PICK b \in Nat : Within(F, b) /\ Within(G, b)
      BY <3>3, FreeIs
    <3>9. x \in Int
      BY <3>5, <3>8 DEF Within
    <3>10. Cardinality(Below(G, x)) = 0 /\ Cardinality(G) \in Nat /\ Cardinality(G) >= 1
      <4>1. IsFiniteSet(Below(F, x)) /\ IsFiniteSet(G) /\ Cardinality(G) \in Nat
        BY <3>8, <3>9, BelowIsFinite
      <4>2. Below(F, x) = {}
        BY <3>5, <4>1, FS_EmptySet
      <4>3. Below(G, x) = {}
        BY <3>6, <4>2 DEF Below
      <4>4. Cardinality(G) # 0
        BY <3>7, <4>1, FS_EmptySet
      <4> QED
        BY <4>1, <4>3, <4>4, FS_EmptySet
    <3>11. Side(d, 1) = Refs!Smallest(1, G)
      <4>1. Cardinality(Lacking(d, 1)) = 1
        BY <3>1, <3>4
      <4> QED
        BY <3>1, <3>3, <3>10, <4>1 DEF Side
    <3>12. x = Refs!Smallest(1, G)
      <4>1. 1 \in 1..Cardinality(G) /\ Cardinality(Below(G, x)) = 1 - 1
        BY <3>10
      <4> QED
        BY <3>7, <3>8, <4>1, SmallestIs
    <3> QED
      BY <1>0, <2>0, <3>2, <3>11, <3>12
  <2> QED
    BY <2>1, <2>2
<1> QED
  BY <1>3, <1>4 DEF Carried

LEMMA LabelsAre ==
    ASSUME NEW rs \in Seq(SideSet), NEW ls, ls = LabelsOf(rs)
    PROVE  /\ ls \in Seq(LabelSet) /\ Len(ls) = Len(rs) /\ Len(rs) \in Nat
           /\ DOMAIN ls = 1..Len(rs) /\ DOMAIN rs = 1..Len(rs)
           /\ \A k \in 1..Len(rs) : ls[k] = rs[k].label
<1>1. Len(rs) \in Nat /\ DOMAIN rs = 1..Len(rs)
  BY LenProperties
<1>2. ls = [k \in 1..Len(rs) |-> rs[k].label]
  BY <1>1 DEF LabelsOf
<1>3. \A k \in 1..Len(rs) : rs[k].label \in LabelSet
  BY ElementOfSeq, SideChanged
<1>4. ls \in [1..Len(rs) -> LabelSet]
  BY <1>2, <1>3
<1> QED
  BY <1>1, <1>2, <1>4

(* References with their names written down, of the same colors.           *)
LEMMA Renamed ==
    ASSUME NEW rs \in Seq(SideSet), NEW ls, ls = LabelsOf(rs), NEW r, r = Refs!with_names(rs)
    PROVE  /\ r \in Seq(SideSet) /\ Len(r) = Len(rs)
           /\ \A k \in 1..Len(rs) : r[k].color = rs[k].color /\ r[k].label = Written(ls, k)
<1>1. /\ ls \in Seq(LabelSet) /\ Len(ls) = Len(rs) /\ Len(rs) \in Nat
      /\ DOMAIN ls = 1..Len(rs) /\ DOMAIN rs = 1..Len(rs)
      /\ \A k \in 1..Len(rs) : ls[k] = rs[k].label
  BY LabelsAre
<1>2. PICK names : names = Refs!reference_names(rs)
  OBVIOUS
<1>3. \A k \in 1..Len(rs) : names[k] = NameOf(ls, k)
  BY <1>1, <1>2, NamesAre
<1>4. r = [k \in 1..Len(rs) |->
             [rs[k] EXCEPT !.label = IF @ = Refs!NoLabel /\ names[k] = Refs!ref_name(1) THEN @ ELSE names[k]]]
  BY <1>1, <1>2 DEF Refs!with_names
<1>5. ASSUME NEW k \in 1..Len(rs)
      PROVE  r[k] \in SideSet /\ r[k].color = rs[k].color /\ r[k].label = Written(ls, k)
  <2>1. rs[k] \in SideSet
    BY ElementOfSeq
  <2>2. PICK w : w = Written(ls, k)
    OBVIOUS
  <2>3. w \in LabelSet
    BY <1>1, <2>2, NameIs, RefNames DEF Written
  <2>4. (IF rs[k].label = Refs!NoLabel /\ names[k] = Refs!ref_name(1) THEN rs[k].label ELSE names[k]) = w
    BY <1>1, <1>3, <2>2 DEF Written
  <2>5. r[k] = [rs[k] EXCEPT !.label = w]
    <3>1. r[k] = [rs[k] EXCEPT !.label = IF rs[k].label = Refs!NoLabel /\ names[k] = Refs!ref_name(1)
                                         THEN rs[k].label ELSE names[k]]
      BY <1>4, <2>1 DEF SideSet
    <3> QED
      BY <2>4, <3>1
  <2> QED
    BY <2>1, <2>2, <2>3, <2>5, SideChanged
<1>6. r \in [1..Len(rs) -> SideSet]
  BY <1>4, <1>5
<1>7. r \in Seq(SideSet) /\ Len(r) = Len(rs)
  BY <1>1, <1>6
<1> QED
  BY <1>5, <1>7

(* What the URL shows now.                                                 *)
LEMMA Showed ==
    ASSUME AppAssumption, RefsInv, NEW rs, rs = Refs!references, NEW s, s = Refs!ColorsShown
    PROVE  /\ Len(rs) \in 1..MaxReferences /\ MaxReferences \in Nat
           /\ \E c \in Refs!Colorings : /\ c = Refs!ColorsOf(url.top, rs) /\ s = Refs!side_colors[c]
                                        /\ Len(c) = Len(rs) + 1 /\ c[1] = url.top.color
           /\ \A k \in 1..(Len(rs) + 1) : s[k] \in ColorSet
           /\ Len(was) = Len(rs) + 1
<1>1. /\ rs \in Seq(SideSet) /\ Len(rs) = Len(url.others) + 1 /\ Len(rs) \in Nat /\ Len(rs) >= 1
  BY ReferencesAre
<1>2. /\ url.top \in SideSet /\ Len(url.others) < MaxReferences /\ Len(was) = Len(url.others) + 2
      /\ Len(url.others) \in Nat
  BY LenProperties DEF RefsInv
<1>3. MaxReferences \in Nat /\ Len(rs) \in 1..MaxReferences
  BY <1>1, <1>2 DEF AppAssumption, Refs!ReferencesAssumption
<1>4. PICK c : c = Refs!ColorsOf(url.top, rs)
  OBVIOUS
<1>5. c \in Refs!Colorings /\ Len(c) = Len(rs) + 1 /\ c[1] = url.top.color
  BY <1>1, <1>2, <1>3, <1>4, ColoringOf
<1>6. s = Refs!side_colors[c]
  BY <1>4 DEF Refs!ColorsShown
<1>7. s \in Refs!Colorings /\ DOMAIN s = 1..(Len(rs) + 1) /\ Len(s) = Len(rs) + 1
  BY <1>5, <1>6, SidesAre
<1>8. \A k \in 1..(Len(rs) + 1) : s[k] \in ColorSet
  BY <1>7, ColoringIs DEF ColorSet
<1> QED
  BY <1>1, <1>2, <1>3, <1>4, <1>5, <1>6, <1>8

(* The references as each operation passes them on.                        *)
LEMMA PassedOn ==
    ASSUME AppAssumption, RefsInv, NEW rs, rs = Refs!references, NEW s, s = Refs!ColorsShown,
           NEW r \in Seq(SideSet), Len(r) = Len(rs), NEW n, n = Refs!with_colors(r)
    PROVE  /\ n \in Seq(SideSet) /\ Len(n) = Len(rs)
           /\ \A k \in 1..Len(rs) : n[k].color = s[k + 1] /\ n[k].label = r[k].label
<1>1. Len(rs) \in Nat
  BY ReferencesAre
<1>2. \A k \in 1..(Len(rs) + 1) : s[k] \in ColorSet
  BY Showed
<1>3. \A k \in 1..Len(r) : s[k + 1] \in ColorSet
  BY <1>1, <1>2
<1>4. n = Refs!Colored(r, s)
  BY DEF Refs!with_colors
<1> QED
  BY <1>3, <1>4, Recolored

Apart(t) == \A i, j \in DOMAIN t : i # j /\ t[i] # Refs!Gray => t[i] # t[j]

LEMMA ColorsDiffer ==
    ASSUME AppAssumption, NEW d \in Refs!Colorings, NEW t, t = Refs!side_colors[d]
    PROVE  Apart(t)
<1>1. DOMAIN t = 1..Len(d) /\ \A i \in 1..Len(d) : t[i] = Side(d, i)
  BY SidesAre
<1>2. \A i, j \in 1..Len(d) : i # j /\ Side(d, i) # Refs!Gray => Side(d, i) # Side(d, j)
  BY SidesDiffer
<1> QED
  BY <1>1, <1>2 DEF Apart

(* An operation that leaves the colors as they were.                       *)
LEMMA ColorsSame ==
    ASSUME AppAssumption, RefsInv, Refs!ColorsShown' = Refs!ColorsShown,
           \A i \in 1..Len(was') : was'[i] = i - 1, Len(was') = Len(was)
    PROVE  Refs!ColorsMove
<1>1. PICK rs, s : rs = Refs!references /\ s = Refs!ColorsShown
  OBVIOUS
<1>2. PICK c \in Refs!Colorings : s = Refs!side_colors[c]
  BY <1>1, Showed
<1>3. Apart(s)
  BY <1>2, ColorsDiffer
<1>4. Len(was) \in Nat
  BY LenProperties DEF RefsInv
<1>5. ~Refs!Removed
  BY <1>4 DEF Refs!Removed
<1>6. ASSUME NEW i \in 1..Len(was'), was'[i] # -1 PROVE s[was'[i] + 1] \in {s[i], Refs!Gray}
  <2>1. was'[i] + 1 = i
    BY <1>4, <1>6
  <2> QED
    BY <2>1
<1>7. Refs!Keep(s, s, 1..Len(was'))
  BY <1>6 DEF Refs!Keep
<1> QED
  BY <1>1, <1>3, <1>5, <1>7 DEF Refs!ColorsMove, Apart

Recolors(s, size, r, p) ==
    \A k \in 1..Len(r) : \/ p[k + 1] = -1 /\ r[k].color = Refs!Gray
                         \/ p[k + 1] \in 1..size /\ r[k].color = s[p[k + 1] + 1]
Single(r, p) == \A j, k \in 1..Len(r) : p[j + 1] = p[k + 1] /\ p[j + 1] # -1 => j = k
Covers(size, r, p) == Len(r) < size \/ \A q \in 1..size : \E k \in 1..Len(r) : p[k + 1] = q

(* An operation that moves the references it passes on.                    *)
LEMMA ColorsMoved ==
    ASSUME AppAssumption, RefsInv, NEW rs, rs = Refs!references, NEW s, s = Refs!ColorsShown,
           NEW top \in SideSet, top.color = url.top.color,
           NEW r \in Seq(SideSet), Len(r) \in 1..MaxReferences,
           NEW places \in Seq(Places), Len(places) = Len(r) + 1, places[1] = 0,
           Recolors(s, Len(rs), r, places), Single(r, places), Covers(Len(rs), r, places),
           was' = places, Refs!ColorsShown' = Refs!side_colors[Refs!ColorsOf(top, r)]
    PROVE  Refs!ColorsMove
<1> USE DEF Recolors, Single, Covers
<1>1. PICK c \in Refs!Colorings : s = Refs!side_colors[c] /\ Len(c) = Len(rs) + 1 /\ c[1] = url.top.color
  BY Showed
<1>2. PICK d : d = Refs!ColorsOf(top, r)
  OBVIOUS
<1>3. /\ d \in Refs!Colorings /\ Len(d) = Len(r) + 1 /\ Len(r) \in Nat /\ d[1] = top.color
      /\ \A k \in 1..Len(r) : d[k + 1] = r[k].color
  BY <1>2, ColoringOf
<1>4. PICK t : t = Refs!side_colors[d]
  OBVIOUS
<1>5. Len(rs) \in Nat /\ Len(rs) >= 1 /\ Len(was) = Len(rs) + 1 /\ Len(was') = Len(r) + 1
  BY ReferencesAre, Showed
<1>6. \A k \in 2..Len(d) : k - 1 \in 1..Len(r) /\ k - 1 + 1 = k /\ d[k] = r[k - 1].color
  <2> SUFFICES ASSUME NEW k \in 2..Len(d) PROVE k - 1 \in 1..Len(r) /\ k - 1 + 1 = k /\ d[k] = r[k - 1].color
    OBVIOUS
  <2>1. k - 1 \in 1..Len(r) /\ k - 1 + 1 = k
    BY <1>3
  <2> QED
    BY <1>3, <2>1
<1>7. ASSUME NEW k \in 2..Len(d)
      PROVE  \/ places[k] = -1 /\ d[k] = Refs!Gray
             \/ places[k] \in Int /\ places[k] + 1 \in 2..Len(c) /\ d[k] = s[places[k] + 1]
  <2>1. PICK h \in 1..Len(r) : h + 1 = k /\ d[k] = r[h].color
    BY <1>6
  <2>2. \/ places[k] = -1 /\ r[h].color = Refs!Gray
        \/ places[k] \in 1..Len(rs) /\ r[h].color = s[places[k] + 1]
    BY <2>1
  <2> QED
    BY <1>1, <1>5, <2>1, <2>2
<1>8. ASSUME NEW j \in 2..Len(d), NEW k \in 2..Len(d), places[j] = places[k], places[j] # -1 PROVE j = k
  <2>1. PICK g \in 1..Len(r) : g + 1 = j
    BY <1>6
  <2>2. PICK h \in 1..Len(r) : h + 1 = k
    BY <1>6
  <2>3. g = h
    BY <1>8, <2>1, <2>2
  <2> QED
    BY <2>1, <2>2, <2>3
<1>9. /\ \A k \in 2..Len(d) : places[k] # -1 => s[places[k] + 1] \in {t[k], Refs!Gray}
      /\ (\A q \in 2..Len(c) : \E k \in 2..Len(d) : places[k] + 1 = q) => s[1] \in {t[1], Refs!Gray}
  <2>1. d[1] = c[1]
    BY <1>1, <1>3
  <2>2. Passed(c, d, s, places) /\ Once(d, places)
    BY <1>7, <1>8 DEF Passed, Once
  <2>3. Carried(c, d, s, t, places)
    BY <1>1, <1>3, <1>4, <2>1, <2>2, ColorsCarried
  <2> QED
    BY <2>3 DEF Carried
<1>10. ASSUME ~Refs!Removed PROVE s[1] \in {t[1], Refs!Gray}
  <2>1. ~(Len(r) < Len(rs))
    BY <1>3, <1>5, <1>10 DEF Refs!Removed
  <2>2. \A q \in 2..Len(c) : \E k \in 2..Len(d) : places[k] + 1 = q
    <3> SUFFICES ASSUME NEW q \in 2..Len(c) PROVE \E k \in 2..Len(d) : places[k] + 1 = q
      OBVIOUS
    <3>1. q - 1 \in 1..Len(rs)
      BY <1>1, <1>5
    <3>2. PICK h \in 1..Len(r) : places[h + 1] = q - 1
      BY <2>1, <3>1
    <3>3. h + 1 \in 2..Len(d) /\ places[h + 1] + 1 = q
      BY <1>3, <3>2
    <3> QED
      BY <3>3
  <2> QED
    BY <1>9, <2>2
<1>11. Refs!Keep(s, t, IF Refs!Removed THEN 2..Len(was') ELSE 1..Len(was'))
  <2> SUFFICES ASSUME NEW k \in IF Refs!Removed THEN 2..Len(was') ELSE 1..Len(was'), was'[k] # -1
               PROVE  s[was'[k] + 1] \in {t[k], Refs!Gray}
    BY DEF Refs!Keep
  <2>1. CASE k = 1
    <3>1. ~Refs!Removed
      BY <2>1
    <3>2. was'[k] + 1 = 1
      BY <2>1
    <3> QED
      BY <1>10, <2>1, <3>1, <3>2
  <2>2. CASE k # 1
    <3>1. k \in 2..Len(d)
      BY <1>3, <1>5, <2>2
    <3> QED
      BY <1>9, <3>1
  <2> QED
    BY <2>1, <2>2
<1>12. Apart(t)
  BY <1>3, <1>4, ColorsDiffer
<1>13. Refs!ColorsShown' = t
  BY <1>2, <1>4
<1>14. t[1] \in {s[1]} \cup Refs!Freed(s)
  <2>1. d[1] = c[1] /\ Passed(c, d, s, places)
    BY <1>1, <1>3, <1>7 DEF Passed
  <2>2. TopTakes(c, d, s, t, places)
    BY <1>1, <1>3, <1>4, <2>1, TopCarried
  <2>3. CASE t[1] = s[1]
    BY <2>3
  <2>4. CASE t[1] # s[1]
    <3>1. PICK q \in 2..Len(c) : t[1] = s[q] /\ \A k \in 2..Len(d) : places[k] + 1 # q
      BY <2>2, <2>4 DEF TopTakes
    <3>2. DOMAIN s = 1..Len(c) /\ Len(c) \in Nat
      BY <1>1, SidesAre
    <3>3. q \in DOMAIN s
      BY <3>2
    <3>4. DOMAIN was' = 1..(Len(r) + 1)
      BY LenProperties
    <3>5. ASSUME NEW k \in DOMAIN was' PROVE was'[k] + 1 # q
      <4>1. CASE k = 1
        BY <4>1
      <4>2. CASE k # 1
        <5>1. k \in 2..Len(d)
          BY <1>3, <3>4, <4>2
        <5> QED
          BY <3>1, <5>1
      <4> QED
        BY <4>1, <4>2
    <3> QED
      BY <3>1, <3>3, <3>5 DEF Refs!Freed
  <2> QED
    BY <2>3, <2>4
<1> QED
  BY <1>11, <1>12, <1>13, <1>14 DEF Refs!ColorsMove, Apart

LEMMA NamesMoved ==
    ASSUME AppAssumption, RefsInv, NEW rs, rs = Refs!references, NEW ls, ls = LabelsOf(rs),
           NEW r \in Seq(SideSet), NEW ms, ms = LabelsOf(r), NEW places, was' = places,
           Refs!NamesShown' = Refs!reference_names(r),
           \A k \in 1..Len(r) : places[k + 1] > 0 =>
               places[k + 1] \in 1..Len(rs) /\ NameOf(ms, k) = NameOf(ls, places[k + 1])
    PROVE  Refs!OthersKeepNames
<1>1. /\ rs \in Seq(SideSet) /\ DOMAIN ls = 1..Len(rs) /\ DOMAIN ms = 1..Len(r)
  BY ReferencesAre, LabelsAre
<1>2. PICK old, new : old = Refs!NamesShown /\ new = Refs!NamesShown'
  OBVIOUS
<1>3. old = [i \in DOMAIN ls |-> NameOf(ls, i)] /\ new = [i \in DOMAIN ms |-> NameOf(ms, i)]
  BY <1>1, <1>2, NamesAre DEF Refs!NamesShown
<1>4. \A k \in DOMAIN new : was'[k + 1] > 0 => new[k] = old[was'[k + 1]]
  BY <1>1, <1>3
<1> QED
  BY <1>2, <1>4 DEF Refs!OthersKeepNames

Followed == RefsInv' /\ Refs!ColorsMove
Called == Followed /\ Refs!OthersKeepNames

LEMMA StayIs ==
    ASSUME AppAssumption, NEW S, NEW r \in Seq(S), Len(r) \in 1..MaxReferences, NEW st, st = Refs!Stay(r)
    PROVE  /\ st \in Seq(Places) /\ Len(st) = Len(r) + 1 /\ Len(r) \in Nat /\ Len(r) >= 1
           /\ \A k \in 1..(Len(r) + 1) : st[k] = k - 1
           /\ MaxReferences \in Nat
<1>1. MaxReferences \in Nat /\ Len(r) \in Nat /\ Len(r) >= 1 /\ Len(r) + 1 \in Nat
  BY LenProperties DEF AppAssumption, Refs!ReferencesAssumption
<1>2. st = [k \in 1..(Len(r) + 1) |-> k - 1]
  BY DEF Refs!Stay
<1>3. \A k \in 1..(Len(r) + 1) : k - 1 \in Places
  BY <1>1 DEF Places
<1>4. st \in [1..(Len(r) + 1) -> Places]
  BY <1>2, <1>3
<1> QED
  BY <1>1, <1>2, <1>4

Takes(n, size, r, p) ==
    \A k \in 1..Len(r) :
       \/ /\ p[k + 1] = -1 /\ r[k].color = Refs!Gray
          /\ r[k].label # Refs!NoLabel /\ r[k].label # Refs!ref_name(1)
       \/ p[k + 1] \in 1..size /\ r[k] = n[p[k + 1]]

(* Removing, moving and copying references.                                *)
LEMMA Carrying ==
    ASSUME AppAssumption, RefsInv, NEW rs, rs = Refs!references,
           NEW n, n = Refs!with_colors(Refs!with_names(rs)),
           NEW r \in Seq(SideSet), Len(r) \in 1..MaxReferences,
           NEW places \in Seq(Places), Len(places) = Len(r) + 1, places[1] = 0,
           NEW i \in 1..Len(r),
           Takes(n, Len(rs), r, places), Single(r, places), Covers(Len(rs), r, places),
           Refs!Show(url.top, r, i, places)
    PROVE  Called
<1>1. /\ rs \in Seq(SideSet) /\ Len(rs) \in Nat /\ url.top \in SideSet /\ url.top.label # Refs!ref_name(1)
  BY ReferencesAre DEF RefsInv
<1>2. /\ RefsInv' /\ was' = places
      /\ Refs!ColorsShown' = Refs!side_colors[Refs!ColorsOf(url.top, r)]
      /\ Refs!NamesShown' = Refs!reference_names(r)
  BY <1>1, Showing
<1>3. PICK s : s = Refs!ColorsShown
  OBVIOUS
<1>4. PICK ls, ms : ls = LabelsOf(rs) /\ ms = LabelsOf(r)
  OBVIOUS
<1>5. /\ ls \in Seq(LabelSet) /\ Len(ls) = Len(rs)
      /\ ms \in Seq(LabelSet) /\ Len(ms) = Len(r) /\ Len(r) \in Nat
      /\ \A k \in 1..Len(r) : ms[k] = r[k].label
  BY <1>1, <1>4, LabelsAre
<1>6. PICK w : w = Refs!with_names(rs)
  OBVIOUS
<1>7. w \in Seq(SideSet) /\ Len(w) = Len(rs) /\ \A k \in 1..Len(rs) : w[k].label = Written(ls, k)
  BY <1>1, <1>4, <1>6, Renamed
<1>8. \A k \in 1..Len(rs) : n[k].color = s[k + 1] /\ n[k].label = w[k].label
  BY <1>3, <1>6, <1>7, PassedOn
<1>9. \A k \in 1..Len(r) :
       \/ /\ places[k + 1] = -1 /\ r[k].color = Refs!Gray
          /\ ms[k] # Refs!NoLabel /\ ms[k] # Refs!ref_name(1)
       \/ /\ places[k + 1] \in 1..Len(rs) /\ r[k].color = s[places[k + 1] + 1]
          /\ ms[k] = Written(ls, places[k + 1])
  <2> SUFFICES ASSUME NEW k \in 1..Len(r)
               PROVE  \/ /\ places[k + 1] = -1 /\ r[k].color = Refs!Gray
                         /\ ms[k] # Refs!NoLabel /\ ms[k] # Refs!ref_name(1)
                      \/ /\ places[k + 1] \in 1..Len(rs) /\ r[k].color = s[places[k + 1] + 1]
                         /\ ms[k] = Written(ls, places[k + 1])
    OBVIOUS
  <2>1. ms[k] = r[k].label
    BY <1>5
  <2>2. CASE places[k + 1] = -1
    <3>1. places[k + 1] \notin 1..Len(rs)
      BY <1>1, <2>2
    <3> QED
      BY <2>1, <2>2, <3>1 DEF Takes
  <2>3. CASE places[k + 1] # -1
    <3>1. PICK h \in 1..Len(rs) : h = places[k + 1] /\ r[k] = n[h]
      BY <2>3 DEF Takes
    <3> QED
      BY <1>7, <1>8, <2>1, <3>1
  <2> QED
    BY <2>2, <2>3
<1>10. Refs!ColorsMove
  <2>1. Recolors(s, Len(rs), r, places)
    BY <1>9 DEF Recolors
  <2> QED
    BY <1>1, <1>2, <1>3, <2>1, ColorsMoved
<1>11. Refs!OthersKeepNames
  <2>1. PICK p : p = [k \in 1..Len(r) |-> IF places[k + 1] = -1 THEN 0 ELSE places[k + 1]]
    OBVIOUS
  <2>2. ASSUME NEW k \in 1..Len(ms)
        PROVE  /\ p[k] \in 0..Len(ls)
               /\ p[k] = 0 => ms[k] # Refs!NoLabel /\ ms[k] # Refs!ref_name(1)
               /\ p[k] # 0 => ms[k] = Written(ls, p[k])
               /\ places[k + 1] > 0 => p[k] # 0 /\ p[k] = places[k + 1] /\ places[k + 1] \in 1..Len(rs)
               /\ p[k] # 0 => p[k] = places[k + 1] /\ places[k + 1] # -1
    <3>1. k \in 1..Len(r)
      BY <1>5
    <3>2. CASE places[k + 1] = -1
      <4>1. p[k] = 0 /\ places[k + 1] \notin 1..Len(rs) /\ ~(places[k + 1] > 0)
        BY <1>1, <2>1, <3>1, <3>2
      <4> QED
        BY <1>5, <1>9, <3>1, <3>2, <4>1
    <3>3. CASE places[k + 1] # -1
      <4>1. PICK h \in 1..Len(rs) : h = places[k + 1] /\ ms[k] = Written(ls, h)
        BY <1>9, <3>1, <3>3
      <4>2. p[k] = h /\ h # 0 /\ h \in 0..Len(rs)
        BY <1>1, <2>1, <3>1, <3>3, <4>1
      <4> QED
        BY <1>5, <3>3, <4>1, <4>2
    <3> QED
      BY <3>2, <3>3
  <2>3. \A j, k \in 1..Len(ms) : p[j] = p[k] /\ p[j] # 0 => j = k
    BY <1>5, <2>2 DEF Single
  <2>4. ASSUME NEW k \in 1..Len(r), places[k + 1] > 0
        PROVE  places[k + 1] \in 1..Len(rs) /\ NameOf(ms, k) = NameOf(ls, places[k + 1])
    <3>1. k \in 1..Len(ms)
      BY <1>5
    <3>2. p[k] # 0 /\ p[k] = places[k + 1] /\ places[k + 1] \in 1..Len(rs)
      BY <2>2, <2>4, <3>1
    <3>3. Brought(ls, ms, p)
      BY <2>2, <2>3 DEF Brought
    <3>4. NameOf(ms, k) = NameOf(ls, p[k])
      BY <1>5, <3>1, <3>2, <3>3, NamesCarried
    <3> QED
      BY <3>2, <3>4
  <2> QED
    BY <1>2, <1>4, <2>4, NamesMoved
<1> QED
  BY <1>2, <1>10, <1>11 DEF Followed, Called

LEMMA NowShown ==
    ASSUME AppAssumption, RefsInv, NEW rs, rs = Refs!references
    PROVE  /\ rs \in Seq(SideSet) /\ Len(rs) \in 1..MaxReferences /\ Len(rs) \in Nat /\ Len(rs) >= 1
           /\ DOMAIN rs = 1..Len(rs) /\ MaxReferences \in Nat
           /\ url.top \in SideSet /\ url.top.label # Refs!ref_name(1)
           /\ Refs!shown \in 1..Len(rs) /\ Len(was) = Len(rs) + 1
<1>1. rs \in Seq(SideSet) /\ Len(rs) \in Nat /\ Len(rs) >= 1 /\ Refs!shown \in 1..Len(rs)
  BY ReferencesAre
<1>2. Len(rs) \in 1..MaxReferences /\ MaxReferences \in Nat /\ Len(was) = Len(rs) + 1
  BY Showed
<1>3. DOMAIN rs = 1..Len(rs) /\ url.top \in SideSet /\ url.top.label # Refs!ref_name(1)
  BY <1>1, LenProperties DEF RefsInv
<1> QED
  BY <1>1, <1>2, <1>3

LEMMA NamedAre ==
    ASSUME AppAssumption, RefsInv, NEW rs, rs = Refs!references,
           NEW n, n = Refs!with_colors(Refs!with_names(rs))
    PROVE  n \in Seq(SideSet) /\ Len(n) = Len(rs)
<1>1. rs \in Seq(SideSet)
  BY NowShown
<1>2. PICK s : s = Refs!ColorsShown
  OBVIOUS
<1>3. PICK w : w = Refs!with_names(rs)
  OBVIOUS
<1>4. w \in Seq(SideSet) /\ Len(w) = Len(rs)
  BY <1>1, <1>3, Renamed
<1> QED
  BY <1>2, <1>3, <1>4, PassedOn

LEMMA NamesShownAre ==
    ASSUME NEW rs \in Seq(SideSet), NEW names, names = Refs!reference_names(rs)
    PROVE  /\ names \in Seq(LabelSet) /\ Len(names) = Len(rs)
           /\ \A k \in 1..Len(rs) : names[k] # Refs!NoLabel /\ names[k] = NameOf(LabelsOf(rs), k)
<1>1. PICK ls : ls = LabelsOf(rs)
  OBVIOUS
<1>2. ls \in Seq(LabelSet) /\ Len(ls) = Len(rs) /\ Len(rs) \in Nat /\ DOMAIN ls = 1..Len(rs)
  BY <1>1, LabelsAre
<1>3. names = [k \in 1..Len(rs) |-> NameOf(ls, k)]
  BY <1>1, <1>2, NamesAre
<1>4. \A k \in 1..Len(rs) : NameOf(ls, k) \in LabelSet /\ NameOf(ls, k) # Refs!NoLabel
  BY <1>2, NameIs
<1>5. names \in [1..Len(rs) -> LabelSet]
  BY <1>3, <1>4
<1>6. names \in Seq(LabelSet) /\ Len(names) = Len(rs)
  BY <1>2, <1>5
<1> QED
  BY <1>1, <1>3, <1>4, <1>6

LEMMA ShowFollows == AppAssumption /\ RefsInv /\ Refs!show_reference => Called
<1> SUFFICES ASSUME AppAssumption, RefsInv, Refs!show_reference PROVE Called
  OBVIOUS
<1>1. PICK rs : rs = Refs!references
  OBVIOUS
<1>2. /\ rs \in Seq(SideSet) /\ Len(rs) \in 1..MaxReferences /\ DOMAIN rs = 1..Len(rs)
      /\ url.top \in SideSet /\ url.top.label # Refs!ref_name(1) /\ Len(was) = Len(rs) + 1
  BY <1>1, NowShown
<1>3. PICK st : st = Refs!Stay(rs)
  OBVIOUS
<1>4. /\ st \in Seq(Places) /\ Len(st) = Len(rs) + 1 /\ Len(rs) \in Nat
      /\ \A k \in 1..(Len(rs) + 1) : st[k] = k - 1
  BY <1>2, <1>3, StayIs
<1>5. PICK i \in 1..Len(rs) : Refs!Show(url.top, rs, i, st)
  BY <1>1, <1>2, <1>3 DEF Refs!show_reference
<1>6. /\ RefsInv' /\ was' = st
      /\ Refs!ColorsShown' = Refs!side_colors[Refs!ColorsOf(url.top, rs)]
      /\ Refs!NamesShown' = Refs!reference_names(rs)
  BY <1>2, <1>4, <1>5, Showing
<1>7. Refs!ColorsMove
  <2>1. Refs!ColorsShown' = Refs!ColorsShown
    BY <1>1, <1>6 DEF Refs!ColorsShown
  <2>2. Len(was') = Len(was) /\ \A k \in 1..Len(was') : was'[k] = k - 1
    BY <1>2, <1>4, <1>6
  <2> QED
    BY <2>1, <2>2, ColorsSame
<1>8. Refs!OthersKeepNames
  <2>1. PICK ls : ls = LabelsOf(rs)
    OBVIOUS
  <2>2. ASSUME NEW k \in 1..Len(rs), st[k + 1] > 0
        PROVE  st[k + 1] \in 1..Len(rs) /\ NameOf(ls, k) = NameOf(ls, st[k + 1])
    <3>1. k + 1 \in 1..(Len(rs) + 1)
      BY <1>4
    <3>2. st[k + 1] = k
      BY <1>4, <3>1
    <3> QED
      BY <3>2
  <2> QED
    BY <1>1, <1>2, <1>6, <2>1, <2>2, NamesMoved
<1> QED
  BY <1>6, <1>7, <1>8 DEF Followed, Called

LEMMA RenameFollows == AppAssumption /\ RefsInv /\ Refs!rename_reference => Followed
<1> SUFFICES ASSUME AppAssumption, RefsInv, Refs!rename_reference PROVE Followed
  OBVIOUS
<1>1. PICK rs : rs = Refs!references
  OBVIOUS
<1>2. /\ rs \in Seq(SideSet) /\ Len(rs) \in 1..MaxReferences /\ DOMAIN rs = 1..Len(rs) /\ Len(rs) \in Nat
      /\ url.top \in SideSet /\ url.top.label # Refs!ref_name(1)
      /\ Len(was) = Len(rs) + 1 /\ MaxReferences \in Nat
      /\ Refs!shown \in 1..Len(rs)
  BY <1>1, NowShown
<1>3. PICK st : st = Refs!Stay(rs)
  OBVIOUS
<1>4. /\ st \in Seq(Places) /\ Len(st) = Len(rs) + 1
      /\ \A j \in 1..(Len(rs) + 1) : st[j] = j - 1
  BY <1>2, <1>3, StayIs
<1>5. PICK h \in 1..Len(rs), label \in Refs!Given :
         Refs!Show(url.top, [rs EXCEPT ![h].label = label], Refs!shown, st)
  BY <1>1, <1>2, <1>3 DEF Refs!rename_reference
<1>6. label \in LabelSet
  <2>1. ASSUME NEW name \in UserNames PROVE <<name, <<>>>> \in LabelSet
    BY PlainNames
  <2> QED
    BY <2>1, RefNames DEF Refs!Given
<1>7. PICK r : r = [rs EXCEPT ![h].label = label]
  OBVIOUS
<1>8. r \in Seq(SideSet) /\ Len(r) = Len(rs) /\ \A k \in 1..Len(rs) : r[k].color = rs[k].color
  <2>1. r = [rs EXCEPT ![h] = [rs[h] EXCEPT !.label = label]]
    BY <1>7
  <2>2. PICK e : e = [rs[h] EXCEPT !.label = label]
    OBVIOUS
  <2>3. rs[h] \in SideSet
    BY <1>2, ElementOfSeq
  <2>4. e \in SideSet /\ e.color = rs[h].color
    BY <1>6, <2>2, <2>3, SideChanged
  <2>5. r = [rs EXCEPT ![h] = e]
    BY <2>1, <2>2
  <2>6. r \in Seq(SideSet) /\ Len(r) = Len(rs) /\ \A k \in 1..Len(rs) : r[k] = IF k = h THEN e ELSE rs[k]
    BY <1>2, <2>4, <2>5, ExceptSeq
  <2> QED
    BY <2>4, <2>6
<1>9. /\ RefsInv' /\ was' = st
      /\ Refs!ColorsShown' = Refs!side_colors[Refs!ColorsOf(url.top, r)]
      /\ Refs!NamesShown' = Refs!reference_names(r)
  <2>1. Refs!shown \in 1..Len(r) /\ Len(r) \in 1..MaxReferences /\ Len(st) = Len(r) + 1
    BY <1>2, <1>4, <1>8
  <2>2. Refs!Show(url.top, r, Refs!shown, st)
    BY <1>5, <1>7
  <2> QED
    BY <1>2, <1>4, <1>8, <2>1, <2>2, Showing
<1>10. Refs!ColorsMove
  <2>1. Refs!ColorsOf(url.top, r) = Refs!ColorsOf(url.top, rs)
    <3>1. \A k \in 1..(Len(rs) + 1) : k # 1 => k - 1 \in 1..Len(rs)
      BY <1>2
    <3> QED
      BY <1>8, <3>1 DEF Refs!ColorsOf
  <2>2. Refs!ColorsShown' = Refs!ColorsShown
    BY <1>1, <1>9, <2>1 DEF Refs!ColorsShown
  <2>3. Len(was') = Len(was) /\ \A k \in 1..Len(was') : was'[k] = k - 1
    BY <1>2, <1>4, <1>9
  <2> QED
    BY <2>2, <2>3, ColorsSame
<1> QED
  BY <1>9, <1>10 DEF Followed

LEMMA RemoveFollows == AppAssumption /\ RefsInv /\ Refs!remove_reference => Called
<1> SUFFICES ASSUME AppAssumption, RefsInv, Refs!remove_reference PROVE Called
  OBVIOUS
<1>1. PICK rs : rs = Refs!references
  OBVIOUS
<1>2. /\ rs \in Seq(SideSet) /\ Len(rs) \in 1..MaxReferences /\ DOMAIN rs = 1..Len(rs) /\ Len(rs) \in Nat
      /\ MaxReferences \in Nat /\ Refs!shown \in 1..Len(rs)
  BY <1>1, NowShown
<1>3. PICK n : n = Refs!with_colors(Refs!with_names(rs))
  OBVIOUS
<1>4. n \in Seq(SideSet) /\ Len(n) = Len(rs)
  BY <1>1, <1>3, NamedAre
<1>5. PICK st : st = Refs!Stay(n)
  OBVIOUS
<1>6. /\ st \in Seq(Places) /\ Len(st) = Len(rs) + 1 /\ \A k \in 1..(Len(rs) + 1) : st[k] = k - 1
  BY <1>2, <1>4, <1>5, StayIs
<1>7. PICK i \in 1..Len(rs) :
        /\ Len(rs) > 1
        /\ Refs!Show(url.top, Refs!RemoveAt(n, i),
                     IF i < Refs!shown \/ Refs!shown = Len(n) THEN Refs!shown - 1 ELSE Refs!shown,
                     Refs!RemoveAt(st, i + 1))
  BY <1>1, <1>2, <1>3, <1>5 DEF Refs!remove_reference
<1>8. PICK r, places, h : /\ r = Refs!RemoveAt(n, i) /\ places = Refs!RemoveAt(st, i + 1)
                          /\ h = IF i < Refs!shown \/ Refs!shown = Len(n) THEN Refs!shown - 1 ELSE Refs!shown
  OBVIOUS
<1>9. r \in Seq(SideSet) /\ Len(r) = Len(rs) - 1
      /\ \A k \in 1..(Len(rs) - 1) : r[k] = IF k < i THEN n[k] ELSE n[k + 1]
  <2>1. r \in Seq(SideSet) /\ Len(r) = Len(n) - 1 /\ \A k \in 1..(Len(n) - 1) : r[k] = RestOf(n, i, k)
    BY <1>4, <1>8, RemoveIs
  <2> QED
    BY <1>4, <2>1 DEF RestOf
<1>10. places \in Seq(Places) /\ Len(places) = Len(rs)
       /\ \A k \in 1..Len(rs) : places[k] = IF k < i + 1 THEN st[k] ELSE st[k + 1]
  <2>1. PICK j \in 1..Len(st) : j = i + 1 /\ Len(st) - 1 = Len(rs)
    BY <1>2, <1>6
  <2>2. places = Refs!RemoveAt(st, j)
    BY <1>8, <2>1
  <2>3. places \in Seq(Places) /\ Len(places) = Len(st) - 1
        /\ \A k \in 1..(Len(st) - 1) : places[k] = RestOf(st, j, k)
    BY <1>6, <2>2, RemoveIs
  <2> QED
    BY <2>1, <2>3 DEF RestOf
<1>11. /\ Len(r) \in 1..MaxReferences /\ Len(places) = Len(r) + 1 /\ h \in 1..Len(r)
  <2>1. Len(r) \in 1..MaxReferences /\ Len(places) = Len(r) + 1
    BY <1>2, <1>7, <1>9, <1>10
  <2>2. PICK m \in 1..Len(rs) : m = Refs!shown
    BY <1>2
  <2>3. h = IF i < m \/ m = Len(rs) THEN m - 1 ELSE m
    BY <1>4, <1>8, <2>2
  <2>4. h \in 1..(Len(rs) - 1)
    <3>1. PICK N \in Nat : N = Len(rs)
      BY <1>2
    <3>2. m \in 1..N /\ i \in 1..N /\ N > 1
      BY <1>7, <3>1
    <3>3. CASE i < m \/ m = N
      <4>1. m - 1 \in 1..(N - 1)
        BY <3>2, <3>3
      <4>2. h = m - 1
        BY <2>3, <3>1, <3>3
      <4> QED
        BY <3>1, <4>1, <4>2
    <3>4. CASE ~(i < m \/ m = N)
      <4>1. m \in 1..(N - 1)
        BY <3>2, <3>4
      <4>2. h = m
        BY <2>3, <3>1, <3>4, Zenon
      <4> QED
        BY <3>1, <4>1, <4>2
    <3> QED
      BY <3>3, <3>4
  <2> QED
    BY <1>9, <2>1, <2>4
<1>12. places[1] = 0
  <2>1. 1 \in 1..Len(rs) /\ 1 < i + 1 /\ 1 \in 1..(Len(rs) + 1)
    BY <1>2
  <2> QED
    BY <1>6, <1>10, <2>1
<1>13. ASSUME NEW k \in 1..Len(r)
       PROVE  /\ places[k + 1] = IF k < i THEN k ELSE k + 1
              /\ places[k + 1] \in 1..Len(rs) /\ r[k] = n[places[k + 1]]
  <2>1. k \in 1..(Len(rs) - 1) /\ k + 1 \in 1..Len(rs) /\ k + 1 \in 1..(Len(rs) + 1)
        /\ k + 1 + 1 \in 1..(Len(rs) + 1)
    BY <1>2, <1>9
  <2>2. CASE k < i
    <3>1. k + 1 < i + 1 /\ k + 1 - 1 = k /\ k \in 1..Len(rs)
      BY <1>2, <2>1, <2>2
    <3>2. places[k + 1] = k
      BY <1>6, <1>10, <2>1, <3>1
    <3> QED
      BY <1>9, <2>1, <2>2, <3>1, <3>2
  <2>3. CASE ~(k < i)
    <3>1. ~(k + 1 < i + 1) /\ k + 1 + 1 - 1 = k + 1
      BY <1>2, <2>1, <2>3
    <3>2. places[k + 1] = k + 1
      BY <1>6, <1>10, <2>1, <3>1
    <3> QED
      BY <1>9, <2>1, <2>3, <3>2
  <2> QED
    BY <2>2, <2>3
<1>14. Takes(n, Len(rs), r, places)
  BY <1>13 DEF Takes
<1>15. Single(r, places)
  <2> SUFFICES ASSUME NEW j \in 1..Len(r), NEW k \in 1..Len(r), places[j + 1] = places[k + 1] PROVE j = k
    BY DEF Single
  <2>1. places[j + 1] = (IF j < i THEN j ELSE j + 1) /\ places[k + 1] = (IF k < i THEN k ELSE k + 1)
    BY <1>13
  <2>2. (IF j < i THEN j ELSE j + 1) = (IF k < i THEN k ELSE k + 1)
    BY <2>1
  <2> QED
    BY <1>2, <1>9, <2>2
<1>16. Covers(Len(rs), r, places)
  BY <1>2, <1>9 DEF Covers
<1>17. Refs!Show(url.top, r, h, places)
  BY <1>7, <1>8
<1> QED
  BY <1>1, <1>3, <1>9, <1>10, <1>11, <1>12, <1>14, <1>15, <1>16, <1>17, Carrying

LEMMA MoveFollows == AppAssumption /\ RefsInv /\ Refs!move_reference => Called
<1> SUFFICES ASSUME AppAssumption, RefsInv, Refs!move_reference PROVE Called
  OBVIOUS
<1>1. PICK rs : rs = Refs!references
  OBVIOUS
<1>2. /\ rs \in Seq(SideSet) /\ Len(rs) \in 1..MaxReferences /\ DOMAIN rs = 1..Len(rs) /\ Len(rs) \in Nat
      /\ MaxReferences \in Nat /\ Refs!shown \in 1..Len(rs)
  BY <1>1, NowShown
<1>3. PICK n : n = Refs!with_colors(Refs!with_names(rs))
  OBVIOUS
<1>4. n \in Seq(SideSet) /\ Len(n) = Len(rs) /\ DOMAIN n = 1..Len(rs)
  <2>1. n \in Seq(SideSet) /\ Len(n) = Len(rs)
    BY <1>1, <1>3, NamedAre
  <2> QED
    BY <2>1, LenProperties
<1>5. PICK st : st = Refs!Stay(n)
  OBVIOUS
<1>6. /\ st \in Seq(Places) /\ Len(st) = Len(rs) + 1 /\ \A k \in 1..(Len(rs) + 1) : st[k] = k - 1
  BY <1>2, <1>4, <1>5, StayIs
<1>7. PICK from \in 1..Len(rs), to \in 1..Len(rs) :
        Refs!Show(url.top, Refs!Moved(n, from, to),
                  CHOOSE i \in DOMAIN n : Refs!Moved(st, from + 1, to + 1)[i + 1] = Refs!shown,
                  Refs!Moved(st, from + 1, to + 1))
  BY <1>1, <1>2, <1>3, <1>5 DEF Refs!move_reference
<1>8. PICK r, places, h : /\ r = Refs!Moved(n, from, to) /\ places = Refs!Moved(st, from + 1, to + 1)
                          /\ h = CHOOSE i \in DOMAIN n : places[i + 1] = Refs!shown
  OBVIOUS
<1>9. r \in Seq(SideSet) /\ Len(r) = Len(rs) /\ \A k \in 1..Len(rs) : r[k] = n[MovedFrom(from, to, k)]
  BY <1>4, <1>8, MoveIs
<1>10. /\ places \in Seq(Places) /\ Len(places) = Len(rs) + 1
       /\ \A k \in 1..(Len(rs) + 1) : places[k] = st[MovedFrom(from + 1, to + 1, k)]
  <2>1. PICK f \in 1..Len(st), t \in 1..Len(st) : f = from + 1 /\ t = to + 1
    BY <1>2, <1>6
  <2>2. places = Refs!Moved(st, f, t)
    BY <1>8, <2>1
  <2>3. places \in Seq(Places) /\ Len(places) = Len(st) /\ \A k \in 1..Len(st) : places[k] = st[MovedFrom(f, t, k)]
    BY <1>6, <2>2, MoveIs
  <2> QED
    BY <1>6, <2>1, <2>3
<1>11. /\ \A k \in 1..Len(rs) : MovedFrom(from, to, k) \in 1..Len(rs)
       /\ \A j, k \in 1..Len(rs) : MovedFrom(from, to, j) = MovedFrom(from, to, k) => j = k
       /\ \A q \in 1..Len(rs) : \E k \in 1..Len(rs) : MovedFrom(from, to, k) = q
       /\ \A k \in 1..Len(rs) : MovedFrom(from + 1, to + 1, k + 1) = MovedFrom(from, to, k) + 1
       /\ MovedFrom(from + 1, to + 1, 1) = 1
  <2>1. Shuffles(Len(rs), from, to)
    BY <1>2, MovesAre
  <2> QED
    BY <2>1 DEF Shuffles
<1>12. places[1] = 0
  <2>1. 1 \in 1..(Len(rs) + 1)
    BY <1>2
  <2>2. places[1] = st[1]
    <3>1. places[1] = st[MovedFrom(from + 1, to + 1, 1)]
      BY <1>10, <2>1
    <3> QED
      BY <1>11, <3>1
  <2> QED
    BY <1>6, <2>1, <2>2
<1>13. ASSUME NEW k \in 1..Len(rs) PROVE places[k + 1] = MovedFrom(from, to, k)
  <2>1. PICK m \in 1..Len(rs) : m = MovedFrom(from, to, k)
    BY <1>11
  <2>2. k + 1 \in 1..(Len(rs) + 1) /\ m + 1 \in 1..(Len(rs) + 1) /\ m + 1 - 1 = m
    BY <1>2
  <2>3. MovedFrom(from + 1, to + 1, k + 1) = m + 1
    BY <1>11, <2>1
  <2>4. places[k + 1] = st[m + 1]
    BY <1>10, <2>2, <2>3
  <2>5. st[m + 1] = m
    BY <1>6, <2>2
  <2> QED
    BY <2>1, <2>4, <2>5
<1>14. h \in 1..Len(r)
  <2>1. \E i \in 1..Len(rs) : places[i + 1] = Refs!shown
    BY <1>2, <1>11, <1>13
  <2>2. h = CHOOSE i \in 1..Len(rs) : places[i + 1] = Refs!shown
    BY <1>4, <1>8
  <2>3. h \in 1..Len(rs)
    BY <2>1, <2>2
  <2> QED
    BY <1>9, <2>3
<1>15. Takes(n, Len(rs), r, places) /\ Single(r, places) /\ Covers(Len(rs), r, places)
  <2>1. Takes(n, Len(rs), r, places)
    <3>1. ASSUME NEW k \in 1..Len(r) PROVE places[k + 1] \in 1..Len(rs) /\ r[k] = n[places[k + 1]]
      <4>1. k \in 1..Len(rs)
        BY <1>9
      <4>2. PICK m \in 1..Len(rs) : m = MovedFrom(from, to, k)
        BY <1>11, <4>1
      <4>3. r[k] = n[m] /\ places[k + 1] = m
        BY <1>9, <1>13, <4>1, <4>2
      <4> QED
        BY <4>3
    <3> QED
      BY <3>1 DEF Takes
  <2>2. Single(r, places)
    <3> SUFFICES ASSUME NEW j \in 1..Len(r), NEW k \in 1..Len(r), places[j + 1] = places[k + 1] PROVE j = k
      BY DEF Single
    <3>1. j \in 1..Len(rs) /\ k \in 1..Len(rs)
      BY <1>9
    <3>2. MovedFrom(from, to, j) = MovedFrom(from, to, k)
      BY <1>13, <3>1
    <3> QED
      BY <1>11, <3>1, <3>2
  <2>3. Covers(Len(rs), r, places)
    <3>1. ASSUME NEW q \in 1..Len(rs) PROVE \E k \in 1..Len(rs) : places[k + 1] = q
      <4>1. PICK k \in 1..Len(rs) : MovedFrom(from, to, k) = q
        BY <1>11
      <4> QED
        BY <1>13, <4>1
    <3> QED
      BY <1>9, <3>1 DEF Covers
  <2> QED
    BY <2>1, <2>2, <2>3
<1>16. Refs!Show(url.top, r, h, places)
  BY <1>7, <1>8
<1>17. Len(r) \in 1..MaxReferences /\ Len(places) = Len(r) + 1
  BY <1>2, <1>9, <1>10
<1> QED
  BY <1>1, <1>3, <1>9, <1>10, <1>12, <1>14, <1>15, <1>16, <1>17, Carrying

LEMMA DuplicateFollows == AppAssumption /\ RefsInv /\ Refs!duplicate_reference => Called
<1> SUFFICES ASSUME AppAssumption, RefsInv, Refs!duplicate_reference PROVE Called
  OBVIOUS
<1>1. PICK rs : rs = Refs!references
  OBVIOUS
<1>2. /\ rs \in Seq(SideSet) /\ Len(rs) \in 1..MaxReferences /\ DOMAIN rs = 1..Len(rs) /\ Len(rs) \in Nat
      /\ MaxReferences \in Nat
  BY <1>1, NowShown
<1>3. PICK n : n = Refs!with_colors(Refs!with_names(rs))
  OBVIOUS
<1>4. n \in Seq(SideSet) /\ Len(n) = Len(rs)
  BY <1>1, <1>3, NamedAre
<1>5. PICK st : st = Refs!Stay(n)
  OBVIOUS
<1>6. /\ st \in Seq(Places) /\ Len(st) = Len(rs) + 1 /\ \A k \in 1..(Len(rs) + 1) : st[k] = k - 1
  BY <1>2, <1>4, <1>5, StayIs
<1>7. PICK i \in 1..Len(rs) :
        /\ Len(rs) < MaxReferences
        /\ Refs!Show(url.top,
                     Refs!InsertAt(n, i + 1, [label |-> Refs!copy_name(Refs!NamesShown, i), color |-> Refs!Gray]),
                     i + 1, Refs!InsertAt(st, i + 2, -1))
  BY <1>1, <1>2, <1>3, <1>5 DEF Refs!duplicate_reference
<1>8. PICK names : names = Refs!NamesShown
  OBVIOUS
<1>9. PICK label : label = Refs!copy_name(names, i)
  OBVIOUS
<1>10. label \in LabelSet /\ label # Refs!NoLabel /\ label # Refs!ref_name(1)
  <2>1. names \in Seq(LabelSet) /\ Len(names) = Len(rs) /\ names[i] # Refs!NoLabel
    BY <1>1, <1>2, <1>8, NamesShownAre DEF Refs!NamesShown
  <2> QED
    BY <1>9, <2>1, CopyName
<1>11. PICK copy : copy = [label |-> label, color |-> Refs!Gray]
  OBVIOUS
<1>12. /\ copy \in SideSet /\ copy.color = Refs!Gray
       /\ copy.label # Refs!NoLabel /\ copy.label # Refs!ref_name(1)
  BY <1>10, <1>11 DEF SideSet, ColorSet
<1>13. PICK r, places : r = Refs!InsertAt(n, i + 1, copy) /\ places = Refs!InsertAt(st, i + 2, -1)
  OBVIOUS
<1>14. /\ r \in Seq(SideSet) /\ Len(r) = Len(rs) + 1
       /\ \A k \in 1..(Len(rs) + 1) : r[k] = Inserted(n, i + 1, copy, k)
  <2>1. PICK j \in 1..(Len(n) + 1) : j = i + 1
    BY <1>2, <1>4
  <2>2. r = Refs!InsertAt(n, j, copy)
    BY <1>13, <2>1
  <2>3. r \in Seq(SideSet) /\ Len(r) = Len(n) + 1 /\ \A k \in 1..(Len(n) + 1) : r[k] = Inserted(n, j, copy, k)
    BY <1>4, <1>12, <2>2, InsertIs
  <2> QED
    BY <1>4, <2>1, <2>3
<1>15. /\ places \in Seq(Places) /\ Len(places) = Len(rs) + 2
       /\ \A k \in 1..(Len(rs) + 2) : places[k] = Inserted(st, i + 2, -1, k)
  <2>1. PICK j \in 1..(Len(st) + 1), none \in Places : j = i + 2 /\ Len(st) + 1 = Len(rs) + 2 /\ none = -1
    BY <1>2, <1>6 DEF Places
  <2>2. places = Refs!InsertAt(st, j, none)
    BY <1>13, <2>1
  <2>3. /\ places \in Seq(Places) /\ Len(places) = Len(st) + 1
        /\ \A k \in 1..(Len(st) + 1) : places[k] = Inserted(st, j, none, k)
    BY <1>6, <2>2, InsertIs
  <2> QED
    BY <2>1, <2>3
<1>16. places[1] = 0
  <2>1. 1 \in 1..(Len(rs) + 2) /\ 1 \in 1..(Len(rs) + 1) /\ 1 < i + 2
    BY <1>2
  <2> QED
    BY <1>6, <1>15, <2>1 DEF Inserted
<1>17. ASSUME NEW k \in 1..(Len(rs) + 1)
       PROVE  /\ k = i + 1 => places[k + 1] = -1 /\ r[k] = copy
              /\ k # i + 1 => /\ places[k + 1] = IF k < i + 1 THEN k ELSE k - 1
                              /\ places[k + 1] \in 1..Len(rs) /\ r[k] = n[places[k + 1]]
  <2>1. k + 1 \in 1..(Len(rs) + 2) /\ k \in 1..(Len(rs) + 1)
    BY <1>2
  <2>2. r[k] = Inserted(n, i + 1, copy, k) /\ places[k + 1] = Inserted(st, i + 2, -1, k + 1)
    BY <1>14, <1>15, <2>1
  <2>3. CASE k < i + 1
    <3>1. k + 1 < i + 2 /\ k # i + 1 /\ k \in 1..Len(rs) /\ k + 1 \in 1..(Len(rs) + 1) /\ k + 1 - 1 = k
      BY <1>2, <2>3
    <3>2. places[k + 1] = k
      BY <1>6, <2>2, <3>1 DEF Inserted
    <3> QED
      BY <2>2, <2>3, <3>1, <3>2 DEF Inserted
  <2>4. CASE k = i + 1
    <3>1. k + 1 = i + 2 /\ ~(i + 2 < i + 2) /\ ~(i + 1 < i + 1)
      BY <1>2, <2>4
    <3> QED
      BY <2>2, <2>4, <3>1 DEF Inserted
  <2>5. CASE ~(k < i + 1) /\ k # i + 1
    <3>1. /\ ~(k + 1 < i + 2) /\ k + 1 # i + 2 /\ k - 1 \in 1..Len(rs)
          /\ k + 1 - 1 = k
      BY <1>2, <2>5
    <3>2. places[k + 1] = k - 1
      BY <1>6, <2>1, <2>2, <3>1 DEF Inserted
    <3> QED
      BY <2>2, <2>5, <3>1, <3>2 DEF Inserted
  <2> QED
    BY <2>3, <2>4, <2>5
<1>18. Takes(n, Len(rs), r, places)
  BY <1>12, <1>14, <1>17 DEF Takes
<1>19. Single(r, places)
  <2> SUFFICES ASSUME NEW j \in 1..Len(r), NEW k \in 1..Len(r), places[j + 1] = places[k + 1],
                      places[j + 1] # -1
               PROVE  j = k
    BY DEF Single
  <2>1. j \in 1..(Len(rs) + 1) /\ k \in 1..(Len(rs) + 1)
    BY <1>14
  <2>2. j # i + 1 /\ k # i + 1
    BY <1>17, <2>1
  <2>3. places[j + 1] = (IF j < i + 1 THEN j ELSE j - 1) /\ places[k + 1] = (IF k < i + 1 THEN k ELSE k - 1)
    BY <1>17, <2>1, <2>2
  <2>4. (IF j < i + 1 THEN j ELSE j - 1) = (IF k < i + 1 THEN k ELSE k - 1)
    BY <2>3
  <2> QED
    BY <1>2, <2>1, <2>2, <2>4
<1>20. Covers(Len(rs), r, places)
  <2> SUFFICES ASSUME NEW q \in 1..Len(rs) PROVE \E k \in 1..Len(r) : places[k + 1] = q
    BY DEF Covers
  <2>1. CASE q < i + 1
    <3>1. q \in 1..(Len(rs) + 1) /\ q # i + 1
      BY <1>2, <2>1
    <3>2. places[q + 1] = q
      BY <1>17, <2>1, <3>1
    <3> QED
      BY <1>14, <3>1, <3>2
  <2>2. CASE ~(q < i + 1)
    <3>1. PICK k \in 1..(Len(rs) + 1) : k = q + 1
      BY <1>2
    <3>2. k # i + 1 /\ ~(k < i + 1) /\ k - 1 = q
      BY <1>2, <2>2, <3>1
    <3>3. places[k + 1] = q
      BY <1>17, <3>2
    <3> QED
      BY <1>14, <3>3
  <2> QED
    BY <2>1, <2>2
<1>21. Refs!Show(url.top, r, i + 1, places)
  BY <1>7, <1>8, <1>9, <1>11, <1>13
<1>22. Len(r) \in 1..MaxReferences /\ Len(places) = Len(r) + 1 /\ i + 1 \in 1..Len(r)
  BY <1>2, <1>7, <1>14, <1>15
<1> QED
  BY <1>1, <1>3, <1>14, <1>15, <1>16, <1>18, <1>19, <1>20, <1>21, <1>22, Carrying

LEMMA AddFollows == AppAssumption /\ RefsInv /\ Refs!add_reference => Called
<1> SUFFICES ASSUME AppAssumption, RefsInv, Refs!add_reference PROVE Called
  OBVIOUS
<1>1. PICK rs : rs = Refs!references
  OBVIOUS
<1>2. /\ rs \in Seq(SideSet) /\ Len(rs) \in 1..MaxReferences /\ DOMAIN rs = 1..Len(rs) /\ Len(rs) \in Nat
      /\ MaxReferences \in Nat /\ url.top \in SideSet /\ url.top.label # Refs!ref_name(1)
  BY <1>1, NowShown
<1>3. PICK n : n = Refs!with_colors(rs)
  OBVIOUS
<1>4. PICK s, ls : s = Refs!ColorsShown /\ ls = LabelsOf(rs)
  OBVIOUS
<1>5. /\ n \in Seq(SideSet) /\ Len(n) = Len(rs)
      /\ \A k \in 1..Len(rs) : n[k].color = s[k + 1] /\ n[k].label = rs[k].label
  BY <1>1, <1>2, <1>3, <1>4, PassedOn
<1>6. PICK st : st = Refs!Stay(n)
  OBVIOUS
<1>7. /\ st \in Seq(Places) /\ Len(st) = Len(rs) + 1 /\ \A k \in 1..(Len(rs) + 1) : st[k] = k - 1
  BY <1>2, <1>5, <1>6, StayIs
<1>8. PICK names : names = Refs!NamesShown
  OBVIOUS
<1>9. names \in Seq(LabelSet) /\ Len(names) = Len(rs) /\ \A k \in 1..Len(rs) : names[k] = NameOf(ls, k)
  BY <1>1, <1>2, <1>4, <1>8, NamesShownAre DEF Refs!NamesShown
<1>10. PICK given \in Refs!Given :
         /\ Len(rs) < MaxReferences
         /\ Refs!Show(url.top,
                      Append(n, [label |-> IF given = Refs!NoLabel THEN Refs!next_ref_name(names) ELSE given,
                                 color |-> Refs!Gray]),
                      Len(rs) + 1, Append(st, -1))
  BY <1>1, <1>3, <1>5, <1>6, <1>8 DEF Refs!add_reference
<1>11. PICK e : e = IF given = Refs!NoLabel THEN Refs!next_ref_name(names) ELSE given
  OBVIOUS
<1>12. /\ e \in LabelSet /\ e # Refs!NoLabel
       /\ \A m \in Nat, i \in 1..Len(ls) : e = Refs!ref_name(m) => NameOf(ls, i) # e
  <2>1. Len(ls) = Len(rs)
    BY <1>2, <1>4, LabelsAre
  <2>2. CASE given = Refs!NoLabel
    <3>1. PICK m \in Nat : e = Refs!ref_name(m) /\ \A i \in 1..Len(names) : names[i] # e
      BY <1>9, <1>11, <2>2, NextRefName
    <3>2. e \in LabelSet /\ e # Refs!NoLabel
      BY <3>1, RefNames
    <3> QED
      BY <1>9, <2>1, <3>1, <3>2
  <2>3. CASE given # Refs!NoLabel
    <3>1. PICK name \in UserNames : e = <<name, <<>>>>
      BY <1>11, <2>3 DEF Refs!Given
    <3>2. e \in LabelSet
      BY <3>1, PlainNames
    <3>3. ASSUME NEW m \in Nat, e = Refs!ref_name(m) PROVE FALSE
      <4>1. <<name, <<>>>> = <<"ref", <<m>>>>
        BY <3>1, <3>3 DEF Refs!ref_name
      <4>2. <<>> = <<m>>
        BY <4>1
      <4> QED
        BY <4>2
    <3> QED
      BY <1>11, <2>3, <3>2, <3>3
  <2> QED
    BY <2>2, <2>3
<1>13. PICK added : added = [label |-> e, color |-> Refs!Gray]
  OBVIOUS
<1>14. added \in SideSet /\ added.color = Refs!Gray /\ added.label = e
  BY <1>12, <1>13 DEF SideSet, ColorSet
<1>15. PICK r, places : r = Append(n, added) /\ places = Append(st, -1)
  OBVIOUS
<1>16. /\ r \in Seq(SideSet) /\ Len(r) = Len(rs) + 1 /\ r[Len(rs) + 1] = added
       /\ \A k \in 1..Len(rs) : r[k] = n[k]
  BY <1>5, <1>14, <1>15, AppendProperties
<1>17. /\ places \in Seq(Places) /\ Len(places) = Len(rs) + 2 /\ places[Len(rs) + 2] = -1
       /\ \A k \in 1..(Len(rs) + 1) : places[k] = k - 1
  <2>1. -1 \in Places
    BY <1>2 DEF Places
  <2>2. /\ places \in Seq(Places) /\ Len(places) = Len(st) + 1 /\ places[Len(st) + 1] = -1
        /\ \A k \in 1..Len(st) : places[k] = st[k]
    BY <1>7, <1>15, <2>1, AppendProperties
  <2>3. Len(st) + 1 = Len(rs) + 2
    BY <1>2, <1>7
  <2> QED
    BY <1>7, <2>2, <2>3
<1>18. Refs!Show(url.top, r, Len(rs) + 1, places)
  BY <1>10, <1>11, <1>13, <1>15
<1>19. /\ RefsInv' /\ was' = places
       /\ Refs!ColorsShown' = Refs!side_colors[Refs!ColorsOf(url.top, r)]
       /\ Refs!NamesShown' = Refs!reference_names(r)
  <2>1. Len(r) \in 1..MaxReferences /\ Len(places) = Len(r) + 1 /\ Len(rs) + 1 \in 1..Len(r)
    BY <1>2, <1>10, <1>16, <1>17
  <2> QED
    BY <1>2, <1>16, <1>17, <1>18, <2>1, Showing
<1>20. ASSUME NEW k \in 1..(Len(rs) + 1)
       PROVE  \/ k \in 1..Len(rs) /\ places[k + 1] = k
              \/ k = Len(rs) + 1 /\ places[k + 1] = -1
  <2>1. CASE k = Len(rs) + 1
    <3>1. k + 1 = Len(rs) + 2
      BY <1>2, <2>1
    <3> QED
      BY <1>17, <2>1, <3>1
  <2>2. CASE k # Len(rs) + 1
    <3>1. k \in 1..Len(rs) /\ k + 1 \in 1..(Len(rs) + 1) /\ k + 1 - 1 = k
      BY <1>2, <2>2
    <3> QED
      BY <1>17, <3>1
  <2> QED
    BY <2>1, <2>2
<1>21. Refs!ColorsMove
  <2>1. Recolors(s, Len(rs), r, places)
    <3>1. ASSUME NEW k \in 1..Len(r)
          PROVE  \/ places[k + 1] = -1 /\ r[k].color = Refs!Gray
                 \/ places[k + 1] \in 1..Len(rs) /\ r[k].color = s[places[k + 1] + 1]
      BY <1>5, <1>14, <1>16, <1>20
    <3> QED
      BY <3>1 DEF Recolors
  <2>2. ASSUME NEW j \in 1..Len(r), NEW k \in 1..Len(r), places[j + 1] = places[k + 1], places[j + 1] # -1
        PROVE  j = k
    <3>1. j \in 1..(Len(rs) + 1) /\ k \in 1..(Len(rs) + 1)
      BY <1>16
    <3>2. places[j + 1] = j /\ places[k + 1] = k
      BY <1>20, <2>2, <3>1
    <3> QED
      BY <2>2, <3>2
  <2>3. ASSUME NEW q \in 1..Len(rs) PROVE \E k \in 1..Len(r) : places[k + 1] = q
    <3>1. q \in 1..(Len(rs) + 1) /\ q # Len(rs) + 1
      BY <1>2
    <3>2. places[q + 1] = q
      BY <1>20, <3>1
    <3> QED
      BY <1>16, <3>1, <3>2
  <2>4. /\ Len(r) \in 1..MaxReferences /\ Len(places) = Len(r) + 1 /\ places[1] = 0
    <3>1. 1 \in 1..(Len(rs) + 1)
      BY <1>2
    <3> QED
      BY <1>2, <1>10, <1>16, <1>17, <3>1
  <2>5. Single(r, places) /\ Covers(Len(rs), r, places)
    BY <2>2, <2>3 DEF Single, Covers
  <2> QED
    BY <1>1, <1>2, <1>4, <1>16, <1>17, <1>19, <2>1, <2>4, <2>5, ColorsMoved
<1>22. Refs!OthersKeepNames
  <2>1. PICK ms : ms = LabelsOf(r)
    OBVIOUS
  <2>2. /\ ls \in Seq(LabelSet) /\ Len(ls) = Len(rs) /\ \A k \in 1..Len(rs) : ls[k] = rs[k].label
        /\ DOMAIN ls = 1..Len(rs)
    BY <1>2, <1>4, LabelsAre
  <2>3. /\ ms \in Seq(LabelSet) /\ Len(ms) = Len(rs) + 1 /\ DOMAIN ms = 1..(Len(rs) + 1)
        /\ \A k \in 1..(Len(rs) + 1) : ms[k] = r[k].label
    BY <1>16, <2>1, LabelsAre
  <2>4. ms = Append(ls, e)
    <3>1. PICK q : q = Append(ls, e)
      OBVIOUS
    <3>2. /\ q \in Seq(LabelSet) /\ Len(q) = Len(rs) + 1 /\ q[Len(rs) + 1] = e
          /\ \A k \in 1..Len(rs) : q[k] = ls[k]
      BY <1>12, <2>2, <3>1, AppendProperties
    <3>3. ASSUME NEW k \in 1..(Len(rs) + 1) PROVE ms[k] = q[k]
      <4>1. CASE k = Len(rs) + 1
        BY <1>14, <1>16, <2>3, <3>2, <4>1
      <4>2. CASE k # Len(rs) + 1
        <5>1. k \in 1..Len(rs)
          BY <1>2, <4>2
        <5>2. ms[k] = r[k].label /\ r[k] = n[k]
          BY <1>16, <2>3, <5>1
        <5>3. n[k].label = rs[k].label
          BY <1>5, <5>1
        <5>4. q[k] = ls[k] /\ ls[k] = rs[k].label
          BY <2>2, <3>2, <5>1
        <5> QED
          BY <5>2, <5>3, <5>4
      <4> QED
        BY <4>1, <4>2
    <3> QED
      BY <2>3, <3>1, <3>2, <3>3, SeqEqual
  <2>5. ASSUME NEW k \in 1..Len(r), places[k + 1] > 0
        PROVE  places[k + 1] \in 1..Len(rs) /\ NameOf(ms, k) = NameOf(ls, places[k + 1])
    <3>1. k \in 1..(Len(rs) + 1)
      BY <1>16
    <3>2. k \in 1..Len(rs) /\ places[k + 1] = k
      BY <1>20, <2>5, <3>1
    <3>3. NameOf(ms, k) = NameOf(ls, k)
      <4>1. k \in 1..Len(ls)
        BY <2>2, <3>2
      <4> QED
        BY <1>12, <2>2, <2>4, <4>1, NamesAppended
    <3> QED
      BY <3>2, <3>3
  <2> QED
    BY <1>1, <1>4, <1>16, <1>19, <2>1, <2>5, NamesMoved
<1> QED
  BY <1>19, <1>21, <1>22 DEF Followed, Called

Permutes(c, d, s, p) ==
    /\ \A k \in 1..Len(d) : p[k] \in Int /\ p[k] + 1 \in 1..Len(c) /\ d[k] = s[p[k] + 1]
    /\ \A j, k \in 1..Len(d) : p[j] = p[k] => j = k

(* Sides that changed places, with the colors they showed.                 *)
LEMMA ColorsPermuted ==
    ASSUME AppAssumption, NEW c \in Refs!Colorings, NEW d \in Refs!Colorings,
           NEW s, s = Refs!side_colors[c], NEW t, t = Refs!side_colors[d], NEW p, Permutes(c, d, s, p),
           NEW k \in 1..Len(d)
    PROVE  s[p[k] + 1] \in {t[k], Refs!Gray}
<1> SUFFICES ASSUME s[p[k] + 1] # Refs!Gray PROVE s[p[k] + 1] = t[k]
  OBVIOUS
<1>1. /\ Len(c) \in Nat /\ Len(d) \in Nat /\ \A i \in 1..Len(c) : s[i] = Side(c, i)
      /\ \A i \in 1..Len(d) : t[i] = Side(d, i)
  BY SidesAre
<1>2. PICK x \in 1..Len(c) : x = p[k] + 1 /\ d[k] = s[x] /\ p[k] \in Int
  BY DEF Permutes
<1>3. ASSUME NEW j \in 1..(k - 1), d[j] = d[k] PROVE FALSE
  <2>1. j \in 1..Len(d) /\ j # k
    BY <1>1
  <2>2. PICK y \in 1..Len(c) : y = p[j] + 1 /\ d[j] = s[y] /\ p[j] \in Int
    BY <2>1 DEF Permutes
  <2>3. p[j] # p[k]
    BY <2>1 DEF Permutes
  <2>4. x # y
    BY <1>2, <2>2, <2>3
  <2>5. Side(c, x) = Side(c, y) /\ Side(c, x) # Refs!Gray
    BY <1>1, <1>2, <1>3, <2>2
  <2> QED
    BY <2>4, <2>5, SidesDiffer
<1>4. Has(d, k)
  BY <1>2, <1>3 DEF Has
<1>5. Side(d, k) = d[k]
  BY <1>4, SideWhen
<1> QED
  BY <1>1, <1>2, <1>5

LEMMA SwapFollows ==
    ASSUME AppAssumption, RefsInv, NEW rs, rs = Refs!references,
           NEW q \in Seq(SideSet), Len(q) = Len(rs), NEW i \in 1..Len(rs), Refs!Swap(q, i)
    PROVE  Followed /\ (q = Refs!with_names(rs) => Refs!OthersKeepNames)
<1>1. /\ rs \in Seq(SideSet) /\ Len(rs) \in 1..MaxReferences /\ DOMAIN rs = 1..Len(rs) /\ Len(rs) \in Nat
      /\ MaxReferences \in Nat /\ url.top \in SideSet /\ url.top.label # Refs!ref_name(1)
      /\ Len(was) = Len(rs) + 1
  BY NowShown
<1>2. PICK s : s = Refs!ColorsShown
  OBVIOUS
<1>3. /\ s \in Refs!Colorings /\ \A k \in 1..(Len(rs) + 1) : s[k] \in ColorSet
      /\ \E c \in Refs!Colorings : s = Refs!side_colors[c] /\ Len(c) = Len(rs) + 1
  <2>1. PICK c \in Refs!Colorings : s = Refs!side_colors[c] /\ Len(c) = Len(rs) + 1
    BY <1>2, Showed
  <2>2. s \in Refs!Colorings
    BY <2>1, SidesAre
  <2> QED
    BY <1>2, <2>1, <2>2, Showed
<1>4. PICK w : w = Refs!with_names(rs)
  OBVIOUS
<1>5. w \in Seq(SideSet) /\ Len(w) = Len(rs) /\ \A k \in 1..Len(rs) : w[k].label = Written(LabelsOf(rs), k)
  BY <1>1, <1>4, Renamed
<1>6. PICK labels : labels = Refs!swapped_labels(url.top.label, w, i)
  OBVIOUS
<1>7. /\ labels.label_new \in LabelSet /\ labels.label_ref \in LabelSet
      /\ labels.label_new # Refs!ref_name(1)
      /\ \/ labels.label_ref = w[i].label
         \/ labels.label_ref # Refs!NoLabel /\ labels.label_ref # Refs!ref_name(1)
  <2>1. url.top.label \in LabelSet
    BY <1>1, SideChanged
  <2>2. w[i].label \in LabelSet
    BY <1>5, ElementOfSeq, SideChanged
  <2>3. PICK rest : rest = Refs!RemoveAt(w, i)
    OBVIOUS
  <2>4. PICK names : names = Refs!reference_names(rest)
    OBVIOUS
  <2>5. PICK next : next = Refs!next_ref_name(names)
    OBVIOUS
  <2>6. next \in LabelSet /\ next # Refs!NoLabel /\ next # Refs!ref_name(1)
    <3>1. rest \in Seq(SideSet)
      BY <1>5, <2>3, RemoveIs
    <3>2. names \in Seq(LabelSet)
      BY <2>4, <3>1, NamesShownAre
    <3>3. PICK m \in Nat : m >= 2 /\ next = Refs!ref_name(m)
      BY <2>5, <3>2, NextRefName
    <3>4. m # 1
      BY <3>3
    <3> QED
      BY <3>3, <3>4, RefNames
  <2>7. /\ labels.label_new = IF Refs!is_default_name(w[i].label) THEN Refs!NoLabel ELSE w[i].label
        /\ labels.label_ref = IF url.top.label # Refs!NoLabel THEN url.top.label
                              ELSE IF Refs!is_default_name(w[i].label) THEN w[i].label ELSE next
    BY <1>6, <2>3, <2>4, <2>5 DEF Refs!swapped_labels
  <2>8. Refs!is_default_name(Refs!ref_name(1))
    BY DEF Refs!is_default_name, Refs!ref_name
  <2>9. labels.label_new # Refs!ref_name(1)
    BY <2>7, <2>8, RefNames
  <2> QED
    BY <1>1, <2>1, <2>2, <2>6, <2>7, <2>9, RefNames
<1>8. PICK top, place : /\ top = [label |-> labels.label_new, color |-> s[i + 1]]
                        /\ place = [label |-> labels.label_ref, color |-> s[1]]
  OBVIOUS
<1>9. /\ top \in SideSet /\ place \in SideSet /\ top.color = s[i + 1] /\ place.color = s[1]
      /\ top.label # Refs!ref_name(1) /\ place.label = labels.label_ref
  <2>1. 1 \in 1..(Len(rs) + 1) /\ i + 1 \in 1..(Len(rs) + 1)
    BY <1>1
  <2> QED
    BY <1>3, <1>7, <1>8, <2>1 DEF SideSet
<1>10. PICK n : n = Refs!with_colors(q)
  OBVIOUS
<1>11. /\ n \in Seq(SideSet) /\ Len(n) = Len(rs)
       /\ \A k \in 1..Len(rs) : n[k].color = s[k + 1] /\ n[k].label = q[k].label
  BY <1>2, <1>10, PassedOn
<1>12. PICK r : r = [n EXCEPT ![i] = place]
  OBVIOUS
<1>13. /\ r \in Seq(SideSet) /\ Len(r) = Len(rs)
       /\ \A k \in 1..Len(rs) : /\ r[k].color = IF k = i THEN s[1] ELSE s[k + 1]
                                /\ r[k].label = IF k = i THEN labels.label_ref ELSE q[k].label
  <2>1. i \in 1..Len(n)
    BY <1>11
  <2>2. r \in Seq(SideSet) /\ Len(r) = Len(n) /\ \A k \in 1..Len(n) : r[k] = IF k = i THEN place ELSE n[k]
    BY <1>9, <1>11, <1>12, <2>1, ExceptSeq
  <2> QED
    BY <1>9, <1>11, <2>2
<1>14. PICK st, places : st = Refs!Stay(q) /\ places = [st EXCEPT ![1] = i, ![i + 1] = 0]
  OBVIOUS
<1>15. /\ places \in Seq(Places) /\ Len(places) = Len(rs) + 1
       /\ \A k \in 1..(Len(rs) + 1) : places[k] = IF k = 1 THEN i ELSE IF k = i + 1 THEN 0 ELSE k - 1
  <2>1. /\ st \in Seq(Places) /\ Len(st) = Len(rs) + 1 /\ \A k \in 1..(Len(rs) + 1) : st[k] = k - 1
    BY <1>1, <1>14, StayIs
  <2>2. PICK a : a = [st EXCEPT ![1] = i]
    OBVIOUS
  <2>3. i \in Places /\ 0 \in Places /\ 1 \in 1..Len(st) /\ i + 1 \in 1..Len(st)
    BY <1>1, <2>1 DEF Places
  <2>4. a \in Seq(Places) /\ Len(a) = Len(st) /\ \A k \in 1..Len(st) : a[k] = IF k = 1 THEN i ELSE st[k]
    BY <2>1, <2>2, <2>3, ExceptSeq
  <2>5. PICK j \in 1..Len(a) : j = i + 1
    BY <2>3, <2>4
  <2>6. places = [a EXCEPT ![j] = 0]
    BY <1>14, <2>2, <2>5
  <2>7. places \in Seq(Places) /\ Len(places) = Len(a) /\ \A k \in 1..Len(a) : places[k] = IF k = j THEN 0 ELSE a[k]
    BY <2>3, <2>4, <2>6, ExceptSeq
  <2>8. ASSUME NEW k \in 1..(Len(rs) + 1)
        PROVE  places[k] = IF k = 1 THEN i ELSE IF k = i + 1 THEN 0 ELSE k - 1
    <3>1. k \in 1..Len(a) /\ k \in 1..Len(st)
      BY <2>1, <2>4
    <3>2. j # 1
      BY <1>1, <2>5
    <3> QED
      BY <2>1, <2>4, <2>5, <2>7, <3>1, <3>2
  <2> QED
    BY <2>1, <2>4, <2>7, <2>8
<1>16. Refs!Show(top, r, i, places)
  BY <1>2, <1>4, <1>6, <1>8, <1>10, <1>12, <1>14 DEF Refs!Swap
<1>17. /\ RefsInv' /\ was' = places
       /\ Refs!ColorsShown' = Refs!side_colors[Refs!ColorsOf(top, r)]
       /\ Refs!NamesShown' = Refs!reference_names(r)
  <2>1. Len(r) \in 1..MaxReferences /\ Len(places) = Len(r) + 1 /\ i \in 1..Len(r)
    BY <1>1, <1>13, <1>15
  <2> QED
    BY <1>9, <1>13, <1>15, <1>16, <2>1, Showing
<1>18. ASSUME q = Refs!with_names(rs) PROVE Refs!OthersKeepNames
  <2>1. PICK ls, ms, p : /\ ls = LabelsOf(rs) /\ ms = LabelsOf(r)
                         /\ p = [k \in 1..Len(rs) |-> IF k = i /\ labels.label_ref # w[i].label THEN 0 ELSE k]
    OBVIOUS
  <2>2. /\ ls \in Seq(LabelSet) /\ Len(ls) = Len(rs)
        /\ ms \in Seq(LabelSet) /\ Len(ms) = Len(rs) /\ \A k \in 1..Len(rs) : ms[k] = r[k].label
    BY <1>1, <1>13, <2>1, LabelsAre
  <2>3. ASSUME NEW k \in 1..Len(rs)
        PROVE  /\ p[k] \in 0..Len(rs) /\ (p[k] # 0 => p[k] = k) /\ (k # i => p[k] = k)
               /\ p[k] = 0 => ms[k] # Refs!NoLabel /\ ms[k] # Refs!ref_name(1)
               /\ p[k] # 0 => ms[k] = Written(ls, k)
    <3>1. k # 0 /\ k \in 0..Len(rs) /\ 0 \in 0..Len(rs)
      BY <1>1
    <3>2. w[k].label = Written(ls, k) /\ q[k] = w[k]
      BY <1>4, <1>5, <1>18, <2>1
    <3>3. CASE k = i /\ labels.label_ref # w[i].label
      <4>1. p[k] = 0 /\ ms[k] = labels.label_ref
        BY <1>13, <2>1, <2>2, <3>3
      <4> QED
        BY <1>7, <3>1, <3>3, <4>1
    <3>4. CASE ~(k = i /\ labels.label_ref # w[i].label)
      <4>1. p[k] = k
        BY <2>1, <3>4
      <4>2. ms[k] = w[k].label
        BY <1>13, <2>2, <3>2, <3>4
      <4> QED
        BY <3>1, <3>2, <4>1, <4>2
    <3> QED
      BY <3>3, <3>4
  <2>4. Brought(ls, ms, p)
    <3>1. \A k \in 1..Len(ms) : p[k] # 0 => ms[k] = Written(ls, p[k])
      BY <2>2, <2>3
    <3>2. \A j, k \in 1..Len(ms) : p[j] = p[k] /\ p[j] # 0 => j = k
      BY <2>2, <2>3
    <3> QED
      BY <2>2, <2>3, <3>1, <3>2 DEF Brought
  <2>5. ASSUME NEW k \in 1..Len(r), places[k + 1] > 0
        PROVE  places[k + 1] \in 1..Len(rs) /\ NameOf(ms, k) = NameOf(ls, places[k + 1])
    <3>1. k \in 1..Len(rs) /\ k + 1 \in 1..(Len(rs) + 1) /\ k + 1 # 1 /\ k + 1 - 1 = k
      BY <1>1, <1>13
    <3>2. k # i /\ places[k + 1] = k
      BY <1>1, <1>15, <2>5, <3>1
    <3>3. p[k] = k /\ k # 0
      BY <1>1, <2>3, <3>1, <3>2
    <3>4. NameOf(ms, k) = NameOf(ls, p[k])
      BY <2>2, <2>4, <3>1, <3>3, NamesCarried
    <3> QED
      BY <3>1, <3>2, <3>3, <3>4
  <2> QED
    BY <1>13, <1>17, <2>1, <2>5, NamesMoved
<1>19. Refs!ColorsMove
  <2>1. PICK d, t : d = Refs!ColorsOf(top, r) /\ t = Refs!side_colors[d]
    OBVIOUS
  <2>2. /\ d \in Refs!Colorings /\ Len(d) = Len(rs) + 1 /\ d[1] = s[i + 1]
        /\ \A k \in 1..Len(rs) : d[k + 1] = r[k].color
    <3>1. Len(r) \in 1..MaxReferences
      BY <1>1, <1>13
    <3> QED
      BY <1>9, <1>13, <2>1, <3>1, ColoringOf
  <2>3. PICK c \in Refs!Colorings : s = Refs!side_colors[c] /\ Len(c) = Len(rs) + 1
    BY <1>3
  <2>4. ASSUME NEW k \in 1..(Len(rs) + 1)
        PROVE  places[k] \in Int /\ places[k] + 1 \in 1..(Len(rs) + 1) /\ d[k] = s[places[k] + 1]
    <3>1. CASE k = 1
      <4>1. places[k] = i
        BY <1>15, <3>1
      <4> QED
        BY <1>1, <2>2, <3>1, <4>1
    <3>2. CASE k # 1
      <4>1. PICK h \in 1..Len(rs) : h = k - 1 /\ k = h + 1
        BY <1>1, <3>2
      <4>2. d[k] = IF h = i THEN s[1] ELSE s[h + 1]
        BY <1>13, <2>2, <4>1
      <4>3. places[k] = IF h = i THEN 0 ELSE h
        BY <1>1, <1>15, <3>2, <4>1
      <4>4. CASE h = i
        BY <1>1, <4>2, <4>3, <4>4
      <4>5. CASE h # i
        BY <1>1, <4>2, <4>3, <4>5
      <4> QED
        BY <4>4, <4>5
    <3> QED
      BY <3>1, <3>2
  <2>5. ASSUME NEW j \in 1..(Len(rs) + 1), NEW k \in 1..(Len(rs) + 1), places[j] = places[k] PROVE j = k
    <3>1. /\ places[j] = IF j = 1 THEN i ELSE IF j = i + 1 THEN 0 ELSE j - 1
          /\ places[k] = IF k = 1 THEN i ELSE IF k = i + 1 THEN 0 ELSE k - 1
      BY <1>15
    <3>2. (IF j = 1 THEN i ELSE IF j = i + 1 THEN 0 ELSE j - 1) = (IF k = 1 THEN i ELSE IF k = i + 1 THEN 0 ELSE k - 1)
      BY <2>5, <3>1
    <3> QED
      BY <1>1, <3>2
  <2>6. Permutes(c, d, s, places)
    BY <2>2, <2>3, <2>4, <2>5 DEF Permutes
  <2>7. ASSUME NEW k \in 1..Len(was') PROVE s[was'[k] + 1] \in {t[k], Refs!Gray}
    <3>1. k \in 1..Len(d)
      BY <1>15, <1>17, <2>2
    <3> QED
      BY <1>17, <2>1, <2>2, <2>3, <2>6, <3>1, ColorsPermuted
  <2>8. Refs!Keep(s, t, 1..Len(was'))
    BY <2>7 DEF Refs!Keep
  <2>9. ~Refs!Removed
    BY <1>1, <1>15, <1>17 DEF Refs!Removed
  <2>10. Apart(t)
    BY <2>1, <2>2, ColorsDiffer
  <2>11. Refs!ColorsShown' = t
    BY <1>17, <2>1
  <2> QED
    BY <1>2, <2>8, <2>9, <2>10, <2>11 DEF Refs!ColorsMove, Apart
<1> QED
  BY <1>17, <1>18, <1>19 DEF Followed

LEMMA SwapsFollow ==
    ASSUME AppAssumption, RefsInv
    PROVE  /\ Refs!swap_with_top => Called
           /\ Refs!switch_new_and_reference => Followed
<1>1. PICK rs, w : rs = Refs!references /\ w = Refs!with_names(rs)
  OBVIOUS
<1>2. /\ rs \in Seq(SideSet) /\ DOMAIN rs = 1..Len(rs) /\ Refs!shown \in 1..Len(rs)
  BY <1>1, NowShown
<1>3. w \in Seq(SideSet) /\ Len(w) = Len(rs)
  BY <1>1, <1>2, Renamed
<1>4. ASSUME Refs!swap_with_top PROVE Called
  <2>1. PICK i \in 1..Len(rs) : Refs!Swap(w, i)
    BY <1>1, <1>2, <1>4 DEF Refs!swap_with_top
  <2> QED
    BY <1>1, <1>3, <2>1, SwapFollows DEF Called
<1>5. ASSUME Refs!switch_new_and_reference PROVE Followed
  <2>1. Refs!Swap(rs, Refs!shown)
    BY <1>1, <1>5 DEF Refs!switch_new_and_reference
  <2> QED
    BY <1>1, <1>2, <2>1, SwapFollows
<1> QED
  BY <1>4, <1>5

LEMMA RefsStart == ASSUME AppAssumption, Refs!Init PROVE RefsInv
<1>1. MaxReferences \in Nat /\ MaxReferences >= 1
  BY DEF AppAssumption, Refs!ReferencesAssumption
<1>2. PICK label \in Refs!Given, color \in ColorSet :
        url = [top |-> [label |-> Refs!NoLabel, color |-> Refs!Gray], ref |-> [label |-> label, color |-> color],
               others |-> <<>>, ref_index |-> 0]
  BY DEF Refs!Init, ColorSet
<1>3. label \in LabelSet
  BY PlainNames, RefNames DEF Refs!Given
<1>4. url.top \in SideSet /\ url.ref \in SideSet
  BY <1>2, <1>3, RefNames DEF SideSet, ColorSet
<1>5. url.others \in Seq(SideSet) /\ Len(url.others) = 0 /\ url.ref_index = 0
  <2>1. url.others = <<>> /\ url.ref_index = 0
    BY <1>2
  <2> QED
    BY <2>1, EmptySeq
<1>6. PICK none \in Seq(SideSet) : none = url.others /\ Len(none) = 0
  BY <1>5
<1>7. url.others = none /\ url.ref_index = 0
  BY <1>5, <1>6
<1>8. PICK rs : rs = Refs!references
  OBVIOUS
<1>9. rs \in Seq(SideSet) /\ Len(rs) = 1
  <2>1. PICK m \in 1..(Len(none) + 1), e \in SideSet : m = url.ref_index + 1 /\ e = url.ref
    BY <1>4, <1>6, <1>7
  <2>2. rs = Refs!InsertAt(none, m, e)
    BY <1>7, <1>8, <2>1 DEF Refs!references
  <2>3. Refs!InsertAt(none, m, e) \in Seq(SideSet) /\ Len(Refs!InsertAt(none, m, e)) = Len(none) + 1
    BY InsertIs
  <2> QED
    BY <1>6, <2>2, <2>3
<1>10. was = Refs!Stay(rs)
  BY <1>8 DEF Refs!Init
<1>11. Len(rs) \in 1..MaxReferences
  BY <1>1, <1>9
<1>12. was \in Seq(Places) /\ Len(was) = Len(rs) + 1
  BY <1>9, <1>10, <1>11, StayIs
<1>13. url.top.label # Refs!ref_name(1)
  <2>1. url.top.label = Refs!NoLabel
    BY <1>2
  <2> QED
    BY <2>1, RefNames
<1> QED
  BY <1>1, <1>4, <1>6, <1>7, <1>9, <1>12, <1>13 DEF RefsInv

LEMMA RefsStep == ASSUME AppAssumption, RefsInv, Refs!Next PROVE Followed
BY ShowFollows, AddFollows, RemoveFollows, MoveFollows, DuplicateFollows, RenameFollows, SwapsFollow
   DEF Refs!Next, Called

LEMMA ReferenceNamesStep == ASSUME AppAssumption, RefsInv PROVE Refs!NamesMove
BY ShowFollows, AddFollows, RemoveFollows, MoveFollows, DuplicateFollows, SwapsFollow
   DEF Refs!NamesMove, Called

LEMMA RefsNext == ASSUME AppAssumption, RefsInv, [Refs!Next]_refs PROVE RefsInv' /\ (refs' # refs => Followed)
<1>1. CASE Refs!Next
  <2>1. Followed
    BY <1>1, RefsStep
  <2> QED
    BY <2>1 DEF Followed
<1>2. CASE UNCHANGED refs
  <2>1. url' = url /\ was' = was
    BY <1>2 DEF refs
  <2> QED
    BY <1>2, <2>1 DEF RefsInv
<1> QED
  BY <1>1, <1>2

(* selection.js: whatever is done to a comparison, the references that     *)
(* stay keep their colors, a gray one may get one that was freed, and no   *)
(* two results share one (side_colors, needed_colors).  The top results    *)
(* keep theirs too, but when a reference is removed: they then keep it or  *)
(* take the color it freed.                                                *)
THEOREM ColorsStay == AppSpec => ColorsFollow
<1>1. AppInit => RefsInv
  BY RefsStart, AppAssumption DEF AppInit
<1>2. RefsInv /\ [AppNext]_app => RefsInv' /\ [refs' # refs => Refs!ColorsMove]_app
  BY RefsNext, StepsOfViewers, AppAssumption DEF Followed
<1> QED
  BY <1>1, <1>2, PTL DEF AppSpec, ColorsFollow

(* selection.js: showing, adding, removing, moving or copying a reference, *)
(* or swapping one with the top results, renames none of the other         *)
(* references (reference_names, with_names, next_ref_name, copy_name,      *)
(* swapped_labels).                                                        *)
THEOREM NamesAreKept == AppSpec => NamesStay
<1>1. AppInit => RefsInv
  BY RefsStart, AppAssumption DEF AppInit
<1>2. RefsInv /\ [AppNext]_app => RefsInv' /\ [refs' # refs => Refs!NamesMove]_app
  BY RefsNext, ReferenceNamesStep, StepsOfViewers, AppAssumption
<1> QED
  BY <1>1, <1>2, PTL DEF AppSpec, NamesStay

LEMMA ReferenceShapes == AppSpec => []Refs!TypeOK
<1>1. AppInit => RefsInv
  BY RefsStart, AppAssumption DEF AppInit
<1>2. RefsInv /\ [AppNext]_app => RefsInv'
  BY RefsNext, StepsOfViewers, AppAssumption
<1>3. RefsInv => Refs!TypeOK
  BY DEF RefsInv, Refs!TypeOK, SideSet, LabelSet, Heads, ColorSet, Places
<1> QED
  BY <1>1, <1>2, <1>3, PTL DEF AppSpec
=============================================================================
