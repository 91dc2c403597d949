---------------------------- MODULE PixelTiles ----------------------------
(* The values of an image's pixels under the pointer (src/webapp/src/       *)
(* image-viewer/pixelTiles.js): read by tiles, the latest MAX_TILES stay,   *)
(* and while a tile is read for the pointer only the last of those it went  *)
(* over since is read next.                                                 *)
EXTENDS Integers, FiniteSets, SequencesExt

CONSTANTS
    Tiles,          \* the tiles of the image
    MAX_TILES,
    MaxFetches      \* bound: the reads, each with its number

TilesAssumption == MAX_TILES \in Nat \ {0} /\ MaxFetches \in Nat

VARIABLES
    tiles,      \* the Map, the least recently used first
    fetched,    \* how many reads started
    inflight,   \* those without an answer
    latest,     \* what the pointer's slot waits for (0: an answered read), and its next tile
    pointer,    \* history: the last tile the pointer asked for
    evicted     \* history: it was read since, and evicted
vars == <<tiles, fetched, inflight, latest, pointer, evicted>>

Free == [busy |-> FALSE, read |-> 0, next |-> {}]

TypeOK ==
    /\ tiles \in Seq([key : Tiles, read : 1..MaxFetches, status : {"loading", "ready", "error"}, old : BOOLEAN])
    /\ fetched \in 0..MaxFetches /\ inflight \subseteq 1..fetched
    /\ latest \in [busy : BOOLEAN, read : 0..MaxFetches, next : SUBSET Tiles]
    /\ pointer \in SUBSET Tiles /\ evicted \in BOOLEAN

Init ==
    /\ tiles = <<>> /\ fetched = 0 /\ inflight = {}
    /\ latest = Free /\ pointer = {} /\ evicted = FALSE

Held == {tiles[i] : i \in DOMAIN tiles}
HeldKeys == {tile.key : tile \in Held}
(* Tiles that were not read are asked again after RETRY_AFTER_MS.          *)
Known(key) == \E tile \in Held : tile.key = key /\ (tile.status = "error" => ~tile.old)

Set(tile) ==
    IF tile.key \in HeldKeys
    THEN [i \in DOMAIN tiles |-> IF tiles[i].key = tile.key THEN tile ELSE tiles[i]]
    ELSE Append(tiles, tile)

(* evict(): the oldest go. Their reads are aborted, which ends them too.   *)
Kept(held) == SubSeq(held, IF Len(held) > MAX_TILES THEN Len(held) - MAX_TILES + 1 ELSE 1, Len(held))

(* fetchTile(): what the caller waits for is the tile's read.              *)
FetchTile(key) ==
    IF Known(key) THEN UNCHANGED <<tiles, fetched, inflight, evicted>>
    ELSE LET kept == Kept(Set([key |-> key, read |-> fetched + 1, status |-> "loading", old |-> FALSE])) IN
         /\ fetched < MaxFetches /\ fetched' = fetched + 1
         /\ inflight' = inflight \cup {fetched + 1}
         /\ tiles' = kept
         /\ evicted' = (evicted \/ (pointer \cap HeldKeys) \ {kept[i].key : i \in DOMAIN kept} # {})

ReadOf(key) == IF Known(key) THEN (CHOOSE tile \in Held : tile.key = key).read ELSE fetched + 1

(* request(): a region's tiles, here one by one.                           *)
Request(key) == FetchTile(key) /\ UNCHANGED <<latest, pointer>>

RequestLatestBug(key) ==            \* the first of those that wait is read next
    /\ pointer' = {key}
    /\ IF Known(key) THEN evicted' = FALSE /\ UNCHANGED <<tiles, fetched, inflight, latest>>
       ELSE IF latest.busy
       THEN /\ latest' = [latest EXCEPT !.next = IF @ = {} THEN {key} ELSE @]
            /\ evicted' = FALSE /\ UNCHANGED <<tiles, fetched, inflight>>
       ELSE FetchTile(key) /\ latest' = [busy |-> TRUE, read |-> ReadOf(key), next |-> {}]

RequestLatest(key) ==
    /\ pointer' = {key}
    /\ IF Known(key) THEN evicted' = FALSE /\ UNCHANGED <<tiles, fetched, inflight, latest>>
       ELSE IF latest.busy
       THEN /\ latest' = [latest EXCEPT !.next = {key}]
            /\ evicted' = FALSE /\ UNCHANGED <<tiles, fetched, inflight>>
       ELSE FetchTile(key) /\ latest' = [busy |-> TRUE, read |-> ReadOf(key), next |-> {}]

(* get(): a tile that was read becomes the most recently used.             *)
Get(key) ==
    /\ \E i \in DOMAIN tiles :
          /\ tiles[i].key = key /\ tiles[i].status = "ready"
          /\ tiles' = Append(RemoveAt(tiles, i), tiles[i])
    /\ UNCHANGED <<fetched, inflight, latest, pointer, evicted>>

(* A read ends: its tile, if it is still there, has values or an error.    *)
(* Only tiles that are gone (evicted, or disposed of) are aborted by this  *)
(* app: the branch that removes one on an AbortError is not reached.       *)
Answer(read) ==
    /\ read \in inflight /\ inflight' = inflight \ {read}
    /\ \E status \in {"ready", "error"} :
          tiles' = [i \in DOMAIN tiles |-> IF tiles[i].read = read THEN [tiles[i] EXCEPT !.status = status]
                                           ELSE tiles[i]]
    /\ UNCHANGED <<fetched, latest, pointer, evicted>>

(* What the pointer's slot waited for ended: the next one.                 *)
Finally ==
    /\ latest.busy /\ latest.read \notin inflight
    /\ IF latest.next = {} THEN latest' = Free /\ UNCHANGED <<tiles, fetched, inflight, evicted>>
       ELSE \E key \in latest.next :
              FetchTile(key) /\ latest' = [busy |-> TRUE, read |-> ReadOf(key), next |-> {}]
    /\ UNCHANGED pointer

RetryDelayEnds(key) ==
    /\ \E tile \in Held : tile.key = key /\ tile.status = "error" /\ ~tile.old
    /\ tiles' = [i \in DOMAIN tiles |-> IF tiles[i].key = key THEN [tiles[i] EXCEPT !.old = TRUE] ELSE tiles[i]]
    /\ UNCHANGED <<fetched, inflight, latest, pointer, evicted>>

Next ==
    \/ \E key \in Tiles : Request(key) \/ RequestLatest(key) \/ Get(key) \/ RetryDelayEnds(key)
    \/ \E read \in inflight : Answer(read)
    \/ Finally

Spec == Init /\ [][Next]_vars

-----------------------------------------------------------------------------
(* However the pointer moves while tiles are read, the tile it stops on is  *)
(* asked for: once the slot is free, it was read, or could not be, or is    *)
(* being read for somebody else (requestLatest's slot).                     *)
PointerIsServed == latest.busy \/ evicted \/ pointer \subseteq HeldKeys
=============================================================================
