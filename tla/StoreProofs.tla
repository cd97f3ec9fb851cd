---------------------------- MODULE StoreProofs ----------------------------
(***************************************************************************)
(* The order store, for every number and size of chunks, every set of      *)
(* levels and every quantity.                                              *)
(*                                                                         *)
(* The invariant names what the links of the chunks stand for: a sequence  *)
(* of chunks per level and one of the chunks to be reused.  What a level   *)
(* is asked for - its orders in the order they joined, its oldest one - is *)
(* then said of those sequences (Linked, Queued), and every call changes   *)
(* them in one place: a chunk joins the end of one, or leaves it.          *)
(***************************************************************************)
EXTENDS Store, InductionLemmas

Orders == [loc : Locs, qty : Nat \ {0}]

HeadOf(s) == IF s = <<>> THEN NIL ELSE s[1]
EndOf(s) == IF s = <<>> THEN NIL ELSE s[Len(s)]
Preceding(s, k) == IF k = 1 THEN NIL ELSE s[k - 1]
Following(s, k) == IF k = Len(s) THEN NIL ELSE s[k + 1]
Differ(s) == \A j, k \in DOMAIN s : s[j] = s[k] => j = k

----------------------------------------------------------------------------
(* The invariant.                                                          *)

FullSlots(ch) == {i \in SlotIds : ch.s[i] # 0}

\* The live slots of a chunk are counted, and between its cursor and its tail.
Counted(ch) ==
    /\ ch.live = Cardinality(FullSlots(ch))
    /\ \A i \in FullSlots(ch) : ch.head <= i /\ i < ch.tail

LiveSlots == {loc \in Locs : chunks[loc[1]].s[loc[2]] # 0}

CellsInv ==
    /\ chunks \in [ChunkIds -> Chunks]
    /\ \A c \in ChunkIds : Counted(chunks[c])
    /\ live = Cardinality(LiveSlots) /\ live <= MaxOrders

\* The links of level l are those of the sequence s of chunks in use.
Linked(l, s) ==
    /\ s \in Seq(ChunkIds) /\ Differ(s)
    /\ levels[l].head = HeadOf(s) /\ levels[l].tail = EndOf(s)
    /\ \A k \in DOMAIN s :
          /\ chunks[s[k]].level = l /\ chunks[s[k]].live # 0
          /\ chunks[s[k]].prev = Preceding(s, k)
          /\ chunks[s[k]].next = Following(s, k)

\* Those of the free list are those of s.
Spare(s) ==
    /\ s \in Seq(ChunkIds) /\ Differ(s)
    /\ freeChunk = HeadOf(s)
    /\ \A k \in DOMAIN s :
          /\ s[k] < used /\ chunks[s[k]].live = 0
          /\ chunks[s[k]].next = Following(s, k)

\* Every chunk handed out is in one of them, one with live orders in that of its
\* level.
LinksInv(lists, spare) ==
    /\ levels \in [Levels -> [head : MaybeChunk, tail : MaybeChunk]]
    /\ used \in 0 .. MaxOrders
    /\ DOMAIN lists = Levels /\ \A l \in Levels : Linked(l, lists[l])
    /\ Spare(spare)
    /\ \A c \in ChunkIds :
          IF chunks[c].live # 0
          THEN /\ c < used /\ chunks[c].level \in Levels
               /\ \E k \in DOMAIN lists[chunks[c].level] :
                     lists[chunks[c].level][k] = c
          ELSE c < used => \E k \in DOMAIN spare : spare[k] = c

\* Location a comes before location b in the chunks of s.
Before(s, a, b) ==
    \E j, k \in DOMAIN s :
       /\ s[j] = a[1] /\ s[k] = b[1]
       /\ j < k \/ (j = k /\ a[2] < b[2])

\* fifo[l] is what the slots of level l hold, in the order of its chunks.
Queued(l, s) ==
    /\ fifo[l] \in Seq(Orders)
    /\ \A n \in DOMAIN fifo[l] :
          LET loc == fifo[l][n].loc
          IN  /\ chunks[loc[1]].level = l
              /\ chunks[loc[1]].s[loc[2]] = fifo[l][n].qty
    /\ \A m, n \in DOMAIN fifo[l] :
          m < n => Before(s, fifo[l][m].loc, fifo[l][n].loc)

QueueInv(lists) ==
    /\ DOMAIN fifo = Levels
    /\ \A l \in Levels : Queued(l, lists[l])
    /\ \A c \in ChunkIds : \A i \in FullSlots(chunks[c]) :
          \E n \in DOMAIN fifo[chunks[c].level] :
             fifo[chunks[c].level][n].loc = <<c, i>>

StoreInv ==
    CellsInv /\ \E lists, spare : LinksInv(lists, spare) /\ QueueInv(lists)

----------------------------------------------------------------------------
(* One chunk.                                                              *)

LEMMA NilApart == NIL \notin ChunkIds
BY NilIsNoChunk, StoreShape DEF ChunkIds

LEMMA SlotsFinite ==
    ASSUME NEW ch
    PROVE  /\ FullSlots(ch) \subseteq SlotIds
           /\ IsFiniteSet(FullSlots(ch)) /\ Cardinality(FullSlots(ch)) \in Nat
           /\ Cardinality(FullSlots(ch)) <= ChunkSlots
           /\ Cardinality(FullSlots(ch)) = 0 <=> FullSlots(ch) = {}
<1>1. IsFiniteSet(SlotIds) /\ Cardinality(SlotIds) = ChunkSlots
  BY StoreShape, FS_Interval DEF SlotIds
<1>2. FullSlots(ch) \subseteq SlotIds
  BY DEF FullSlots
<1>3. /\ IsFiniteSet(FullSlots(ch))
      /\ Cardinality(FullSlots(ch)) <= Cardinality(SlotIds)
  BY <1>1, <1>2, FS_Subset
<1> QED  BY <1>1, <1>2, <1>3, FS_CardinalityType, FS_EmptySet

\* A chunk counts its orders, so an empty one is one without.
LEMMA EmptyChunk ==
    ASSUME NEW ch \in Chunks, Counted(ch)
    PROVE  ch.live = 0 <=> FullSlots(ch) = {}
BY SlotsFinite DEF Counted

\* Slot i of ch dies, and the cursor may move up to the next live one.
Dies(ch, i, ch2) ==
    /\ ch2 \in Chunks
    /\ ch2.level = ch.level /\ ch2.prev = ch.prev /\ ch2.next = ch.next
    /\ ch2.tail = ch.tail /\ ch2.live = ch.live - 1
    /\ ch2.s = [ch.s EXCEPT ![i] = 0]
    /\ \A j \in FullSlots(ch) \ {i} : ch2.head <= j

LEMMA DiesCounted ==
    ASSUME NEW ch \in Chunks, Counted(ch), NEW i \in FullSlots(ch), NEW ch2,
           Dies(ch, i, ch2)
    PROVE  Counted(ch2) /\ FullSlots(ch2) = FullSlots(ch) \ {i}
<1>1. FullSlots(ch2) = FullSlots(ch) \ {i}
  BY DEF FullSlots, Dies, Chunks
<1>2. Cardinality(FullSlots(ch) \ {i}) = Cardinality(FullSlots(ch)) - 1
  BY SlotsFinite, FS_RemoveElement
<1> QED  BY <1>1, <1>2 DEF Counted, Dies

\* Slot i of ch, the first behind the tail, takes an order.
Takes(ch, i, q, ch2) ==
    /\ ch2 \in Chunks
    /\ i = ch.tail /\ ch2.tail = i + 1
    /\ ch2.head = ch.head /\ ch2.head <= i
    /\ ch2.live = ch.live + 1 /\ ch2.s = [ch.s EXCEPT ![i] = q]

LEMMA TakesCounted ==
    ASSUME NEW ch \in Chunks, Counted(ch), NEW i \in SlotIds, NEW q \in Nat \ {0},
           NEW ch2, Takes(ch, i, q, ch2)
    PROVE  /\ Counted(ch2) /\ FullSlots(ch2) = FullSlots(ch) \cup {i}
           /\ i \notin FullSlots(ch)
<1>1. i \notin FullSlots(ch) /\ \A j \in FullSlots(ch) : j < i
  BY SlotsFinite, StoreShape DEF Counted, Takes, SlotIds
<1>2. FullSlots(ch2) = FullSlots(ch) \cup {i}
  BY DEF FullSlots, Takes, Chunks
<1>3. Cardinality(FullSlots(ch) \cup {i}) = Cardinality(FullSlots(ch)) + 1
  BY <1>1, SlotsFinite, FS_AddElement
<1> QED  BY <1>1, <1>2, <1>3, SlotsFinite, StoreShape DEF Counted, Takes, SlotIds

----------------------------------------------------------------------------
(* All chunks.                                                             *)

\* The same slots, whatever the links.
SameCells(ch, ch2) ==
    /\ ch2.s = ch.s /\ ch2.head = ch.head /\ ch2.tail = ch.tail
    /\ ch2.live = ch.live

LEMMA SameCounted ==
    ASSUME NEW ch, NEW ch2, SameCells(ch, ch2), Counted(ch)
    PROVE  Counted(ch2) /\ FullSlots(ch2) = FullSlots(ch)
BY DEF SameCells, Counted, FullSlots

LEMMA LocsFinite ==
    IsFiniteSet(Locs) /\ IsFiniteSet(ChunkIds) /\ IsFiniteSet(LiveSlots)
<1>1. IsFiniteSet(ChunkIds) /\ IsFiniteSet(SlotIds)
  BY StoreShape, FS_Interval DEF ChunkIds, SlotIds
<1>2. IsFiniteSet(Locs)
  BY <1>1, FS_Product DEF Locs
<1> QED  BY <1>1, <1>2, FS_Subset DEF LiveSlots

LEMMA LiveSlotIs ==
    ASSUME NEW c \in ChunkIds, NEW i \in SlotIds
    PROVE  <<c, i>> \in LiveSlots <=> i \in FullSlots(chunks[c])
BY DEF LiveSlots, FullSlots, Locs

\* An order of chunk c dies.
LEMMA CellsDie ==
    ASSUME CellsInv, NEW c \in ChunkIds, NEW i \in FullSlots(chunks[c]), NEW ch,
           Dies(chunks[c], i, ch), chunks' \in [ChunkIds -> Chunks],
           SameCells(ch, chunks'[c]),
           \A b \in ChunkIds \ {c} : SameCells(chunks[b], chunks'[b]),
           live' = live - 1
    PROVE  CellsInv'
<1>1. Counted(ch) /\ FullSlots(ch) = FullSlots(chunks[c]) \ {i}
  BY DiesCounted DEF CellsInv
<1>2. Counted(chunks'[c]) /\ FullSlots(chunks'[c]) = FullSlots(chunks[c]) \ {i}
  BY <1>1, SameCounted
<1>3. \A b \in ChunkIds \ {c} :
         Counted(chunks'[b]) /\ FullSlots(chunks'[b]) = FullSlots(chunks[b])
  BY SameCounted DEF CellsInv
<1>4. i \in SlotIds /\ <<c, i>> \in LiveSlots
  BY LiveSlotIs DEF FullSlots
<1>5. LiveSlots' = LiveSlots \ {<<c, i>>}
  BY <1>2, <1>3, <1>4 DEF LiveSlots, FullSlots, Locs
<1>6. Cardinality(LiveSlots') = Cardinality(LiveSlots) - 1
  BY <1>4, <1>5, LocsFinite, FS_RemoveElement
<1>7. Cardinality(LiveSlots) \in Nat
  BY LocsFinite, FS_CardinalityType
<1> QED  BY <1>2, <1>3, <1>6, <1>7, StoreShape DEF CellsInv

\* An order joins chunk c, whose slots may have been cleared into ch before.
LEMMA CellsTake ==
    ASSUME CellsInv, NEW c \in ChunkIds, NEW ch \in Chunks, Counted(ch),
           FullSlots(ch) = FullSlots(chunks[c]),
           NEW i \in SlotIds, NEW q \in Nat \ {0}, NEW ch2, Takes(ch, i, q, ch2),
           chunks' \in [ChunkIds -> Chunks], SameCells(ch2, chunks'[c]),
           \A b \in ChunkIds \ {c} : SameCells(chunks[b], chunks'[b]),
           live < MaxOrders, live' = live + 1
    PROVE  CellsInv'
<1>1. /\ Counted(ch2) /\ FullSlots(ch2) = FullSlots(chunks[c]) \cup {i}
      /\ i \notin FullSlots(chunks[c])
  BY TakesCounted
<1>2. /\ Counted(chunks'[c])
      /\ FullSlots(chunks'[c]) = FullSlots(chunks[c]) \cup {i}
  BY <1>1, SameCounted
<1>3. \A b \in ChunkIds \ {c} :
         Counted(chunks'[b]) /\ FullSlots(chunks'[b]) = FullSlots(chunks[b])
  BY SameCounted DEF CellsInv
<1>4. <<c, i>> \notin LiveSlots
  BY <1>1, LiveSlotIs
<1>5. LiveSlots' = LiveSlots \cup {<<c, i>>}
  BY <1>2, <1>3, <1>4 DEF LiveSlots, FullSlots, Locs
<1>6. Cardinality(LiveSlots') = Cardinality(LiveSlots) + 1
  BY <1>4, <1>5, LocsFinite, FS_AddElement
<1>7. Cardinality(LiveSlots) \in Nat
  BY LocsFinite, FS_CardinalityType
<1> QED  BY <1>2, <1>3, <1>6, <1>7, StoreShape DEF CellsInv

\* An order of chunk c changes its quantity, and the cursor may move up.
Resizes(ch, i, q, ch2) ==
    /\ ch2 \in Chunks
    /\ ch2.level = ch.level /\ ch2.prev = ch.prev /\ ch2.next = ch.next
    /\ ch2.tail = ch.tail /\ ch2.live = ch.live
    /\ ch2.s = [ch.s EXCEPT ![i] = q]
    /\ \A j \in FullSlots(ch) : ch2.head <= j

LEMMA CellsResize ==
    ASSUME CellsInv, NEW c \in ChunkIds, NEW i \in FullSlots(chunks[c]),
           NEW q \in Nat \ {0}, NEW ch, Resizes(chunks[c], i, q, ch),
           chunks' = [chunks EXCEPT ![c] = ch], live' = live
    PROVE  CellsInv'
<1>1. chunks[c] \in Chunks /\ Counted(chunks[c])
  BY DEF CellsInv
<1>2. FullSlots(ch) = FullSlots(chunks[c])
  BY <1>1 DEF FullSlots, Resizes, Chunks
<1>3. Counted(ch)
  BY <1>1, <1>2 DEF Counted, Resizes
<1>4. \A b \in ChunkIds : FullSlots(chunks'[b]) = FullSlots(chunks[b])
  BY <1>2 DEF CellsInv
<1>5. LiveSlots' = LiveSlots
  BY <1>4 DEF LiveSlots, FullSlots, Locs
<1>6. chunks' \in [ChunkIds -> Chunks]
  BY DEF CellsInv, Resizes
<1>7. \A b \in ChunkIds : Counted(chunks'[b])
  BY <1>3 DEF CellsInv
<1> QED  BY <1>5, <1>6, <1>7 DEF CellsInv

----------------------------------------------------------------------------
(* The links.                                                              *)

\* The same links, and empty or not as before.
SameLinks(ch, ch2) ==
    /\ ch2.level = ch.level /\ ch2.prev = ch.prev /\ ch2.next = ch.next
    /\ ch2.live = 0 <=> ch.live = 0

LEMMA LinksKeep ==
    ASSUME NEW lists, NEW spare, LinksInv(lists, spare),
           \A c \in ChunkIds : SameLinks(chunks[c], chunks'[c]),
           UNCHANGED <<levels, freeChunk, used>>
    PROVE  LinksInv(lists, spare)'
<1>1. \A l \in Levels : Linked(l, lists[l])'
  <2> SUFFICES ASSUME NEW l \in Levels PROVE Linked(l, lists[l])'
    OBVIOUS
  <2>1. Linked(l, lists[l])
    BY DEF LinksInv
  <2>2. \A k \in DOMAIN lists[l] : lists[l][k] \in ChunkIds
    BY <2>1 DEF Linked
  <2> QED  BY <2>1, <2>2 DEF Linked, SameLinks
<1>2. Spare(spare)'
  <2>1. Spare(spare)
    BY DEF LinksInv
  <2>2. \A k \in DOMAIN spare : spare[k] \in ChunkIds
    BY <2>1 DEF Spare
  <2> QED  BY <2>1, <2>2 DEF Spare, SameLinks
<1> QED  BY <1>1, <1>2 DEF LinksInv, SameLinks

\* A chunk with live orders has its place in the list of its level, and only
\* there.
LEMMA PlaceOf ==
    ASSUME NEW lists, NEW spare, LinksInv(lists, spare), NEW c \in ChunkIds,
           chunks[c].live # 0
    PROVE  /\ chunks[c].level \in Levels /\ c < used
           /\ \E k \in DOMAIN lists[chunks[c].level] :
                 lists[chunks[c].level][k] = c
BY DEF LinksInv

\* What drop_chunk() makes of the links of the other chunks.
LEMMA Relinked ==
    ASSUME NEW l \in Levels, NEW s, Linked(l, s), NEW k \in DOMAIN s,
           chunks \in [ChunkIds -> Chunks], NEW ch,
           ch.prev = chunks[s[k]].prev, ch.next = chunks[s[k]].next,
           chunks' = Relink(l, s[k], ch)
    PROVE  /\ \A j \in DOMAIN s \ {k} :
                 /\ chunks'[s[j]].level = l /\ chunks'[s[j]].live # 0
                 /\ chunks'[s[j]].prev = IF j = k + 1 THEN Preceding(s, k)
                                         ELSE Preceding(s, j)
                 /\ chunks'[s[j]].next = IF j = k - 1 THEN Following(s, k)
                                         ELSE Following(s, j)
           /\ \A b \in ChunkIds : (\A j \in DOMAIN s : s[j] # b) =>
                 chunks'[b] = chunks[b]
<1> DEFINE p == Preceding(s, k)
           n == Following(s, k)
<1>1. /\ s \in Seq(ChunkIds) /\ Len(s) \in Nat /\ DOMAIN s = 1 .. Len(s)
      /\ Differ(s) /\ \A j \in DOMAIN s : s[j] \in ChunkIds
  BY DEF Linked
<1>2. ch.prev = p /\ ch.next = n
  BY DEF Linked
<1>3. \A j \in DOMAIN s : s[j] = p <=> j = k - 1
  BY <1>1, NilApart DEF Preceding, Differ
<1>4. \A j \in DOMAIN s : s[j] = n <=> j = k + 1
  BY <1>1, NilApart DEF Following, Differ
<1>5. \A b \in ChunkIds : b = p \/ b = n => \E j \in DOMAIN s : s[j] = b
  BY <1>1, NilApart DEF Preceding, Following
<1>6. \A b \in ChunkIds \ {s[k]} :
         chunks'[b] = IF b = p THEN [chunks[b] EXCEPT !.next = n]
                      ELSE IF b = n THEN [chunks[b] EXCEPT !.prev = p]
                      ELSE chunks[b]
  BY <1>2 DEF Relink
<1>7. \A j \in DOMAIN s \ {k} : s[j] # s[k]
  BY <1>1 DEF Differ
<1>8. ASSUME NEW j \in DOMAIN s \ {k}
      PROVE  /\ chunks'[s[j]].level = l /\ chunks'[s[j]].live # 0
             /\ chunks'[s[j]].prev = IF j = k + 1 THEN p ELSE Preceding(s, j)
             /\ chunks'[s[j]].next = IF j = k - 1 THEN n ELSE Following(s, j)
  <2>1. /\ chunks[s[j]].level = l /\ chunks[s[j]].live # 0
        /\ chunks[s[j]].prev = Preceding(s, j)
        /\ chunks[s[j]].next = Following(s, j)
    BY DEF Linked
  <2>2. chunks[s[j]] \in Chunks /\ s[j] \in ChunkIds \ {s[k]}
    BY <1>1, <1>7
  <2>3. CASE j = k - 1
    <3>1. chunks'[s[j]] = [chunks[s[j]] EXCEPT !.next = n]
      BY <1>3, <1>6, <2>2, <2>3
    <3> QED  BY <1>1, <2>1, <2>2, <2>3, <3>1 DEF Chunks
  <2>4. CASE j = k + 1
    <3>1. s[j] = n /\ s[j] # p
      BY <1>1, <1>3, <1>4, <2>4
    <3>2. chunks'[s[j]] = [chunks[s[j]] EXCEPT !.prev = p]
      BY <1>6, <2>2, <3>1
    <3> QED  BY <1>1, <2>1, <2>2, <2>4, <3>2 DEF Chunks
  <2>5. CASE j # k - 1 /\ j # k + 1
    <3>1. chunks'[s[j]] = chunks[s[j]]
      BY <1>3, <1>4, <1>6, <2>2, <2>5
    <3> QED  BY <2>1, <2>5, <3>1
  <2> QED  BY <2>3, <2>4, <2>5
<1>9. \A b \in ChunkIds : (\A j \in DOMAIN s : s[j] # b) =>
         chunks'[b] = chunks[b]
  BY <1>5, <1>6
<1> QED  BY <1>8, <1>9

LEMMA EndsType ==
    ASSUME levels \in [Levels -> [head : MaybeChunk, tail : MaybeChunk]],
           NEW l \in Levels, NEW h \in MaybeChunk, NEW t \in MaybeChunk,
           levels' = [levels EXCEPT ![l].head = h, ![l].tail = t]
    PROVE  levels' \in [Levels -> [head : MaybeChunk, tail : MaybeChunk]]
OBVIOUS

\* The list without its k-th chunk.
LEMMA DroppedIsLinked ==
    ASSUME NEW l \in Levels, NEW s, Linked(l, s), NEW k \in DOMAIN s,
           chunks \in [ChunkIds -> Chunks], NEW ch,
           levels \in [Levels -> [head : MaybeChunk, tail : MaybeChunk]],
           ch.prev = chunks[s[k]].prev, ch.next = chunks[s[k]].next,
           chunks' = Relink(l, s[k], ch), levels' = EndsMoved(l, ch),
           NEW t \in Seq(ChunkIds), Drops(s, t, k)
    PROVE  Linked(l, t)'
<1>1. /\ s \in Seq(ChunkIds) /\ Len(s) \in Nat /\ DOMAIN s = 1 .. Len(s)
      /\ Differ(s)
  BY DEF Linked
<1>2. /\ Len(t) = Len(s) - 1 /\ DOMAIN t = 1 .. (Len(s) - 1)
      /\ \A j \in DOMAIN t : t[j] = IF j < k THEN s[j] ELSE s[j + 1]
  BY <1>1 DEF Drops
<1>3. Differ(t)
  <2> SUFFICES ASSUME NEW i \in DOMAIN t, NEW j \in DOMAIN t, t[i] = t[j]
               PROVE  i = j
    BY DEF Differ
  <2>1. \A a, b \in 1 .. Len(s) : s[a] = s[b] => a = b
    BY <1>1 DEF Differ
  <2> QED  BY <1>1, <1>2, <2>1, DropsOnce
<1>4. \A j \in DOMAIN s \ {k} :
         /\ chunks'[s[j]].level = l /\ chunks'[s[j]].live # 0
         /\ chunks'[s[j]].prev = IF j = k + 1 THEN Preceding(s, k)
                                 ELSE Preceding(s, j)
         /\ chunks'[s[j]].next = IF j = k - 1 THEN Following(s, k)
                                 ELSE Following(s, j)
  BY Relinked
<1>5. ASSUME NEW j \in DOMAIN t
      PROVE  /\ chunks'[t[j]].level = l /\ chunks'[t[j]].live # 0
             /\ chunks'[t[j]].prev = Preceding(t, j)
             /\ chunks'[t[j]].next = Following(t, j)
  <2>1. CASE j < k
    <3>1. j \in DOMAIN s \ {k} /\ t[j] = s[j] /\ j # k + 1
      BY <1>1, <1>2, <2>1
    <3>2. Preceding(t, j) = Preceding(s, j)
      BY <1>1, <1>2, <2>1 DEF Preceding
    <3>3. Following(t, j) = IF j = k - 1 THEN Following(s, k) ELSE Following(s, j)
      BY <1>1, <1>2, <2>1 DEF Following
    <3> QED  BY <1>4, <3>1, <3>2, <3>3
  <2>2. CASE ~(j < k)
    <3>1. PICK m : m = j + 1
      OBVIOUS
    <3>2. m \in DOMAIN s \ {k} /\ t[j] = s[m] /\ m # k - 1
      BY <1>1, <1>2, <2>2, <3>1
    <3>3. Preceding(t, j) = IF m = k + 1 THEN Preceding(s, k) ELSE Preceding(s, m)
      <4>1. CASE j = k
        BY <1>1, <1>2, <3>1, <4>1 DEF Preceding
      <4>2. CASE j # k
        <5>1. j - 1 \in DOMAIN t /\ ~(j - 1 < k) /\ j # 1
          BY <1>1, <1>2, <2>2, <4>2
        <5>2. t[j - 1] = s[j]
          BY <1>1, <1>2, <5>1
        <5>3. m # 1 /\ m - 1 = j /\ m # k + 1
          BY <1>1, <1>2, <2>2, <3>1, <4>2
        <5> QED  BY <5>1, <5>2, <5>3 DEF Preceding
      <4> QED  BY <4>1, <4>2
    <3>4. Following(t, j) = Following(s, m)
      BY <1>1, <1>2, <2>2, <3>1 DEF Following
    <3> QED  BY <1>4, <3>2, <3>3, <3>4
  <2> QED  BY <2>1, <2>2
<1>6. ch.prev = Preceding(s, k) /\ ch.next = Following(s, k)
  BY DEF Linked
<1>7. Preceding(s, k) = NIL <=> k = 1
  BY <1>1, NilApart DEF Preceding
<1>8. Following(s, k) = NIL <=> k = Len(s)
  BY <1>1, NilApart DEF Following
<1>9. /\ levels'[l].head = IF k = 1 THEN Following(s, k) ELSE HeadOf(s)
      /\ levels'[l].tail = IF k = Len(s) THEN Preceding(s, k) ELSE EndOf(s)
  BY <1>6, <1>7, <1>8 DEF EndsMoved, Linked
<1>10. t = <<>> <=> Len(s) = 1
  BY <1>2
<1>11. HeadOf(t) = IF k = 1 THEN Following(s, k) ELSE HeadOf(s)
  <2>1. CASE Len(s) = 1
    BY <1>1, <1>10, <2>1 DEF HeadOf, Following
  <2>2. CASE Len(s) # 1
    <3>1. 1 \in DOMAIN t /\ s # <<>> /\ t # <<>>
      BY <1>1, <1>2, <2>2
    <3> QED  BY <1>1, <1>2, <2>2, <3>1, SMTT(30) DEF HeadOf, Following
  <2> QED  BY <2>1, <2>2
<1>12. EndOf(t) = IF k = Len(s) THEN Preceding(s, k) ELSE EndOf(s)
  <2>1. CASE Len(s) = 1
    BY <1>1, <1>10, <2>1 DEF EndOf, Preceding
  <2>2. CASE Len(s) # 1
    <3>1. Len(t) \in DOMAIN t /\ s # <<>> /\ t # <<>>
      BY <1>1, <1>2, <2>2
    <3> QED  BY <1>1, <1>2, <2>2, <3>1 DEF EndOf, Preceding
  <2> QED  BY <2>1, <2>2
<1> QED  BY <1>3, <1>5, <1>9, <1>11, <1>12 DEF Linked

\* One chunk more at the front of a sequence.
LEMMA InFront ==
    ASSUME NEW s \in Seq(ChunkIds), NEW c \in ChunkIds
    PROVE  /\ <<c>> \o s \in Seq(ChunkIds) /\ Len(<<c>> \o s) = Len(s) + 1
           /\ (<<c>> \o s)[1] = c
           /\ \A k \in 1 .. Len(s) : (<<c>> \o s)[k + 1] = s[k]
OBVIOUS

\* The free list when chunk c, which was in use, is dropped.
LEMMA DroppedIsSpare ==
    ASSUME NEW s, Spare(s), NEW c \in ChunkIds, c < used, NEW ch,
           chunks \in [ChunkIds -> Chunks], chunks[c].live # 0, ch.live = 0,
           ch \in Chunks, chunks'[c] = [ch EXCEPT !.next = freeChunk],
           \A b \in ChunkIds : chunks[b].live = 0 => chunks'[b] = chunks[b],
           freeChunk' = c, used' = used
    PROVE  Spare(<<c>> \o s)'
<1> DEFINE t == <<c>> \o s
<1>1. s \in Seq(ChunkIds) /\ Len(s) \in Nat /\ DOMAIN s = 1 .. Len(s)
  BY DEF Spare
<1>2. /\ t \in Seq(ChunkIds) /\ Len(t) = Len(s) + 1 /\ DOMAIN t = 1 .. (Len(s) + 1)
      /\ t[1] = c /\ \A k \in 1 .. Len(s) : t[k + 1] = s[k]
  BY <1>1, InFront
<1> HIDE DEF t
<1>3. \A k \in DOMAIN s : s[k] # c /\ chunks'[s[k]] = chunks[s[k]]
  BY <1>1 DEF Spare
<1>4. \A j \in DOMAIN t : j # 1 => \E k \in DOMAIN s : j = k + 1 /\ t[j] = s[k]
  <2> SUFFICES ASSUME NEW j \in DOMAIN t, j # 1
               PROVE  \E k \in DOMAIN s : j = k + 1 /\ t[j] = s[k]
    OBVIOUS
  <2>1. j - 1 \in DOMAIN s /\ j = (j - 1) + 1
    BY <1>1, <1>2
  <2> QED  BY <1>1, <1>2, <2>1
<1>5. Differ(t)
  <2> SUFFICES ASSUME NEW i \in DOMAIN t, NEW j \in DOMAIN t, t[i] = t[j]
               PROVE  i = j
    BY DEF Differ
  <2>1. Differ(s)
    BY DEF Spare
  <2> QED  BY <1>2, <1>3, <1>4, <2>1 DEF Differ
<1>6. t # <<>> /\ HeadOf(t) = c
  BY <1>2 DEF HeadOf
<1>7. ASSUME NEW j \in DOMAIN t
      PROVE  /\ t[j] < used /\ chunks'[t[j]].live = 0
             /\ chunks'[t[j]].next = Following(t, j)
  <2>1. CASE j = 1
    <3>1. chunks'[c].live = 0 /\ chunks'[c].next = HeadOf(s)
      BY DEF Spare, Chunks
    <3>2. Following(t, j) = HeadOf(s)
      <4>1. CASE s = <<>>
        BY <1>2, <2>1, <4>1 DEF Following, HeadOf
      <4>2. CASE s # <<>>
        BY <1>1, <1>2, <2>1, <4>2 DEF Following, HeadOf
      <4> QED  BY <4>1, <4>2
    <3> QED  BY <1>2, <2>1, <3>1, <3>2
  <2>2. CASE j # 1
    <3>1. PICK k \in DOMAIN s : j = k + 1 /\ t[j] = s[k]
      BY <1>4, <2>2
    <3>2. Following(t, j) = Following(s, k)
      BY <1>1, <1>2, <3>1 DEF Following
    <3>3. s[k] < used /\ chunks[s[k]].live = 0 /\ chunks[s[k]].next = Following(s, k)
      BY DEF Spare
    <3> QED  BY <1>3, <3>1, <3>2, <3>3
  <2> QED  BY <2>1, <2>2
<1> QED  BY <1>2, <1>5, <1>6, <1>7 DEF Spare, t

\* Chunk c of level l, its k-th, is dropped: the links of every level and of
\* the free list.
LEMMA LinksDrop ==
    ASSUME NEW lists, NEW spare, LinksInv(lists, spare), NEW l \in Levels,
           NEW k \in DOMAIN lists[l], NEW c \in ChunkIds, c = lists[l][k],
           chunks \in [ChunkIds -> Chunks], NEW ch \in Chunks, ch.live = 0,
           ch.prev = chunks[c].prev, ch.next = chunks[c].next,
           chunks' = Relink(l, c, ch), levels' = EndsMoved(l, ch),
           freeChunk' = FreeListWith(c), used' = used,
           NEW lists2, DOMAIN lists2 = Levels,
           \A m \in Levels \ {l} : lists2[m] = lists[m],
           lists2[l] \in Seq(ChunkIds), Drops(lists[l], lists2[l], k)
    PROVE  LinksInv(lists2, <<c>> \o spare)'
<1>1. /\ Linked(l, lists[l]) /\ Spare(spare)
      /\ levels \in [Levels -> [head : MaybeChunk, tail : MaybeChunk]]
      /\ used \in 0 .. MaxOrders
  BY DEF LinksInv
<1>2. /\ chunks[c].live # 0 /\ chunks[c].level = l /\ c < used
      /\ \A j \in DOMAIN lists[l] : chunks[lists[l][j]].level = l
                                    /\ chunks[lists[l][j]].live # 0
      /\ lists[l] \in Seq(ChunkIds)
  <2>1. \A j \in DOMAIN lists[l] : chunks[lists[l][j]].level = l
                                    /\ chunks[lists[l][j]].live # 0
    BY <1>1 DEF Linked
  <2>2. chunks[c].live # 0 /\ chunks[c].level = l
    BY <2>1
  <2>3. lists[l] \in Seq(ChunkIds)
    BY <1>1 DEF Linked
  <2> QED  BY <2>1, <2>2, <2>3, PlaceOf
<1>3. \A b \in ChunkIds : chunks[b].level # l \/ chunks[b].live = 0 =>
         chunks'[b] = chunks[b]
  BY <1>1, <1>2, Relinked
<1>4. \A b \in ChunkIds \ {c} : chunks[b].level = l /\ chunks[b].live # 0 =>
         chunks'[b].level = l /\ chunks'[b].live # 0
  <2> SUFFICES ASSUME NEW b \in ChunkIds \ {c}, chunks[b].level = l,
                      chunks[b].live # 0
               PROVE  chunks'[b].level = l /\ chunks'[b].live # 0
    OBVIOUS
  <2>1. PICK j \in DOMAIN lists[l] : lists[l][j] = b
    BY PlaceOf
  <2>2. j # k
    BY <2>1
  <2> QED  BY <1>1, <2>1, <2>2, Relinked
<1>5. chunks'[c] = [ch EXCEPT !.next = freeChunk]
  BY DEF Relink
<1>6. ASSUME NEW m \in Levels PROVE Linked(m, lists2[m])'
  <2>1. CASE m = l
    BY <1>1, <2>1, DroppedIsLinked
  <2>2. CASE m # l
    <3>1. Linked(m, lists[m]) /\ lists2[m] = lists[m] /\ levels'[m] = levels[m]
      BY <1>1, <2>2 DEF LinksInv, EndsMoved
    <3>2. \A j \in DOMAIN lists[m] : chunks'[lists[m][j]] = chunks[lists[m][j]]
      <4> SUFFICES ASSUME NEW j \in DOMAIN lists[m]
                   PROVE  chunks'[lists[m][j]] = chunks[lists[m][j]]
        OBVIOUS
      <4>1. lists[m][j] \in ChunkIds /\ chunks[lists[m][j]].level = m
        BY <3>1 DEF Linked
      <4> QED  BY <1>3, <2>2, <4>1
    <3> QED  BY <3>1, <3>2 DEF Linked
  <2> QED  BY <2>1, <2>2
<1>7. Spare(<<c>> \o spare)'
  <2>1. \A b \in ChunkIds : chunks[b].live = 0 => chunks'[b] = chunks[b]
    BY <1>3
  <2> QED  BY <1>1, <1>2, <1>5, <2>1, DroppedIsSpare DEF FreeListWith
<1>8. levels' \in [Levels -> [head : MaybeChunk, tail : MaybeChunk]]
  <2>1. ch.prev \in MaybeChunk /\ ch.next \in MaybeChunk
    BY DEF Chunks
  <2>2. PICK h, t : /\ h \in MaybeChunk /\ t \in MaybeChunk
                    /\ levels' = [levels EXCEPT ![l].head = h, ![l].tail = t]
    <3>1. IF ch.prev = NIL THEN ch.next \in MaybeChunk
          ELSE levels[l].head \in MaybeChunk
      BY <1>1, <2>1
    <3>2. IF ch.next = NIL THEN ch.prev \in MaybeChunk
          ELSE levels[l].tail \in MaybeChunk
      BY <1>1, <2>1
    <3> QED  BY <3>1, <3>2 DEF EndsMoved
  <2> QED  BY <1>1, <2>2, ZenonT(30)
<1>9. ASSUME NEW b \in ChunkIds
      PROVE  IF chunks'[b].live # 0
             THEN /\ b < used /\ chunks'[b].level \in Levels
                  /\ \E j \in DOMAIN lists2[chunks'[b].level] :
                        lists2[chunks'[b].level][j] = b
             ELSE b < used => \E j \in DOMAIN (<<c>> \o spare) :
                                 (<<c>> \o spare)[j] = b
  <2>1. spare \in Seq(ChunkIds)
    BY <1>1 DEF Spare
  <2>2. CASE b = c
    <3>1. chunks'[b].live = 0
      BY <1>5, <2>2 DEF Chunks
    <3>2. 1 \in DOMAIN (<<c>> \o spare) /\ (<<c>> \o spare)[1] = c
      BY <2>1, InFront
    <3> QED  BY <2>2, <3>1, <3>2
  <2>3. CASE b # c /\ chunks[b].live = 0
    <3>1. chunks'[b].live = 0
      BY <1>3, <2>3
    <3>2. b < used => \E j \in DOMAIN spare : spare[j] = b
      BY <2>3 DEF LinksInv
    <3>3. \A j \in DOMAIN spare : /\ j + 1 \in DOMAIN (<<c>> \o spare)
                                  /\ (<<c>> \o spare)[j + 1] = spare[j]
      BY <2>1, InFront
    <3> QED  BY <3>1, <3>2, <3>3
  <2>4. CASE b # c /\ chunks[b].live # 0 /\ chunks[b].level # l
    <3>1. chunks'[b] = chunks[b]
      BY <1>3, <2>4
    <3> QED  BY <2>4, <3>1, PlaceOf
  <2>5. CASE b # c /\ chunks[b].live # 0 /\ chunks[b].level = l
    <3>1. PICK j \in DOMAIN lists[l] : lists[l][j] = b
      BY <2>5, PlaceOf
    <3>2. /\ j # k /\ Len(lists[l]) \in Nat
          /\ j \in 1 .. Len(lists[l]) /\ k \in 1 .. Len(lists[l])
          /\ DOMAIN lists2[l] = 1 .. Len(lists2[l])
      BY <1>2, <2>5, <3>1
    <3>3. \E i \in DOMAIN lists2[l] : lists2[l][i] = lists[l][j]
      BY <3>2, DropsKeeps
    <3> QED  BY <1>4, <2>5, <3>1, <3>3, PlaceOf
  <2> QED  BY <2>2, <2>3, <2>4, <2>5
<1> QED  BY <1>1, <1>6, <1>7, <1>8, <1>9 DEF LinksInv

\* The chunks in use.
InUse == {c \in ChunkIds : chunks[c].live # 0}

\* "chunks in use <= live orders" (internals.hpp:66): each has a live slot.
LEMMA FewInUse ==
    ASSUME CellsInv
    PROVE  /\ IsFiniteSet(InUse) /\ Cardinality(InUse) \in Nat
           /\ Cardinality(InUse) <= live
<1> DEFINE f == [loc \in LiveSlots |-> loc[1]]
<1>1. \A loc \in LiveSlots : loc[1] \in InUse
  <2> SUFFICES ASSUME NEW loc \in LiveSlots PROVE loc[1] \in InUse
    OBVIOUS
  <2>1. loc[1] \in ChunkIds /\ loc[2] \in FullSlots(chunks[loc[1]])
    BY DEF LiveSlots, Locs, FullSlots
  <2>2. chunks[loc[1]] \in Chunks /\ Counted(chunks[loc[1]])
    BY <2>1 DEF CellsInv
  <2> QED  BY <2>1, <2>2, EmptyChunk DEF InUse
<1>2. \A c \in InUse : \E loc \in LiveSlots : loc[1] = c
  <2> SUFFICES ASSUME NEW c \in InUse PROVE \E loc \in LiveSlots : loc[1] = c
    OBVIOUS
  <2>1. c \in ChunkIds /\ chunks[c] \in Chunks /\ Counted(chunks[c])
    BY DEF CellsInv, InUse
  <2>2. FullSlots(chunks[c]) # {}
    BY <2>1, EmptyChunk DEF InUse
  <2>3. PICK i : i \in FullSlots(chunks[c])
    BY <2>2
  <2>4. <<c, i>> \in LiveSlots
    BY <2>1, <2>3, LiveSlotIs DEF FullSlots
  <2> QED  BY <2>4
<1>3. f \in Surjection(LiveSlots, InUse)
  BY <1>1, <1>2 DEF Surjection
<1>4. /\ IsFiniteSet(InUse)
      /\ Cardinality(InUse) <= Cardinality(LiveSlots)
  BY <1>3, LocsFinite, FS_Surjection
<1> QED  BY <1>4, FS_CardinalityType DEF CellsInv

\* So there is a chunk left while an order may join.
LEMMA RoomForChunk ==
    ASSUME CellsInv, NEW lists, NEW spare, LinksInv(lists, spare),
           live < MaxOrders, freeChunk = NIL
    PROVE  used < MaxOrders
<1>1. Spare(spare) /\ used \in 0 .. MaxOrders
  BY DEF LinksInv
<1>2. spare = <<>>
  BY <1>1, NilApart DEF Spare, HeadOf
<1>3. 0 .. (used - 1) \subseteq InUse
  <2>1. \A c \in 0 .. (used - 1) : c \in ChunkIds /\ c < used
    BY <1>1, StoreShape DEF ChunkIds
  <2> QED  BY <1>2, <2>1 DEF LinksInv, InUse
<1>4. Cardinality(0 .. (used - 1)) = used
  BY <1>1, FS_Interval, StoreShape
<1>5. Cardinality(0 .. (used - 1)) <= Cardinality(InUse)
  BY <1>3, FewInUse, FS_Subset
<1>6. live \in Nat
  BY LocsFinite, FS_CardinalityType DEF CellsInv
<1> QED  BY <1>1, <1>4, <1>5, <1>6, FewInUse, StoreShape

\* The chunk that alloc_chunk() hands out is empty, and in no level.
LEMMA NewChunkIs ==
    ASSUME CellsInv, NEW lists, NEW spare, LinksInv(lists, spare),
           live < MaxOrders
    PROVE  /\ NewChunk \in ChunkIds /\ chunks[NewChunk].live = 0
           /\ freeChunk # NIL => spare # <<>> /\ NewChunk = spare[1]
           /\ freeChunk = NIL => spare = <<>> /\ NewChunk = used
<1>1. Spare(spare) /\ used \in 0 .. MaxOrders
  BY DEF LinksInv
<1>2. CASE freeChunk # NIL
  <2>1. spare # <<>> /\ freeChunk = spare[1]
    BY <1>1, <1>2 DEF Spare, HeadOf
  <2>2. 1 \in DOMAIN spare /\ spare[1] \in ChunkIds
    BY <1>1, <2>1 DEF Spare
  <2> QED  BY <1>1, <1>2, <2>1, <2>2 DEF Spare, NewChunk
<1>3. CASE freeChunk = NIL
  <2>1. spare = <<>>
    BY <1>1, <1>3, NilApart DEF Spare, HeadOf
  <2>2. used \in ChunkIds
    BY <1>1 DEF ChunkIds
  <2>3. chunks[used].live = 0
    BY <1>1, <2>2, PlaceOf
  <2> QED  BY <1>3, <2>1, <2>2, <2>3 DEF NewChunk
<1> QED  BY <1>2, <1>3

\* What push() makes of the links when it puts a new chunk behind the others of
\* level l.
PutBehind(l, c, ch) ==
    LET p == levels[l].tail
    IN  /\ chunks' = [b \in ChunkIds |->
                        IF b = c THEN ch
                        ELSE IF b = p THEN [chunks[b] EXCEPT !.next = c]
                        ELSE chunks[b]]
        /\ levels' = [levels EXCEPT ![l].head = IF p = NIL THEN c ELSE @,
                                    ![l].tail = c]

LEMMA PutOthers ==
    ASSUME NEW l \in Levels, NEW s, Linked(l, s), NEW c \in ChunkIds,
           chunks \in [ChunkIds -> Chunks], chunks[c].live = 0,
           NEW ch \in Chunks, PutBehind(l, c, ch)
    PROVE  /\ chunks'[c] = ch
           /\ \A j \in DOMAIN s :
                 /\ chunks'[s[j]].level = l /\ chunks'[s[j]].live # 0
                 /\ chunks'[s[j]].prev = Preceding(s, j)
                 /\ chunks'[s[j]].next = IF j = Len(s) THEN c ELSE Following(s, j)
           /\ \A b \in ChunkIds \ {c} : (\A j \in DOMAIN s : s[j] # b) =>
                 chunks'[b] = chunks[b]
<1>1. /\ s \in Seq(ChunkIds) /\ Len(s) \in Nat /\ DOMAIN s = 1 .. Len(s)
      /\ Differ(s) /\ levels[l].tail = EndOf(s)
      /\ \A j \in DOMAIN s :
            /\ s[j] \in ChunkIds /\ s[j] # c
            /\ chunks[s[j]].level = l /\ chunks[s[j]].live # 0
            /\ chunks[s[j]].prev = Preceding(s, j)
            /\ chunks[s[j]].next = Following(s, j)
  BY DEF Linked
<1>2. \A j \in DOMAIN s : s[j] = EndOf(s) <=> j = Len(s)
  BY <1>1 DEF EndOf, Differ
<1>3. \A b \in ChunkIds \ {c} : b = EndOf(s) => \E j \in DOMAIN s : s[j] = b
  <2>1. s # <<>> => Len(s) \in DOMAIN s
    BY <1>1
  <2> QED  BY <2>1, NilApart DEF EndOf
<1>4. \A b \in ChunkIds \ {c} :
         chunks'[b] = IF b = EndOf(s) THEN [chunks[b] EXCEPT !.next = c]
                      ELSE chunks[b]
  BY <1>1 DEF PutBehind
<1>5. ASSUME NEW j \in DOMAIN s
      PROVE  /\ chunks'[s[j]].level = l /\ chunks'[s[j]].live # 0
             /\ chunks'[s[j]].prev = Preceding(s, j)
             /\ chunks'[s[j]].next = IF j = Len(s) THEN c ELSE Following(s, j)
  <2>1. s[j] \in ChunkIds \ {c} /\ chunks[s[j]] \in Chunks
    BY <1>1
  <2>2. CASE j = Len(s)
    <3>1. chunks'[s[j]] = [chunks[s[j]] EXCEPT !.next = c]
      BY <1>2, <1>4, <2>1, <2>2
    <3> QED  BY <1>1, <2>1, <2>2, <3>1 DEF Chunks
  <2>3. CASE j # Len(s)
    <3>1. chunks'[s[j]] = chunks[s[j]]
      BY <1>2, <1>4, <2>1, <2>3
    <3> QED  BY <1>1, <2>3, <3>1
  <2> QED  BY <2>2, <2>3
<1>6. \A b \in ChunkIds \ {c} : (\A j \in DOMAIN s : s[j] # b) =>
         chunks'[b] = chunks[b]
  BY <1>3, <1>4
<1>7. chunks'[c] = ch
  BY DEF PutBehind
<1> QED  BY <1>5, <1>6, <1>7

LEMMA PutIsLinked ==
    ASSUME NEW l \in Levels, NEW s, Linked(l, s), NEW c \in ChunkIds,
           chunks \in [ChunkIds -> Chunks], chunks[c].live = 0,
           levels \in [Levels -> [head : MaybeChunk, tail : MaybeChunk]],
           NEW ch \in Chunks, PutBehind(l, c, ch), ch.level = l, ch.live # 0,
           ch.prev = levels[l].tail, ch.next = NIL,
           NEW t, t = Append(s, c)
    PROVE  Linked(l, t)'
<1>1. /\ s \in Seq(ChunkIds) /\ Len(s) \in Nat /\ DOMAIN s = 1 .. Len(s)
      /\ Differ(s) /\ levels[l].head = HeadOf(s) /\ levels[l].tail = EndOf(s)
      /\ \A j \in DOMAIN s : s[j] \in ChunkIds /\ s[j] # c
  BY DEF Linked
<1>3. /\ t \in Seq(ChunkIds) /\ Len(t) = Len(s) + 1
      /\ DOMAIN t = 1 .. (Len(s) + 1) /\ t[Len(s) + 1] = c
      /\ \A j \in 1 .. Len(s) : t[j] = s[j]
      /\ t # <<>>
  BY <1>1, AppendAdds
<1>4. Differ(t)
  <2> SUFFICES ASSUME NEW i \in DOMAIN t, NEW j \in DOMAIN t, t[i] = t[j]
               PROVE  i = j
    BY DEF Differ
  <2>1. CASE i \in DOMAIN s /\ j \in DOMAIN s
    BY <1>1, <1>3, <2>1 DEF Differ
  <2>2. CASE ~(i \in DOMAIN s /\ j \in DOMAIN s)
    BY <1>1, <1>3, <2>2
  <2> QED  BY <2>1, <2>2
<1>5. /\ chunks'[c] = ch
      /\ \A j \in DOMAIN s :
            /\ chunks'[s[j]].level = l /\ chunks'[s[j]].live # 0
            /\ chunks'[s[j]].prev = Preceding(s, j)
            /\ chunks'[s[j]].next = IF j = Len(s) THEN c ELSE Following(s, j)
  BY PutOthers
<1>6. ASSUME NEW j \in DOMAIN t
      PROVE  /\ chunks'[t[j]].level = l /\ chunks'[t[j]].live # 0
             /\ chunks'[t[j]].prev = Preceding(t, j)
             /\ chunks'[t[j]].next = Following(t, j)
  <2>1. CASE j \in DOMAIN s
    <3>1. t[j] = s[j] /\ Preceding(t, j) = Preceding(s, j)
      BY <1>1, <1>3, <2>1 DEF Preceding
    <3>2. Following(t, j) = IF j = Len(s) THEN c ELSE Following(s, j)
      BY <1>1, <1>3, <2>1 DEF Following
    <3> QED  BY <1>5, <2>1, <3>1, <3>2
  <2>2. CASE j \notin DOMAIN s
    <3>1. j = Len(s) + 1 /\ t[j] = c /\ Following(t, j) = NIL
      BY <1>1, <1>3, <2>2 DEF Following
    <3>2. Preceding(t, j) = EndOf(s)
      <4>1. CASE s = <<>>
        BY <1>1, <3>1, <4>1 DEF Preceding, EndOf
      <4>2. CASE s # <<>>
        <5>1. Len(s) \in 1 .. Len(s) /\ j - 1 = Len(s) /\ j # 1
          BY <1>1, <3>1, <4>2
        <5> QED  BY <1>3, <4>2, <5>1 DEF Preceding, EndOf
      <4> QED  BY <4>1, <4>2
    <3> QED  BY <1>1, <1>5, <3>1, <3>2
  <2> QED  BY <2>1, <2>2
<1>7. EndOf(t) = c
  BY <1>1, <1>3 DEF EndOf
<1>8. HeadOf(t) = IF s = <<>> THEN c ELSE HeadOf(s)
  BY <1>1, <1>3 DEF HeadOf
<1>9. EndOf(s) = NIL <=> s = <<>>
  BY <1>1, NilApart DEF EndOf
<1>10. /\ levels'[l].head = IF EndOf(s) = NIL THEN c ELSE HeadOf(s)
       /\ levels'[l].tail = c
  <2>1. PICK h : /\ h = IF EndOf(s) = NIL THEN c ELSE HeadOf(s)
                 /\ levels' = [levels EXCEPT ![l].head = h, ![l].tail = c]
    BY <1>1 DEF PutBehind
  <2> QED  BY <2>1
<1> QED  BY <1>3, <1>4, <1>6, <1>7, <1>8, <1>9, <1>10 DEF Linked

\* The free list without its head.
LEMMA TakenFromSpare ==
    ASSUME NEW s, Spare(s), s # <<>>, NEW u \in Nat, used <= u, used \in Nat, used' = u,
           freeChunk' = chunks[s[1]].next,
           \A b \in ChunkIds \ {s[1]} :
              chunks[b].live = 0 => chunks'[b] = chunks[b]
    PROVE  Spare(Tail(s))'
<1>1. /\ s \in Seq(ChunkIds) /\ Len(s) \in Nat /\ DOMAIN s = 1 .. Len(s)
      /\ Differ(s) /\ 1 \in DOMAIN s /\ Len(s) >= 1
  BY DEF Spare
<1>2. PICK t : t = Tail(s)
  OBVIOUS
<1>3. /\ t \in Seq(ChunkIds) /\ Len(t) = Len(s) - 1 /\ DOMAIN t = 1 .. Len(t)
      /\ \A k \in DOMAIN t : k + 1 \in DOMAIN s /\ t[k] = s[k + 1]
  BY <1>1, <1>2
<1>4. Differ(t)
  BY <1>1, <1>3 DEF Differ
<1>5. ASSUME NEW k \in DOMAIN t
      PROVE  /\ t[k] < used' /\ chunks'[t[k]].live = 0
             /\ chunks'[t[k]].next = Following(t, k)
  <2>1. PICK j : j = k + 1
    OBVIOUS
  <2>2. j \in DOMAIN s /\ t[k] = s[j] /\ j # 1
    BY <1>1, <1>3, <2>1
  <2>3. s[j] # s[1] /\ s[j] \in ChunkIds
    BY <1>1, <2>2 DEF Differ
  <2>4. /\ s[j] < used /\ chunks[s[j]].live = 0
        /\ chunks[s[j]].next = Following(s, j)
    BY <2>2 DEF Spare
  <2>5. Following(t, k) = Following(s, j)
    BY <1>1, <1>3, <2>1, <2>2 DEF Following
  <2>6. s[j] \in Nat
    BY <2>3 DEF ChunkIds
  <2> QED  BY <2>2, <2>3, <2>4, <2>5, <2>6
<1>6. freeChunk' = HeadOf(t)
  <2>1. freeChunk' = Following(s, 1)
    BY <1>1 DEF Spare
  <2>2. t = <<>> <=> Len(s) = 1
    BY <1>1, <1>3
  <2>3. t # <<>> => 1 \in DOMAIN t
    BY <1>1, <1>3, <2>2
  <2> QED  BY <1>1, <1>3, <2>1, <2>2, <2>3 DEF Following, HeadOf
<1>7. Spare(t)'
  BY <1>3, <1>4, <1>5, <1>6 DEF Spare
<1> QED  BY <1>2, <1>7

\* A chunk just handed out is put behind the others of level l.
LEMMA LinksPut ==
    ASSUME CellsInv, NEW lists, NEW spare, LinksInv(lists, spare),
           live < MaxOrders, NEW l \in Levels, NEW c, c = NewChunk,
           NEW ch \in Chunks, PutBehind(l, c, ch), ch.level = l, ch.live # 0,
           ch.prev = levels[l].tail, ch.next = NIL,
           freeChunk' = IF freeChunk # NIL THEN chunks[c].next ELSE NIL,
           used' = IF freeChunk # NIL THEN used ELSE used + 1,
           NEW lists2, DOMAIN lists2 = Levels,
           \A m \in Levels \ {l} : lists2[m] = lists[m],
           lists2[l] = Append(lists[l], c)
    PROVE  \E spare2 : LinksInv(lists2, spare2)'
<1>1. /\ Linked(l, lists[l]) /\ Spare(spare) /\ used \in 0 .. MaxOrders
      /\ levels \in [Levels -> [head : MaybeChunk, tail : MaybeChunk]]
      /\ chunks \in [ChunkIds -> Chunks]
  BY DEF LinksInv, CellsInv
<1>2. c \in ChunkIds /\ chunks[c].live = 0
  BY NewChunkIs
<1>3. /\ chunks'[c] = ch
      /\ \A b \in ChunkIds \ {c} : chunks[b].level # l \/ chunks[b].live = 0 =>
            chunks'[b] = chunks[b]
  <2>1. \A j \in DOMAIN lists[l] :
           chunks[lists[l][j]].level = l /\ chunks[lists[l][j]].live # 0
    BY <1>1 DEF Linked
  <2> QED  BY <1>1, <1>2, <2>1, PutOthers
<1>4. \A b \in ChunkIds \ {c} : chunks[b].level = l /\ chunks[b].live # 0 =>
         chunks'[b].level = l /\ chunks'[b].live # 0
  <2> SUFFICES ASSUME NEW b \in ChunkIds \ {c}, chunks[b].level = l,
                      chunks[b].live # 0
               PROVE  chunks'[b].level = l /\ chunks'[b].live # 0
    OBVIOUS
  <2>1. PICK j \in DOMAIN lists[l] : lists[l][j] = b
    BY PlaceOf
  <2> QED  BY <1>1, <1>2, <2>1, PutOthers
<1>5. ASSUME NEW m \in Levels PROVE Linked(m, lists2[m])'
  <2>1. CASE m = l
    BY <1>1, <1>2, <2>1, PutIsLinked
  <2>2. CASE m # l
    <3>1. Linked(m, lists[m]) /\ lists2[m] = lists[m] /\ levels'[m] = levels[m]
      BY <1>1, <2>2 DEF LinksInv, PutBehind
    <3>2. \A j \in DOMAIN lists[m] : chunks'[lists[m][j]] = chunks[lists[m][j]]
      <4> SUFFICES ASSUME NEW j \in DOMAIN lists[m]
                   PROVE  chunks'[lists[m][j]] = chunks[lists[m][j]]
        OBVIOUS
      <4>1. /\ lists[m][j] \in ChunkIds /\ chunks[lists[m][j]].level = m
            /\ chunks[lists[m][j]].live # 0
        BY <3>1 DEF Linked
      <4> QED  BY <1>2, <1>3, <2>2, <4>1
    <3> QED  BY <3>1, <3>2 DEF Linked
  <2> QED  BY <2>1, <2>2
<1>6. levels' \in [Levels -> [head : MaybeChunk, tail : MaybeChunk]]
  <2>1. PICK h : /\ h \in MaybeChunk
                 /\ levels' = [levels EXCEPT ![l].head = h, ![l].tail = c]
    <3>1. IF levels[l].tail = NIL THEN c \in MaybeChunk
          ELSE levels[l].head \in MaybeChunk
      BY <1>1, <1>2 DEF MaybeChunk
    <3> QED  BY <3>1 DEF PutBehind
  <2>2. c \in MaybeChunk
    BY <1>2 DEF MaybeChunk
  <2> QED  BY <1>1, <2>1, <2>2, EndsType
<1>7. used' \in 0 .. MaxOrders /\ used <= used' /\ c < used'
  <2>1. CASE freeChunk # NIL
    <3>1. c = spare[1] /\ 1 \in DOMAIN spare
      BY <1>1, <2>1, NewChunkIs DEF Spare
    <3> QED  BY <1>1, <2>1, <3>1, StoreShape DEF Spare
  <2>2. CASE freeChunk = NIL
    BY <1>1, <2>2, NewChunkIs, RoomForChunk, StoreShape
  <2> QED  BY <2>1, <2>2
<1>8. PICK rest : /\ Spare(rest)'
                  /\ \A b \in ChunkIds \ {c} : chunks[b].live = 0 /\ b < used' =>
                        \E j \in DOMAIN rest : rest[j] = b
  <2>1. \A b \in ChunkIds : chunks[b].live = 0 /\ b < used =>
           \E j \in DOMAIN spare : spare[j] = b
    BY DEF LinksInv
  <2>2. CASE freeChunk # NIL
    <3>1. spare # <<>> /\ c = spare[1]
      BY <2>2, NewChunkIs
    <3>2. Spare(Tail(spare))'
      <4>1. used' \in Nat /\ used \in Nat
        BY <1>1, <1>7, StoreShape
      <4> QED  BY <1>1, <1>3, <1>7, <2>2, <3>1, <4>1, TakenFromSpare
    <3>3. \A j \in DOMAIN spare : j # 1 =>
             \E i \in DOMAIN Tail(spare) : Tail(spare)[i] = spare[j]
      <4> SUFFICES ASSUME NEW j \in DOMAIN spare, j # 1
                   PROVE  \E i \in DOMAIN Tail(spare) : Tail(spare)[i] = spare[j]
        OBVIOUS
      <4>1. j - 1 \in DOMAIN Tail(spare) /\ Tail(spare)[j - 1] = spare[j]
        BY <1>1, <3>1 DEF Spare
      <4> QED  BY <4>1
    <3>4. \A b \in ChunkIds \ {c} : chunks[b].live = 0 /\ b < used' =>
             \E i \in DOMAIN Tail(spare) : Tail(spare)[i] = b
      <4> SUFFICES ASSUME NEW b \in ChunkIds \ {c}, chunks[b].live = 0, b < used'
                   PROVE  \E i \in DOMAIN Tail(spare) : Tail(spare)[i] = b
        OBVIOUS
      <4>1. PICK j \in DOMAIN spare : spare[j] = b
        BY <2>1, <2>2
      <4>2. j # 1
        BY <3>1, <4>1
      <4> QED  BY <3>3, <4>1, <4>2
    <3> QED  BY <3>2, <3>4
  <2>3. CASE freeChunk = NIL
    <3>1. spare = <<>> /\ c = used
      BY <2>3, NewChunkIs
    <3>2. Spare(spare)'
      BY <1>1, <2>3, <3>1 DEF Spare, HeadOf
    <3>3. \A b \in ChunkIds \ {c} : b < used' => b < used
      BY <1>1, <2>3, <3>1, StoreShape DEF ChunkIds
    <3> QED  BY <2>1, <3>2, <3>3
  <2> QED  BY <2>2, <2>3
<1>9. ASSUME NEW b \in ChunkIds
      PROVE  IF chunks'[b].live # 0
             THEN /\ b < used' /\ chunks'[b].level \in Levels
                  /\ \E j \in DOMAIN lists2[chunks'[b].level] :
                        lists2[chunks'[b].level][j] = b
             ELSE b < used' => \E j \in DOMAIN rest : rest[j] = b
  <2>1. /\ lists[l] \in Seq(ChunkIds) /\ Len(lists[l]) \in Nat
        /\ DOMAIN lists2[l] = 1 .. (Len(lists[l]) + 1)
        /\ lists2[l][Len(lists[l]) + 1] = c
        /\ DOMAIN lists[l] = 1 .. Len(lists[l])
        /\ \A j \in 1 .. Len(lists[l]) : lists2[l][j] = lists[l][j]
    <3>1. lists[l] \in Seq(ChunkIds)
      BY <1>1 DEF Linked
    <3> QED  BY <1>2, <3>1, AppendAdds
  <2>2. CASE b = c
    <3>1. Len(lists[l]) + 1 \in DOMAIN lists2[l]
      BY <2>1
    <3> QED  BY <1>3, <1>7, <2>1, <2>2, <3>1
  <2>3. CASE b # c /\ chunks[b].live = 0
    <3>1. chunks'[b].live = 0
      BY <1>3, <2>3
    <3> QED  BY <1>8, <2>3, <3>1
  <2>4. CASE b # c /\ chunks[b].live # 0
    <3>1. b < used'
      BY <1>1, <1>7, <2>4, PlaceOf, StoreShape DEF ChunkIds
    <3>2. CASE chunks[b].level # l
      <4>1. chunks'[b] = chunks[b]
        BY <1>3, <2>4, <3>2
      <4> QED  BY <2>4, <3>1, <3>2, <4>1, PlaceOf
    <3>3. CASE chunks[b].level = l
      <4>1. PICK j \in DOMAIN lists[l] : lists[l][j] = b
        BY <2>4, <3>3, PlaceOf
      <4>2. j \in DOMAIN lists2[l] /\ lists2[l][j] = b
        BY <2>1, <4>1
      <4> QED  BY <1>4, <2>4, <3>1, <3>3, <4>2
    <3> QED  BY <3>2, <3>3
  <2> QED  BY <2>2, <2>3, <2>4
<1>10. LinksInv(lists2, rest)'
  BY <1>5, <1>6, <1>7, <1>8, <1>9 DEF LinksInv
<1> QED  BY <1>10

----------------------------------------------------------------------------
(* The orders of a level.                                                  *)

\* A chunk with live orders keeps its level, and slot i of chunk c is the only
\* one that changes, to q.
SlotBecomes(c, i, q) ==
    /\ \A b \in ChunkIds : chunks[b].live # 0 =>
          chunks'[b].level = chunks[b].level
    /\ \A b \in ChunkIds :
          chunks'[b].s = IF b = c THEN [chunks[c].s EXCEPT ![i] = q]
                         ELSE chunks[b].s

LEMMA BeforeDiffer ==
    ASSUME NEW s, Differ(s), NEW a, NEW b, Before(s, a, b),
           a[2] \in Int, DOMAIN s \subseteq Int
    PROVE  a # b
BY DEF Before, Differ

LEMMA OrderIs ==
    ASSUME CellsInv, NEW lists, QueueInv(lists), NEW l \in Levels,
           NEW n \in DOMAIN fifo[l]
    PROVE  \E c \in ChunkIds : \E i \in FullSlots(chunks[c]) :
              /\ fifo[l][n].loc = <<c, i>> /\ fifo[l][n].qty \in Nat \ {0}
              /\ chunks[c].s[i] = fifo[l][n].qty
              /\ chunks[c].level = l /\ chunks[c].live # 0 /\ i \in SlotIds
<1>1. Queued(l, lists[l])
  BY DEF QueueInv
<1>2. fifo[l][n] \in Orders
  BY <1>1 DEF Queued
<1>3. PICK c \in ChunkIds, i \in SlotIds : fifo[l][n].loc = <<c, i>>
  BY <1>2 DEF Orders, Locs
<1>4. fifo[l][n].qty \in Nat \ {0}
  BY <1>2 DEF Orders
<1>5. chunks[c].level = l /\ chunks[c].s[i] = fifo[l][n].qty
  BY <1>1, <1>3 DEF Queued
<1>6. i \in FullSlots(chunks[c])
  BY <1>4, <1>5 DEF FullSlots
<1>7. chunks[c].live # 0
  BY <1>6, EmptyChunk DEF CellsInv
<1> QED  BY <1>3, <1>4, <1>5, <1>6, <1>7

LEMMA OrdersDiffer ==
    ASSUME CellsInv, NEW lists, NEW spare, LinksInv(lists, spare),
           QueueInv(lists), NEW l \in Levels, NEW m \in DOMAIN fifo[l],
           NEW n \in DOMAIN fifo[l], m # n
    PROVE  fifo[l][m].loc # fifo[l][n].loc
<1>1. Queued(l, lists[l]) /\ Linked(l, lists[l])
  BY DEF QueueInv, LinksInv
<1>2. m \in Nat /\ n \in Nat
  BY <1>1 DEF Queued
<1>3. /\ Differ(lists[l]) /\ DOMAIN lists[l] \subseteq Int
      /\ fifo[l][m].loc[2] \in Int /\ fifo[l][n].loc[2] \in Int
  <2>1. fifo[l][m].loc[2] \in SlotIds /\ fifo[l][n].loc[2] \in SlotIds
    BY OrderIs
  <2> QED  BY <1>1, <2>1 DEF Linked, SlotIds
<1>4. CASE m < n
  <2>1. Before(lists[l], fifo[l][m].loc, fifo[l][n].loc)
    BY <1>1, <1>4 DEF Queued
  <2> QED  BY <1>3, <2>1, BeforeDiffer
<1>5. CASE n < m
  <2>1. Before(lists[l], fifo[l][n].loc, fifo[l][m].loc)
    BY <1>1, <1>5 DEF Queued
  <2> QED  BY <1>3, <2>1, BeforeDiffer
<1> QED  BY <1>2, <1>4, <1>5

\* A full slot belongs to a chunk that is in use.
LEMMA FullIsInUse ==
    ASSUME CellsInv, NEW c \in ChunkIds, NEW i \in FullSlots(chunks[c])
    PROVE  chunks[c].live # 0
BY EmptyChunk DEF CellsInv

\* A level that a step leaves alone.
LEMMA QueuedSame ==
    ASSUME NEW m, NEW s, Queued(m, s), fifo'[m] = fifo[m], NEW t, t = s,
           \A j \in DOMAIN fifo[m] :
              /\ chunks'[fifo[m][j].loc[1]].level = m
              /\ chunks'[fifo[m][j].loc[1]].s[fifo[m][j].loc[2]] = fifo[m][j].qty
    PROVE  Queued(m, t)'
BY DEF Queued, Before

\* r has what q has, without the n-th, in the same order.
Loses(q, r, n) ==
    /\ \A j \in DOMAIN r : \E m \in DOMAIN q \ {n} :
          r[j] = q[m] /\ m = IF j < n THEN j ELSE j + 1
    /\ \A m \in DOMAIN q \ {n} : \E j \in DOMAIN r : r[j] = q[m]

LEMMA DropsBoth ==
    ASSUME NEW S, NEW q \in Seq(S), NEW r \in Seq(S), NEW n \in DOMAIN q,
           Drops(q, r, n)
    PROVE  Loses(q, r, n)
<1>1. /\ Len(q) \in Nat /\ n \in 1 .. Len(q) /\ DOMAIN r = 1 .. Len(r)
      /\ DOMAIN q = 1 .. Len(q)
  OBVIOUS
<1>2. ASSUME NEW j \in DOMAIN r
      PROVE  \E m \in DOMAIN q \ {n} :
                r[j] = q[m] /\ m = IF j < n THEN j ELSE j + 1
  <2>1. \E m \in 1 .. Len(q) : /\ m # n /\ r[j] = q[m]
                               /\ m = IF j < n THEN j ELSE j + 1
    BY <1>1, DropsComesFrom
  <2> QED  BY <1>1, <2>1
<1>3. ASSUME NEW m \in DOMAIN q \ {n} PROVE \E j \in DOMAIN r : r[j] = q[m]
  <2>1. m \in 1 .. Len(q) /\ m # n
    BY <1>1
  <2> QED  BY <1>1, <2>1, DropsKeeps
<1> QED  BY <1>2, <1>3 DEF Loses

\* The n-th order of level l, at <<c, i>>, dies.
LEMMA QueueDies ==
    ASSUME CellsInv, NEW lists, NEW spare, LinksInv(lists, spare),
           QueueInv(lists), NEW l \in Levels, NEW n \in DOMAIN fifo[l],
           NEW c \in ChunkIds, NEW i \in SlotIds, fifo[l][n].loc = <<c, i>>,
           SlotBecomes(c, i, 0),
           DOMAIN fifo' = Levels, \A m \in Levels \ {l} : fifo'[m] = fifo[m],
           fifo'[l] \in Seq(Orders), Loses(fifo[l], fifo'[l], n),
           NEW lists2, \A m \in Levels \ {l} : lists2[m] = lists[m],
           \A j, k \in DOMAIN fifo[l] \ {n} :
              Before(lists[l], fifo[l][j].loc, fifo[l][k].loc) =>
              Before(lists2[l], fifo[l][j].loc, fifo[l][k].loc)
    PROVE  QueueInv(lists2)'
<1>1. /\ \A m \in Levels : Queued(m, lists[m])
      /\ chunks \in [ChunkIds -> Chunks]
  BY DEF QueueInv, CellsInv
<1>2. ASSUME NEW m \in Levels, NEW j \in DOMAIN fifo[m], m # l \/ j # n
      PROVE  /\ chunks'[fifo[m][j].loc[1]].level = m
             /\ chunks'[fifo[m][j].loc[1]].s[fifo[m][j].loc[2]] = fifo[m][j].qty
  <2>1. PICK b \in ChunkIds, k \in SlotIds :
           /\ fifo[m][j].loc = <<b, k>> /\ chunks[b].level = m
           /\ chunks[b].s[k] = fifo[m][j].qty /\ chunks[b].live # 0
    BY OrderIs
  <2>2. <<b, k>> # <<c, i>>
    <3>1. CASE m = l
      BY <1>2, <2>1, <3>1, OrdersDiffer
    <3>2. CASE m # l
      <4>1. chunks[c].level = l
        BY OrderIs
      <4> QED  BY <2>1, <3>2, <4>1
    <3> QED  BY <3>1, <3>2
  <2>3. chunks[c].s \in [SlotIds -> Nat]
    BY <1>1 DEF Chunks
  <2>4. chunks'[b].s[k] = chunks[b].s[k] /\ chunks'[b].level = m
    BY <2>1, <2>2, <2>3 DEF SlotBecomes
  <2> QED  BY <2>1, <2>4
<1>3. /\ fifo[l] \in Seq(Orders) /\ Len(fifo[l]) \in Nat
      /\ DOMAIN fifo[l] = 1 .. Len(fifo[l]) /\ n \in 1 .. Len(fifo[l])
      /\ DOMAIN fifo'[l] = 1 .. Len(fifo'[l])
  BY <1>1 DEF Queued
<1>4. \A j \in DOMAIN fifo'[l] :
         \E m \in DOMAIN fifo[l] \ {n} :
            fifo'[l][j] = fifo[l][m] /\ m = IF j < n THEN j ELSE j + 1
  BY DEF Loses
<1>5. ASSUME NEW m \in Levels PROVE Queued(m, lists2[m])'
  <2>1. CASE m # l
    <3>1. fifo'[m] = fifo[m] /\ lists2[m] = lists[m] /\ Queued(m, lists[m])
      BY <1>1, <2>1
    <3>2. \A j \in DOMAIN fifo[m] :
             /\ chunks'[fifo[m][j].loc[1]].level = m
             /\ chunks'[fifo[m][j].loc[1]].s[fifo[m][j].loc[2]] = fifo[m][j].qty
      BY <1>2, <2>1
    <3> QED  BY <3>1, <3>2, QueuedSame
  <2>2. CASE m = l
    <3>1. ASSUME NEW j \in DOMAIN fifo'[l]
          PROVE  /\ chunks'[fifo'[l][j].loc[1]].level = l
                 /\ chunks'[fifo'[l][j].loc[1]].s[fifo'[l][j].loc[2]]
                      = fifo'[l][j].qty
      <4>1. PICK k \in DOMAIN fifo[l] \ {n} : fifo'[l][j] = fifo[l][k]
        BY <1>4
      <4> QED  BY <1>2, <4>1
    <3>2. ASSUME NEW j \in DOMAIN fifo'[l], NEW k \in DOMAIN fifo'[l], j < k
          PROVE  Before(lists2[l], fifo'[l][j].loc, fifo'[l][k].loc)
      <4>1. PICK a \in DOMAIN fifo[l] \ {n} :
               fifo'[l][j] = fifo[l][a] /\ a = IF j < n THEN j ELSE j + 1
        BY <1>4
      <4>2. PICK b \in DOMAIN fifo[l] \ {n} :
               fifo'[l][k] = fifo[l][b] /\ b = IF k < n THEN k ELSE k + 1
        BY <1>4
      <4>3. a < b
        BY <1>3, <3>2, <4>1, <4>2
      <4>4. Before(lists[l], fifo[l][a].loc, fifo[l][b].loc)
        BY <1>1, <4>3 DEF Queued
      <4> QED  BY <4>1, <4>2, <4>4
    <3>3. Queued(l, lists2[l])'
      BY <3>1, <3>2 DEF Queued, Before
    <3> QED  BY <2>2, <3>3
  <2> QED  BY <2>1, <2>2
<1>6. ASSUME NEW b \in ChunkIds, NEW k \in FullSlots(chunks'[b])
      PROVE  \E j \in DOMAIN fifo'[chunks'[b].level] :
                fifo'[chunks'[b].level][j].loc = <<b, k>>
  <2>1. k \in FullSlots(chunks[b]) /\ <<b, k>> # <<c, i>>
    <3>1. k \in SlotIds /\ chunks'[b].s[k] # 0 /\ chunks[c].s \in [SlotIds -> Nat]
      BY <1>1 DEF FullSlots, Chunks
    <3> QED  BY <3>1 DEF FullSlots, SlotBecomes
  <2>2. chunks'[b].level = chunks[b].level /\ chunks[b].level \in Levels
    BY <2>1, FullIsInUse, PlaceOf DEF SlotBecomes
  <2>3. PICK j \in DOMAIN fifo[chunks[b].level] :
           fifo[chunks[b].level][j].loc = <<b, k>>
    BY <2>1 DEF QueueInv
  <2>4. CASE chunks[b].level # l
    BY <2>2, <2>3, <2>4
  <2>5. CASE chunks[b].level = l
    <3>1. j \in 1 .. Len(fifo[l]) /\ j # n
      BY <1>3, <2>1, <2>3, <2>5
    <3>2. \A m \in DOMAIN fifo[l] \ {n} :
             \E k2 \in DOMAIN fifo'[l] : fifo'[l][k2] = fifo[l][m]
      BY DEF Loses
    <3> QED  BY <1>3, <2>2, <2>3, <2>5, <3>1, <3>2
  <2> QED  BY <2>4, <2>5
<1> QED  BY <1>5, <1>6 DEF QueueInv, FullSlots

\* r is q, but for the quantity of the n-th order.
Requoted(q, r, n, x) ==
    /\ DOMAIN r = DOMAIN q /\ \A j \in DOMAIN q \ {n} : r[j] = q[j]
    /\ r[n].loc = q[n].loc /\ r[n].qty = x

LEMMA ResizedQueue ==
    ASSUME NEW q \in Seq(Orders), NEW n \in DOMAIN q, NEW x \in Nat \ {0},
           NEW r, r = [q EXCEPT ![n].qty = x]
    PROVE  r \in Seq(Orders) /\ Requoted(q, r, n, x)
<1>1. q[n] \in Orders
  OBVIOUS
<1>2. PICK o : o = [q[n] EXCEPT !.qty = x]
  OBVIOUS
<1>3. o \in Orders /\ o.loc = q[n].loc /\ o.qty = x
  BY <1>1, <1>2 DEF Orders
<1>4. r = [q EXCEPT ![n] = o]
  BY <1>2
<1> QED  BY <1>3, <1>4 DEF Requoted

\* The n-th order of level l, at <<c, i>>, changes its quantity to q.
LEMMA QueueResizes ==
    ASSUME CellsInv, NEW lists, NEW spare, LinksInv(lists, spare),
           QueueInv(lists), NEW l \in Levels, NEW n \in DOMAIN fifo[l],
           NEW c \in ChunkIds, NEW i \in SlotIds, fifo[l][n].loc = <<c, i>>,
           NEW q \in Nat \ {0}, SlotBecomes(c, i, q),
           DOMAIN fifo' = Levels, \A m \in Levels \ {l} : fifo'[m] = fifo[m],
           fifo'[l] \in Seq(Orders), Requoted(fifo[l], fifo'[l], n, q)
    PROVE  QueueInv(lists)'
<1>1. /\ \A m \in Levels : Queued(m, lists[m])
      /\ chunks \in [ChunkIds -> Chunks]
  BY DEF QueueInv, CellsInv
<1>2. chunks[c].s \in [SlotIds -> Nat] /\ chunks[c].s[i] # 0 /\ chunks[c].level = l
        /\ chunks[c].live # 0
  <2>1. PICK b \in ChunkIds, k \in SlotIds :
           /\ fifo[l][n].loc = <<b, k>> /\ chunks[b].level = l
           /\ chunks[b].s[k] = fifo[l][n].qty /\ chunks[b].live # 0
           /\ fifo[l][n].qty \in Nat \ {0}
    BY OrderIs
  <2> QED  BY <1>1, <2>1 DEF Chunks
<1>3. ASSUME NEW m \in Levels, NEW j \in DOMAIN fifo[m], m # l \/ j # n
      PROVE  /\ chunks'[fifo[m][j].loc[1]].level = m
             /\ chunks'[fifo[m][j].loc[1]].s[fifo[m][j].loc[2]] = fifo[m][j].qty
  <2>1. PICK b \in ChunkIds, k \in SlotIds :
           /\ fifo[m][j].loc = <<b, k>> /\ chunks[b].level = m
           /\ chunks[b].s[k] = fifo[m][j].qty /\ chunks[b].live # 0
    BY OrderIs
  <2>2. <<b, k>> # <<c, i>>
    <3>1. CASE m = l
      BY <1>3, <2>1, <3>1, OrdersDiffer
    <3>2. CASE m # l
      BY <1>2, <2>1, <3>2
    <3> QED  BY <3>1, <3>2
  <2>3. chunks'[b].s[k] = chunks[b].s[k] /\ chunks'[b].level = m
    BY <1>2, <2>1, <2>2 DEF SlotBecomes
  <2> QED  BY <2>1, <2>3
<1>4. chunks'[c].level = l /\ chunks'[c].s[i] = q
  BY <1>2 DEF SlotBecomes
<1>5. DOMAIN fifo[l] = DOMAIN fifo'[l]
      /\ \A j \in DOMAIN fifo[l] : fifo'[l][j].loc = fifo[l][j].loc
  BY DEF Requoted
<1>6. ASSUME NEW m \in Levels PROVE Queued(m, lists[m])'
  <2>1. CASE m # l
    <3>1. fifo'[m] = fifo[m] /\ Queued(m, lists[m])
      BY <1>1, <2>1
    <3>2. \A j \in DOMAIN fifo[m] :
             /\ chunks'[fifo[m][j].loc[1]].level = m
             /\ chunks'[fifo[m][j].loc[1]].s[fifo[m][j].loc[2]] = fifo[m][j].qty
      BY <1>3, <2>1
    <3> QED  BY <3>1, <3>2, QueuedSame
  <2>2. CASE m = l
    <3>1. ASSUME NEW j \in DOMAIN fifo'[l]
          PROVE  /\ chunks'[fifo'[l][j].loc[1]].level = l
                 /\ chunks'[fifo'[l][j].loc[1]].s[fifo'[l][j].loc[2]]
                      = fifo'[l][j].qty
      <4>1. CASE j = n
        BY <1>4, <4>1 DEF Requoted
      <4>2. CASE j # n
        <5>1. j \in DOMAIN fifo[l] /\ fifo'[l][j] = fifo[l][j]
          BY <4>2 DEF Requoted
        <5>2. /\ chunks'[fifo[l][j].loc[1]].level = l
              /\ chunks'[fifo[l][j].loc[1]].s[fifo[l][j].loc[2]] = fifo[l][j].qty
          BY <1>3, <4>2, <5>1
        <5> QED  BY <5>1, <5>2
      <4> QED  BY <4>1, <4>2
    <3>2. ASSUME NEW j \in DOMAIN fifo'[l], NEW k \in DOMAIN fifo'[l], j < k
          PROVE  Before(lists[l], fifo'[l][j].loc, fifo'[l][k].loc)
      <4>1. Before(lists[l], fifo[l][j].loc, fifo[l][k].loc)
        BY <1>1, <1>5, <3>2 DEF Queued
      <4> QED  BY <1>5, <4>1
    <3>3. Queued(l, lists[l])'
      BY <3>1, <3>2 DEF Queued, Before
    <3> QED  BY <2>2, <3>3
  <2> QED  BY <2>1, <2>2
<1>7. ASSUME NEW b \in ChunkIds, NEW k \in FullSlots(chunks'[b])
      PROVE  \E j \in DOMAIN fifo'[chunks'[b].level] :
                fifo'[chunks'[b].level][j].loc = <<b, k>>
  <2>1. k \in FullSlots(chunks[b])
    <3>1. k \in SlotIds /\ chunks'[b].s[k] # 0
      BY DEF FullSlots
    <3>2. CASE b = c /\ k = i
      BY <1>2, <3>2 DEF FullSlots
    <3>3. CASE ~(b = c /\ k = i)
      <4>1. chunks'[b].s[k] = chunks[b].s[k]
        BY <1>2, <3>1, <3>3 DEF SlotBecomes
      <4> QED  BY <3>1, <4>1 DEF FullSlots
    <3> QED  BY <3>2, <3>3
  <2>2. chunks'[b].level = chunks[b].level /\ chunks[b].level \in Levels
    BY <2>1, FullIsInUse, PlaceOf DEF SlotBecomes
  <2>3. PICK j \in DOMAIN fifo[chunks[b].level] :
           fifo[chunks[b].level][j].loc = <<b, k>>
    BY <2>1 DEF QueueInv
  <2>4. CASE chunks[b].level # l
    BY <2>2, <2>3, <2>4
  <2>5. CASE chunks[b].level = l
    BY <1>5, <2>2, <2>3, <2>5
  <2> QED  BY <2>4, <2>5
<1> QED  BY <1>6, <1>7 DEF QueueInv, FullSlots

\* r is q with o behind.
Joins(q, r, o) ==
    /\ Len(q) \in Nat /\ DOMAIN q = 1 .. Len(q) /\ DOMAIN r = 1 .. (Len(q) + 1)
    /\ \A j \in DOMAIN q : r[j] = q[j]
    /\ r[Len(q) + 1] = o

LEMMA JoinsBehind ==
    ASSUME NEW q \in Seq(Orders), NEW o \in Orders, NEW r, r = Append(q, o)
    PROVE  r \in Seq(Orders) /\ Joins(q, r, o)
BY AppendAdds DEF Joins

\* In the lists of lists2, location a is behind the orders of level l, and they
\* are in the same order.
RoomBehind(lists, lists2, l, a) ==
    /\ \A m \in Levels \ {l} : lists2[m] = lists[m]
    /\ \A j, k \in DOMAIN fifo[l] :
          Before(lists[l], fifo[l][j].loc, fifo[l][k].loc) =>
          Before(lists2[l], fifo[l][j].loc, fifo[l][k].loc)
    /\ \A j \in DOMAIN fifo[l] : Before(lists2[l], fifo[l][j].loc, a)

\* An order of quantity q joins level l at <<c, i>>, behind all others.
LEMMA QueueTakes ==
    ASSUME CellsInv, NEW lists, NEW spare, LinksInv(lists, spare),
           QueueInv(lists), NEW l \in Levels,
           NEW c \in ChunkIds, NEW i \in SlotIds, i \notin FullSlots(chunks[c]),
           NEW q \in Nat \ {0}, SlotBecomes(c, i, q), chunks'[c].level = l,
           DOMAIN fifo' = Levels, \A m \in Levels \ {l} : fifo'[m] = fifo[m],
           NEW o, o.loc = <<c, i>>, o.qty = q,
           fifo'[l] \in Seq(Orders), Joins(fifo[l], fifo'[l], o),
           NEW lists2, RoomBehind(lists, lists2, l, <<c, i>>)
    PROVE  QueueInv(lists2)'
<1>1. /\ \A m \in Levels : Queued(m, lists[m])
      /\ chunks \in [ChunkIds -> Chunks]
  BY DEF QueueInv, CellsInv
<1>0. /\ \A m \in Levels \ {l} : lists2[m] = lists[m]
      /\ \A j, k \in DOMAIN fifo[l] :
            Before(lists[l], fifo[l][j].loc, fifo[l][k].loc) =>
            Before(lists2[l], fifo[l][j].loc, fifo[l][k].loc)
      /\ \A j \in DOMAIN fifo[l] : Before(lists2[l], fifo[l][j].loc, <<c, i>>)
  BY DEF RoomBehind
<1>2. chunks[c].s \in [SlotIds -> Nat]
  BY <1>1 DEF Chunks
<1>3. ASSUME NEW m \in Levels, NEW j \in DOMAIN fifo[m]
      PROVE  /\ chunks'[fifo[m][j].loc[1]].level = m
             /\ chunks'[fifo[m][j].loc[1]].s[fifo[m][j].loc[2]] = fifo[m][j].qty
  <2>1. PICK b \in ChunkIds, k \in SlotIds :
           /\ k \in FullSlots(chunks[b])
           /\ fifo[m][j].loc = <<b, k>> /\ chunks[b].level = m
           /\ chunks[b].s[k] = fifo[m][j].qty /\ chunks[b].live # 0
    BY OrderIs
  <2>2. k \in SlotIds /\ <<b, k>> # <<c, i>>
    BY <2>1 DEF FullSlots
  <2>3. chunks'[b].s[k] = chunks[b].s[k] /\ chunks'[b].level = m
    BY <1>2, <2>1, <2>2 DEF SlotBecomes
  <2> QED  BY <2>1, <2>3
<1>4. chunks'[c].s[i] = q
  BY <1>2 DEF SlotBecomes
<1>5. PICK N : /\ N \in DOMAIN fifo'[l] /\ fifo'[l][N] = o
               /\ \A j \in DOMAIN fifo'[l] \ {N} : j \in DOMAIN fifo[l] /\ j < N
               /\ \A j \in DOMAIN fifo[l] :
                     j \in DOMAIN fifo'[l] /\ fifo'[l][j] = fifo[l][j]
  <2>1. PICK n : n = Len(fifo[l])
    OBVIOUS
  <2>2. /\ n \in Nat /\ DOMAIN fifo[l] = 1 .. n /\ DOMAIN fifo'[l] = 1 .. (n + 1)
        /\ fifo'[l][n + 1] = o
        /\ \A j \in DOMAIN fifo[l] : fifo'[l][j] = fifo[l][j]
    BY <2>1 DEF Joins
  <2>3. /\ n + 1 \in 1 .. (n + 1)
        /\ \A j \in 1 .. (n + 1) : j # n + 1 => j \in 1 .. n /\ j < n + 1
        /\ \A j \in 1 .. n : j \in 1 .. (n + 1)
    BY <2>2
  <2> QED  BY <2>2, <2>3
<1>6. o.loc = <<c, i>> /\ o.qty = q /\ o.loc[1] = c /\ o.loc[2] = i
  OBVIOUS
<1>7. ASSUME NEW m \in Levels PROVE Queued(m, lists2[m])'
  <2>1. CASE m # l
    <3>1. fifo'[m] = fifo[m] /\ lists2[m] = lists[m] /\ Queued(m, lists[m])
      BY <1>0, <1>1, <2>1
    <3>2. \A j \in DOMAIN fifo[m] :
             /\ chunks'[fifo[m][j].loc[1]].level = m
             /\ chunks'[fifo[m][j].loc[1]].s[fifo[m][j].loc[2]] = fifo[m][j].qty
      BY <1>3
    <3> QED  BY <3>1, <3>2, QueuedSame
  <2>2. CASE m = l
    <3>1. ASSUME NEW j \in DOMAIN fifo'[l]
          PROVE  /\ chunks'[fifo'[l][j].loc[1]].level = l
                 /\ chunks'[fifo'[l][j].loc[1]].s[fifo'[l][j].loc[2]]
                      = fifo'[l][j].qty
      <4>1. CASE j = N
        BY <1>4, <1>5, <1>6, <4>1
      <4>2. CASE j # N
        <5>1. j \in DOMAIN fifo[l] /\ fifo'[l][j] = fifo[l][j]
          BY <1>5, <4>2
        <5>2. /\ chunks'[fifo[l][j].loc[1]].level = l
              /\ chunks'[fifo[l][j].loc[1]].s[fifo[l][j].loc[2]] = fifo[l][j].qty
          BY <1>3, <5>1
        <5> QED  BY <5>1, <5>2
      <4> QED  BY <4>1, <4>2
    <3>2. ASSUME NEW j \in DOMAIN fifo'[l], NEW k \in DOMAIN fifo'[l], j < k
          PROVE  Before(lists2[l], fifo'[l][j].loc, fifo'[l][k].loc)
      <4>1. j \in DOMAIN fifo[l] /\ fifo'[l][j] = fifo[l][j]
        <5>1. DOMAIN fifo'[l] \subseteq Int /\ (k # N => k < N)
          BY <1>5
        <5> QED  BY <1>5, <3>2, <5>1
      <4>2. CASE k = N
        BY <1>0, <1>5, <1>6, <4>1, <4>2
      <4>3. CASE k # N
        <5>1. k \in DOMAIN fifo[l] /\ fifo'[l][k] = fifo[l][k]
          BY <1>5, <4>3
        <5>2. Before(lists[l], fifo[l][j].loc, fifo[l][k].loc)
          BY <1>1, <3>2, <4>1, <5>1 DEF Queued
        <5> QED  BY <1>0, <4>1, <5>1, <5>2
      <4> QED  BY <4>2, <4>3
    <3>3. Queued(l, lists2[l])'
      BY <3>1, <3>2 DEF Queued, Before
    <3> QED  BY <2>2, <3>3
  <2> QED  BY <2>1, <2>2
<1>8. ASSUME NEW b \in ChunkIds, NEW k \in FullSlots(chunks'[b])
      PROVE  \E j \in DOMAIN fifo'[chunks'[b].level] :
                fifo'[chunks'[b].level][j].loc = <<b, k>>
  <2>1. CASE <<b, k>> = <<c, i>>
    <3>1. N \in DOMAIN fifo'[l] /\ fifo'[l][N].loc = <<b, k>>
      BY <1>5, <1>6, <2>1
    <3> QED  BY <2>1, <3>1
  <2>2. CASE <<b, k>> # <<c, i>>
    <3>1. k \in FullSlots(chunks[b])
      BY <1>2, <2>2 DEF FullSlots, SlotBecomes
    <3>2. chunks'[b].level = chunks[b].level /\ chunks[b].level \in Levels
      BY <3>1, FullIsInUse, PlaceOf DEF SlotBecomes
    <3>3. PICK j \in DOMAIN fifo[chunks[b].level] :
             fifo[chunks[b].level][j].loc = <<b, k>>
      BY <3>1 DEF QueueInv
    <3>4. CASE chunks[b].level # l
      BY <3>2, <3>3, <3>4
    <3>5. CASE chunks[b].level = l
      <4>1. j \in DOMAIN fifo'[l] /\ fifo'[l][j] = fifo[l][j]
        BY <1>5, <3>3, <3>5
      <4> QED  BY <3>2, <3>3, <3>5, <4>1
    <3> QED  BY <3>4, <3>5
  <2> QED  BY <2>1, <2>2
<1> QED  BY <1>7, <1>8 DEF QueueInv, FullSlots

----------------------------------------------------------------------------
(* push().                                                                 *)

LEMMA FilledTakes ==
    ASSUME NEW ch \in Chunks, Counted(ch), NEW i \in SlotIds, i = ch.tail,
           ch.head <= i, NEW q \in Nat \ {0}
    PROVE  Takes(ch, i, q, Filled(ch, i, q))
<1>1. i \notin FullSlots(ch) /\ i \in Nat /\ i + 1 \in 0 .. ChunkSlots
  BY SlotsFinite, StoreShape DEF Counted, SlotIds
<1>2. FullSlots(ch) \cup {i} \subseteq SlotIds
  BY DEF FullSlots
<1>3. IsFiniteSet(SlotIds) /\ Cardinality(SlotIds) = ChunkSlots
  BY StoreShape, FS_Interval DEF SlotIds
<1>4. Cardinality(FullSlots(ch) \cup {i}) <= ChunkSlots
  BY <1>2, <1>3, FS_Subset
<1>5. Cardinality(FullSlots(ch) \cup {i}) = Cardinality(FullSlots(ch)) + 1
  BY <1>1, SlotsFinite, FS_AddElement
<1>6. ch.live + 1 \in 0 .. ChunkSlots
  BY <1>4, <1>5, SlotsFinite, StoreShape DEF Counted
<1> QED  BY <1>1, <1>6 DEF Takes, Filled, Chunks

\* The place of an order among the chunks of its level.
LEMMA OrderPlace ==
    ASSUME CellsInv, NEW lists, NEW spare, LinksInv(lists, spare),
           QueueInv(lists), NEW l \in Levels, NEW n \in DOMAIN fifo[l]
    PROVE  \E c \in ChunkIds : \E i \in FullSlots(chunks[c]) :
              /\ fifo[l][n].loc = <<c, i>>
              /\ \E k \in DOMAIN lists[l] : lists[l][k] = c
BY OrderIs, PlaceOf

\* The last chunk of level l has a slot left: the order takes it.
LEMMA PushBehind ==
    ASSUME StoreInv, NEW l \in Levels, NEW q \in Nat \ {0}, Push(l, q),
           ~NeedsChunk(l)
    PROVE  StoreInv'
<1>1. CellsInv
  BY DEF StoreInv
<1>2. PICK lists, spare : LinksInv(lists, spare) /\ QueueInv(lists)
  BY DEF StoreInv
<1>3. PICK c, i : c = levels[l].tail /\ i = chunks[c].tail
  OBVIOUS
<1>4. /\ Linked(l, lists[l]) /\ Queued(l, lists[l]) /\ DOMAIN fifo = Levels
      /\ c # NIL /\ i # ChunkSlots
  BY <1>2, <1>3 DEF LinksInv, QueueInv, NeedsChunk
<1>5. PICK k \in DOMAIN lists[l] : lists[l][k] = c /\ k = Len(lists[l])
  BY <1>3, <1>4 DEF Linked, EndOf
<1>6. /\ c \in ChunkIds /\ chunks[c].live # 0 /\ chunks[c].level = l
      /\ chunks[c] \in Chunks /\ Counted(chunks[c])
  BY <1>1, <1>4, <1>5 DEF CellsInv, Linked
<1>7. i \in SlotIds
  BY <1>3, <1>4, <1>6, StoreShape DEF Chunks, SlotIds
<1>8. chunks[c].head <= i
  <2>1. PICK j : j \in FullSlots(chunks[c])
    BY <1>6, EmptyChunk
  <2>2. chunks[c].head <= j /\ j < i
    BY <1>3, <1>6, <2>1 DEF Counted
  <2>3. j \in Int /\ i \in Int /\ chunks[c].head \in Int
    BY <1>6, <1>7, <2>1, StoreShape DEF Chunks, FullSlots, SlotIds
  <2> QED  BY <2>2, <2>3
<1>9. PICK ch : ch = Filled(chunks[c], i, q)
  OBVIOUS
<1>10. Takes(chunks[c], i, q, ch)
  BY <1>3, <1>6, <1>7, <1>8, <1>9, FilledTakes
<1>11. /\ chunks' = [chunks EXCEPT ![c] = ch] /\ live < MaxOrders
       /\ live' = live + 1 /\ UNCHANGED <<used, freeChunk, levels>>
       /\ fifo' = [fifo EXCEPT ![l] = Append(@, [loc |-> <<c, i>>, qty |-> q])]
  BY <1>3, <1>4, <1>9 DEF Push
<1>12. /\ ch \in Chunks /\ chunks' \in [ChunkIds -> Chunks] /\ chunks'[c] = ch
       /\ \A b \in ChunkIds \ {c} : chunks'[b] = chunks[b]
  BY <1>1, <1>6, <1>10, <1>11 DEF CellsInv, Takes
<1>13. /\ ch.level = chunks[c].level /\ ch.prev = chunks[c].prev
       /\ ch.next = chunks[c].next /\ ch.live = chunks[c].live + 1
       /\ ch.s = [chunks[c].s EXCEPT ![i] = q]
  BY <1>6, <1>9 DEF Filled, Chunks
<1>14. CellsInv'
  <2>1. /\ SameCells(ch, chunks'[c])
        /\ \A b \in ChunkIds \ {c} : SameCells(chunks[b], chunks'[b])
    BY <1>12 DEF SameCells
  <2> QED  BY <1>1, <1>6, <1>7, <1>10, <1>11, <1>12, <2>1, CellsTake
<1>15. LinksInv(lists, spare)'
  <2>1. \A b \in ChunkIds : SameLinks(chunks[b], chunks'[b])
    <3>1. SameLinks(chunks[c], chunks'[c])
      BY <1>6, <1>12, <1>13, StoreShape DEF SameLinks, Chunks
    <3>2. \A b \in ChunkIds \ {c} : SameLinks(chunks[b], chunks'[b])
      BY <1>12 DEF SameLinks
    <3> QED  BY <3>1, <3>2
  <2> QED  BY <1>2, <1>11, <2>1, LinksKeep
<1>16. QueueInv(lists)'
  <2>1. PICK o : o = [loc |-> <<c, i>>, qty |-> q]
    OBVIOUS
  <2>2. o \in Orders /\ o.loc = <<c, i>> /\ o.qty = q
    BY <1>6, <1>7, <2>1 DEF Orders, Locs
  <2>3. /\ fifo'[l] = Append(fifo[l], o) /\ DOMAIN fifo' = Levels
        /\ \A m \in Levels \ {l} : fifo'[m] = fifo[m]
    BY <1>4, <1>11, <2>1
  <2>4. fifo'[l] \in Seq(Orders) /\ Joins(fifo[l], fifo'[l], o)
    BY <1>4, <2>2, <2>3, JoinsBehind DEF Queued
  <2>5. i \notin FullSlots(chunks[c])
    BY <1>6, <1>7, <1>10, TakesCounted
  <2>6. SlotBecomes(c, i, q) /\ chunks'[c].level = l
    BY <1>6, <1>12, <1>13 DEF SlotBecomes
  <2>7. ASSUME NEW j \in DOMAIN fifo[l]
        PROVE  Before(lists[l], fifo[l][j].loc, <<c, i>>)
    <3>1. PICK b, x, h : /\ x \in FullSlots(chunks[b])
                         /\ fifo[l][j].loc = <<b, x>>
                         /\ h \in DOMAIN lists[l] /\ lists[l][h] = b
      BY <1>1, <1>2, OrderPlace
    <3>2. h < k \/ h = k
      BY <1>4, <1>5, <3>1 DEF Linked
    <3>3. h = k => x < i
      BY <1>3, <1>5, <1>6, <3>1 DEF Counted
    <3>4. lists[l][h] = <<b, x>>[1] /\ lists[l][k] = <<c, i>>[1]
      BY <1>5, <3>1
    <3>5. Before(lists[l], <<b, x>>, <<c, i>>)
      BY <3>1, <3>2, <3>3, <3>4 DEF Before
    <3> QED  BY <3>1, <3>5
  <2>8. RoomBehind(lists, lists, l, <<c, i>>)
    BY <2>7 DEF RoomBehind
  <2> QED  BY <1>1, <1>2, <1>6, <1>7, <2>2, <2>3, <2>4, <2>5, <2>6, <2>8,
              QueueTakes
<1> QED  BY <1>14, <1>15, <1>16 DEF StoreInv

\* A chunk that is empty may be handed out.
LEMMA ClearedIs ==
    ASSUME NEW c \in ChunkIds, chunks[c] \in Chunks, Counted(chunks[c]),
           chunks[c].live = 0, NEW l \in Levels, NEW p \in MaybeChunk,
           NEW ch, ch = Cleared(c, l, p)
    PROVE  /\ ch \in Chunks /\ Counted(ch)
           /\ FullSlots(chunks[c]) = {} /\ FullSlots(ch) = {}
           /\ ch.head = 0 /\ ch.tail = 0 /\ ch.live = 0 /\ ch.s = chunks[c].s
           /\ ch.level = l /\ ch.prev = p /\ ch.next = NIL
<1>1. 0 \in 0 .. ChunkSlots /\ NIL \in MaybeChunk
  BY StoreShape DEF MaybeChunk
<1>2. /\ ch \in Chunks /\ ch.live = 0 /\ ch.s = chunks[c].s
      /\ ch.head = 0 /\ ch.tail = 0
      /\ ch.level = l /\ ch.prev = p /\ ch.next = NIL
  BY <1>1 DEF Cleared, Chunks
<1>3. FullSlots(chunks[c]) = {}
  BY EmptyChunk
<1>4. FullSlots(ch) = {}
  BY <1>2, <1>3 DEF FullSlots
<1>5. Counted(ch)
  BY <1>2, <1>4, FS_EmptySet DEF Counted
<1> QED  BY <1>2, <1>3, <1>4, <1>5

\* It has not: the order takes the first slot of a chunk put behind.
LEMMA PushAnew ==
    ASSUME StoreInv, NEW l \in Levels, NEW q \in Nat \ {0}, Push(l, q),
           NeedsChunk(l)
    PROVE  StoreInv'
<1>1. CellsInv
  BY DEF StoreInv
<1>2. PICK lists, spare : LinksInv(lists, spare) /\ QueueInv(lists)
  BY DEF StoreInv
<1>3. PICK c, p : c = NewChunk /\ p = levels[l].tail
  OBVIOUS
<1>4. /\ Linked(l, lists[l]) /\ Queued(l, lists[l]) /\ DOMAIN fifo = Levels
      /\ levels \in [Levels -> [head : MaybeChunk, tail : MaybeChunk]]
      /\ live < MaxOrders
  BY <1>2 DEF LinksInv, QueueInv, Push
<1>5. /\ c \in ChunkIds /\ chunks[c].live = 0 /\ p \in MaybeChunk
      /\ chunks[c] \in Chunks /\ Counted(chunks[c]) /\ 0 \in SlotIds
  BY <1>1, <1>2, <1>3, <1>4, NewChunkIs, StoreShape DEF CellsInv, SlotIds
<1>6. PICK ch : ch = Cleared(c, l, p)
  OBVIOUS
<1>7. /\ ch \in Chunks /\ Counted(ch)
      /\ FullSlots(chunks[c]) = {} /\ FullSlots(ch) = {}
      /\ ch.head = 0 /\ ch.tail = 0 /\ ch.live = 0 /\ ch.s = chunks[c].s
      /\ ch.level = l /\ ch.prev = p /\ ch.next = NIL
  BY <1>5, <1>6, ClearedIs
<1>8. PICK ch2 : ch2 = Filled(ch, 0, q)
  OBVIOUS
<1>9. Takes(ch, 0, q, ch2)
  BY <1>5, <1>7, <1>8, FilledTakes
<1>10. /\ ch2 \in Chunks /\ ch2.level = l /\ ch2.prev = p /\ ch2.next = NIL
       /\ ch2.live # 0 /\ ch2.s = [chunks[c].s EXCEPT ![0] = q]
  BY <1>7, <1>8, <1>9 DEF Filled, Takes, Chunks
<1>11. /\ PutBehind(l, c, ch2) /\ live' = live + 1
       /\ freeChunk' = IF freeChunk # NIL THEN chunks[c].next ELSE NIL
       /\ used' = IF freeChunk # NIL THEN used ELSE used + 1
       /\ fifo' = [fifo EXCEPT ![l] = Append(@, [loc |-> <<c, 0>>, qty |-> q])]
  BY <1>3, <1>6, <1>8 DEF Push, PutBehind
<1>12. /\ chunks'[c] = ch2
       /\ \A b \in ChunkIds \ {c} : /\ chunks'[b] \in Chunks
                                    /\ SameCells(chunks[b], chunks'[b])
                                    /\ chunks'[b].level = chunks[b].level
  <2>1. chunks' = [b \in ChunkIds |->
                     IF b = c THEN ch2
                     ELSE IF b = p THEN [chunks[b] EXCEPT !.next = c]
                     ELSE chunks[b]]
    BY <1>3, <1>11 DEF PutBehind
  <2>2. ASSUME NEW b \in ChunkIds \ {c}
        PROVE  /\ chunks'[b] \in Chunks /\ SameCells(chunks[b], chunks'[b])
               /\ chunks'[b].level = chunks[b].level
    <3>1. chunks[b] \in Chunks /\ c \in MaybeChunk
      BY <1>1, <1>5 DEF CellsInv, MaybeChunk
    <3>2. CASE b = p
      <4>1. chunks'[b] = [chunks[b] EXCEPT !.next = c]
        BY <2>1, <3>2
      <4> QED  BY <3>1, <4>1 DEF Chunks, SameCells
    <3>3. CASE b # p
      <4>1. chunks'[b] = chunks[b]
        BY <2>1, <3>3
      <4> QED  BY <3>1, <4>1 DEF SameCells
    <3> QED  BY <3>2, <3>3
  <2> QED  BY <1>5, <2>1, <2>2
<1>13. chunks' \in [ChunkIds -> Chunks]
  <2>1. \A b \in ChunkIds : chunks'[b] \in Chunks
    BY <1>10, <1>12
  <2>2. chunks' = [b \in ChunkIds |-> chunks'[b]]
    BY <1>11 DEF PutBehind
  <2> QED  BY <2>1, <2>2
<1>14. CellsInv'
  <2>1. SameCells(ch2, chunks'[c])
    BY <1>12 DEF SameCells
  <2> QED  BY <1>1, <1>4, <1>5, <1>7, <1>9, <1>11, <1>12, <1>13, <2>1, CellsTake
<1>15. PICK lists2 : lists2 = [m \in Levels |-> IF m = l THEN Append(lists[l], c)
                                                ELSE lists[m]]
  OBVIOUS
<1>16. /\ DOMAIN lists2 = Levels /\ lists2[l] = Append(lists[l], c)
       /\ \A m \in Levels \ {l} : lists2[m] = lists[m]
  BY <1>15
<1>17. PICK spare2 : LinksInv(lists2, spare2)'
  <2>1. ch2.prev = levels[l].tail /\ c = NewChunk /\ ch2 \in Chunks
        /\ ch2.level = l /\ ch2.live # 0 /\ ch2.next = NIL /\ PutBehind(l, c, ch2)
    BY <1>3, <1>10, <1>11
  <2>2. /\ freeChunk' = IF freeChunk # NIL THEN chunks[c].next ELSE NIL
        /\ used' = IF freeChunk # NIL THEN used ELSE used + 1
    BY <1>11
  <2> QED  BY <1>1, <1>2, <1>4, <1>16, <2>1, <2>2, LinksPut, SMTT(30)
<1>18. QueueInv(lists2)'
  <2>0. PICK i : i = 0
    OBVIOUS
  <2>1. PICK o : o = [loc |-> <<c, i>>, qty |-> q]
    OBVIOUS
  <2>2. o \in Orders /\ o.loc = <<c, i>> /\ o.qty = q /\ i \in SlotIds
    BY <1>5, <2>0, <2>1 DEF Orders, Locs
  <2>3. /\ fifo'[l] = Append(fifo[l], o) /\ DOMAIN fifo' = Levels
        /\ \A m \in Levels \ {l} : fifo'[m] = fifo[m]
    BY <1>4, <1>11, <2>0, <2>1
  <2>4. fifo'[l] \in Seq(Orders) /\ Joins(fifo[l], fifo'[l], o)
    BY <1>4, <2>2, <2>3, JoinsBehind DEF Queued
  <2>5. SlotBecomes(c, i, q) /\ chunks'[c].level = l /\ i \notin FullSlots(chunks[c])
    <3>1. \A b \in ChunkIds \ {c} : chunks'[b].s = chunks[b].s
      BY <1>12 DEF SameCells
    <3> QED  BY <1>5, <1>7, <1>10, <1>12, <2>0, <3>1 DEF SlotBecomes
  <2>6. PICK n : n = Len(lists[l])
    OBVIOUS
  <2>7. PICK k : k = n + 1
    OBVIOUS
  <2>8. /\ n \in Nat /\ DOMAIN lists[l] = 1 .. n /\ k \in DOMAIN lists2[l]
        /\ lists2[l][k] = c
        /\ \A h \in 1 .. n : h \in DOMAIN lists2[l] /\ lists2[l][h] = lists[l][h]
                             /\ h < k
    <3>1. lists[l] \in Seq(ChunkIds)
      BY <1>4 DEF Linked
    <3> QED  BY <1>5, <1>16, <2>6, <2>7, <3>1, AppendAdds
  <2>9. ASSUME NEW j \in DOMAIN fifo[l]
        PROVE  Before(lists2[l], fifo[l][j].loc, <<c, i>>)
    <3>1. PICK b, x, h : /\ fifo[l][j].loc = <<b, x>>
                         /\ h \in DOMAIN lists[l] /\ lists[l][h] = b
      BY <1>1, <1>2, OrderPlace
    <3>2. /\ lists2[l][h] = <<b, x>>[1] /\ lists2[l][k] = <<c, i>>[1]
          /\ h \in DOMAIN lists2[l] /\ h < k
      BY <2>8, <3>1
    <3>3. Before(lists2[l], <<b, x>>, <<c, i>>)
      BY <2>8, <3>2 DEF Before
    <3> QED  BY <3>1, <3>3
  <2>10. ASSUME NEW a, NEW b, Before(lists[l], a, b)
         PROVE  Before(lists2[l], a, b)
    <3>1. \A h \in DOMAIN lists[l] :
             h \in DOMAIN lists2[l] /\ lists2[l][h] = lists[l][h]
      BY <2>8
    <3> QED  BY <2>10, <3>1 DEF Before
  <2>11. \A j, h \in DOMAIN fifo[l] :
            Before(lists[l], fifo[l][j].loc, fifo[l][h].loc) =>
            Before(lists2[l], fifo[l][j].loc, fifo[l][h].loc)
    BY <2>10
  <2>12. RoomBehind(lists, lists2, l, <<c, i>>)
    BY <1>16, <2>9, <2>11 DEF RoomBehind
  <2> QED  BY <1>1, <1>2, <1>5, <2>2, <2>3, <2>4, <2>5, <2>12,
              QueueTakes
<1> QED  BY <1>14, <1>17, <1>18 DEF StoreInv

----------------------------------------------------------------------------
(* An order dies.                                                          *)

\* What a list keeps when it loses a chunk: where the others are.
LEMMA BeforeKept ==
    ASSUME NEW s \in Seq(ChunkIds), NEW k \in DOMAIN s, NEW t \in Seq(ChunkIds),
           Drops(s, t, k), NEW a, NEW b, Before(s, a, b),
           a[1] # s[k], b[1] # s[k]
    PROVE  Before(t, a, b)
<1>1. /\ Len(s) \in Nat /\ DOMAIN s = 1 .. Len(s) /\ DOMAIN t = 1 .. Len(t)
      /\ Len(t) = Len(s) - 1
      /\ \A j \in 1 .. (Len(s) - 1) : t[j] = IF j < k THEN s[j] ELSE s[j + 1]
  BY DEF Drops
<1>2. ASSUME NEW x \in DOMAIN s, x # k
      PROVE  \E j \in DOMAIN t : t[j] = s[x] /\ j = IF x < k THEN x ELSE x - 1
  <2>1. CASE x < k
    BY <1>1, <2>1
  <2>2. CASE ~(x < k)
    <3>1. x - 1 \in 1 .. (Len(s) - 1) /\ ~(x - 1 < k) /\ (x - 1) + 1 = x
      BY <1>1, <1>2, <2>2
    <3> QED  BY <1>1, <2>2, <3>1
  <2> QED  BY <2>1, <2>2
<1>3. PICK x, y \in DOMAIN s :
         s[x] = a[1] /\ s[y] = b[1] /\ (x < y \/ (x = y /\ a[2] < b[2]))
  BY DEF Before
<1>4. x # k /\ y # k
  BY <1>3
<1>5. PICK h \in DOMAIN t : t[h] = s[x] /\ h = IF x < k THEN x ELSE x - 1
  BY <1>2, <1>4
<1>6. PICK j \in DOMAIN t : t[j] = s[y] /\ j = IF y < k THEN y ELSE y - 1
  BY <1>2, <1>4
<1>7. h < j \/ (h = j /\ a[2] < b[2])
  BY <1>1, <1>3, <1>4, <1>5, <1>6
<1> QED  BY <1>3, <1>5, <1>6, <1>7 DEF Before

\* What drop_chunk() keeps of every chunk.
LEMMA RelinkKeeps ==
    ASSUME chunks \in [ChunkIds -> Chunks], NEW l, NEW c \in ChunkIds,
           NEW ch \in Chunks, chunks' = Relink(l, c, ch),
           freeChunk \in MaybeChunk
    PROVE  /\ chunks' \in [ChunkIds -> Chunks]
           /\ SameCells(ch, chunks'[c]) /\ chunks'[c].level = ch.level
           /\ \A b \in ChunkIds \ {c} : SameCells(chunks[b], chunks'[b])
                                        /\ chunks'[b].level = chunks[b].level
<1>1. ch.prev \in MaybeChunk /\ ch.next \in MaybeChunk
  BY DEF Chunks
<1>2. ASSUME NEW b \in ChunkIds, b # c
      PROVE  /\ chunks'[b] \in Chunks /\ SameCells(chunks[b], chunks'[b])
             /\ chunks'[b].level = chunks[b].level
  <2>1. chunks[b] \in Chunks
    OBVIOUS
  <2>2. CASE b = ch.prev
    <3>1. chunks'[b] = [chunks[b] EXCEPT !.next = ch.next]
      BY <1>2, <2>2 DEF Relink
    <3> QED  BY <1>1, <2>1, <3>1 DEF Chunks, SameCells
  <2>3. CASE b # ch.prev /\ b = ch.next
    <3>1. chunks'[b] = [chunks[b] EXCEPT !.prev = ch.prev]
      BY <1>2, <2>3 DEF Relink
    <3> QED  BY <1>1, <2>1, <3>1 DEF Chunks, SameCells
  <2>4. CASE b # ch.prev /\ b # ch.next
    <3>1. chunks'[b] = chunks[b]
      BY <1>2, <2>4 DEF Relink
    <3> QED  BY <2>1, <3>1 DEF SameCells
  <2> QED  BY <2>2, <2>3, <2>4
<1>3. /\ chunks'[c] \in Chunks /\ SameCells(ch, chunks'[c])
      /\ chunks'[c].level = ch.level
  <2>1. chunks'[c] = [ch EXCEPT !.next = freeChunk]
    BY DEF Relink
  <2> QED  BY <2>1 DEF Chunks, SameCells
<1>4. chunks' = [b \in ChunkIds |-> chunks'[b]]
  BY DEF Relink
<1>5. chunks' \in [ChunkIds -> Chunks]
  BY <1>2, <1>3, <1>4
<1> QED  BY <1>2, <1>3, <1>5

LEMMA FreeIsMaybe ==
    ASSUME NEW lists, NEW spare, LinksInv(lists, spare)
    PROVE  freeChunk \in MaybeChunk
<1>1. Spare(spare)
  BY DEF LinksInv
<1>2. spare # <<>> => 1 \in DOMAIN spare
  BY <1>1 DEF Spare
<1> QED  BY <1>1, <1>2 DEF Spare, HeadOf, MaybeChunk

\* The calls leave the orders of the other levels alone.
FifoLoses(l, n) ==
    /\ DOMAIN fifo' = Levels /\ \A m \in Levels \ {l} : fifo'[m] = fifo[m]
    /\ fifo'[l] \in Seq(Orders) /\ Loses(fifo[l], fifo'[l], n)

\* The n-th order of level l dies, and its chunk has others.
LEMMA DiesAmongOthers ==
    ASSUME CellsInv, NEW lists, NEW spare, LinksInv(lists, spare),
           QueueInv(lists), NEW l \in Levels, NEW n \in DOMAIN fifo[l],
           NEW c \in ChunkIds, NEW i \in FullSlots(chunks[c]),
           fifo[l][n].loc = <<c, i>>, NEW ch, Dies(chunks[c], i, ch),
           Bury(c, ch), ch.live # 0, FifoLoses(l, n)
    PROVE  StoreInv'
<1>1. /\ chunks' = [chunks EXCEPT ![c] = ch] /\ live' = live - 1
      /\ UNCHANGED <<levels, freeChunk, used>>
  BY DEF Bury
<1>2. /\ chunks[c].level = l /\ chunks[c].live # 0 /\ i \in SlotIds
      /\ chunks \in [ChunkIds -> Chunks]
  <2>1. PICK b \in ChunkIds, k \in SlotIds :
           /\ fifo[l][n].loc = <<b, k>> /\ chunks[b].level = l
           /\ chunks[b].live # 0
    BY OrderIs
  <2> QED  BY <2>1 DEF CellsInv
<1>3. /\ chunks' \in [ChunkIds -> Chunks] /\ chunks'[c] = ch
      /\ \A b \in ChunkIds \ {c} : chunks'[b] = chunks[b]
  BY <1>1, <1>2 DEF Dies
<1>4. CellsInv'
  <2>1. /\ SameCells(ch, chunks'[c])
        /\ \A b \in ChunkIds \ {c} : SameCells(chunks[b], chunks'[b])
    BY <1>3 DEF SameCells
  <2> QED  BY <1>1, <1>3, <2>1, CellsDie
<1>5. LinksInv(lists, spare)'
  <2>1. \A b \in ChunkIds : SameLinks(chunks[b], chunks'[b])
    <3>1. SameLinks(chunks[c], chunks'[c])
      BY <1>2, <1>3 DEF SameLinks, Dies
    <3>2. \A b \in ChunkIds \ {c} : SameLinks(chunks[b], chunks'[b])
      BY <1>3 DEF SameLinks
    <3> QED  BY <3>1, <3>2
  <2> QED  BY <1>1, <2>1, LinksKeep
<1>6. QueueInv(lists)'
  <2>1. SlotBecomes(c, i, 0)
    BY <1>3 DEF SlotBecomes, Dies
  <2>2. /\ DOMAIN fifo' = Levels /\ \A m \in Levels \ {l} : fifo'[m] = fifo[m]
        /\ fifo'[l] \in Seq(Orders) /\ Loses(fifo[l], fifo'[l], n)
    BY DEF FifoLoses
  <2> QED  BY <1>2, <2>1, <2>2, QueueDies
<1> QED  BY <1>4, <1>5, <1>6 DEF StoreInv

\* It was the last of its chunk, which leaves the level.
LEMMA DiesLast ==
    ASSUME CellsInv, NEW lists, NEW spare, LinksInv(lists, spare),
           QueueInv(lists), NEW l \in Levels, NEW n \in DOMAIN fifo[l],
           NEW c \in ChunkIds, NEW i \in FullSlots(chunks[c]),
           fifo[l][n].loc = <<c, i>>, NEW ch, Dies(chunks[c], i, ch),
           Bury(c, ch), ch.live = 0, FifoLoses(l, n)
    PROVE  StoreInv'
<1>1. /\ chunks[c].level = l /\ chunks[c].live # 0 /\ i \in SlotIds
      /\ chunks \in [ChunkIds -> Chunks] /\ ch \in Chunks
      /\ ch.level = chunks[c].level /\ ch.prev = chunks[c].prev
      /\ ch.next = chunks[c].next /\ ch.s = [chunks[c].s EXCEPT ![i] = 0]
  <2>1. PICK b \in ChunkIds, k \in SlotIds :
           /\ fifo[l][n].loc = <<b, k>> /\ chunks[b].level = l
           /\ chunks[b].live # 0
    BY OrderIs
  <2> QED  BY <2>1 DEF CellsInv, Dies
<1>2. /\ chunks' = Relink(l, c, ch) /\ levels' = EndsMoved(l, ch)
      /\ freeChunk' = FreeListWith(c) /\ used' = used /\ live' = live - 1
  BY <1>1 DEF Bury
<1>3. /\ chunks' \in [ChunkIds -> Chunks] /\ SameCells(ch, chunks'[c])
      /\ chunks'[c].level = ch.level
      /\ \A b \in ChunkIds \ {c} : SameCells(chunks[b], chunks'[b])
                                   /\ chunks'[b].level = chunks[b].level
  BY <1>1, <1>2, FreeIsMaybe, RelinkKeeps
<1>4. CellsInv'
  <2>1. \A b \in ChunkIds \ {c} : SameCells(chunks[b], chunks'[b])
    BY <1>3
  <2> QED  BY <1>2, <1>3, <2>1, CellsDie
<1>5. PICK k \in DOMAIN lists[l] : lists[l][k] = c
  BY <1>1, PlaceOf
<1>6. /\ Linked(l, lists[l]) /\ lists[l] \in Seq(ChunkIds) /\ Differ(lists[l])
  BY DEF LinksInv, Linked
<1>7. PICK t : t \in Seq(ChunkIds) /\ Drops(lists[l], t, k)
  BY <1>6, CutDrops
<1>8. PICK lists2 : lists2 = [m \in Levels |-> IF m = l THEN t ELSE lists[m]]
  OBVIOUS
<1>9. /\ DOMAIN lists2 = Levels /\ lists2[l] = t
      /\ \A m \in Levels \ {l} : lists2[m] = lists[m]
  BY <1>8
<1>10. LinksInv(lists2, <<c>> \o spare)'
  <2>1. lists2[l] \in Seq(ChunkIds) /\ Drops(lists[l], lists2[l], k)
    BY <1>7, <1>9
  <2>2. ch \in Chunks /\ ch.prev = chunks[c].prev /\ ch.next = chunks[c].next
        /\ chunks \in [ChunkIds -> Chunks] /\ c = lists[l][k]
    BY <1>1, <1>5
  <2> QED  BY <1>2, <1>9, <2>1, <2>2, LinksDrop
<1>11. FullSlots(chunks[c]) = {i}
  <2>1. Counted(ch) /\ FullSlots(ch) = FullSlots(chunks[c]) \ {i}
    BY DiesCounted DEF CellsInv
  <2>2. FullSlots(ch) = {}
    BY <1>1, <2>1, EmptyChunk
  <2> QED  BY <2>1, <2>2
<1>12. ASSUME NEW j \in DOMAIN fifo[l] \ {n} PROVE fifo[l][j].loc[1] # c
  <2>1. PICK b \in ChunkIds, x \in SlotIds :
           x \in FullSlots(chunks[b]) /\ fifo[l][j].loc = <<b, x>>
    BY OrderIs
  <2>2. <<b, x>> # <<c, i>>
    BY <2>1, OrdersDiffer
  <2> QED  BY <1>11, <2>1, <2>2
<1>13. ASSUME NEW j \in DOMAIN fifo[l] \ {n}, NEW h \in DOMAIN fifo[l] \ {n},
              Before(lists[l], fifo[l][j].loc, fifo[l][h].loc)
       PROVE  Before(lists2[l], fifo[l][j].loc, fifo[l][h].loc)
  <2>1. fifo[l][j].loc[1] # lists[l][k] /\ fifo[l][h].loc[1] # lists[l][k]
    BY <1>5, <1>12
  <2>2. Before(t, fifo[l][j].loc, fifo[l][h].loc)
    BY <1>6, <1>7, <1>13, <2>1, BeforeKept
  <2> QED  BY <1>9, <2>2
<1>14. QueueInv(lists2)'
  <2>1. SlotBecomes(c, i, 0)
    BY <1>1, <1>3 DEF SlotBecomes, SameCells
  <2>2. /\ DOMAIN fifo' = Levels /\ \A m \in Levels \ {l} : fifo'[m] = fifo[m]
        /\ fifo'[l] \in Seq(Orders) /\ Loses(fifo[l], fifo'[l], n)
    BY DEF FifoLoses
  <2>3. \A j, h \in DOMAIN fifo[l] \ {n} :
           Before(lists[l], fifo[l][j].loc, fifo[l][h].loc) =>
           Before(lists2[l], fifo[l][j].loc, fifo[l][h].loc)
    BY <1>13
  <2>4. \A m \in Levels \ {l} : lists2[m] = lists[m]
    BY <1>9
  <2> QED  BY <1>1, <2>1, <2>2, <2>3, <2>4, QueueDies
<1> QED  BY <1>4, <1>10, <1>14 DEF StoreInv

LEMMA OrderDies ==
    ASSUME CellsInv, NEW lists, NEW spare, LinksInv(lists, spare),
           QueueInv(lists), NEW l \in Levels, NEW n \in DOMAIN fifo[l],
           NEW c \in ChunkIds, NEW i \in FullSlots(chunks[c]),
           fifo[l][n].loc = <<c, i>>, NEW ch, Dies(chunks[c], i, ch),
           Bury(c, ch), FifoLoses(l, n)
    PROVE  StoreInv'
BY DiesAmongOthers, DiesLast

\* Slot i of a chunk is killed; its cursor may have moved up to h first.
LEMMA KilledDies ==
    ASSUME NEW ch \in Chunks, Counted(ch), NEW i \in FullSlots(ch),
           NEW h \in 0 .. ChunkSlots, \A j \in FullSlots(ch) : h <= j,
           NEW ch2, ch2 = Killed([ch EXCEPT !.head = h], i)
    PROVE  Dies(ch, i, ch2)
<1>1. ch.live \in 1 .. ChunkSlots
  <2>1. ch.live # 0
    BY EmptyChunk
  <2> QED  BY <2>1, StoreShape DEF Chunks
<1>2. ch.live - 1 \in 0 .. ChunkSlots /\ i \in SlotIds
  BY <1>1, StoreShape DEF FullSlots
<1>3. /\ ch2 \in Chunks /\ ch2.head = h
      /\ ch2.level = ch.level /\ ch2.prev = ch.prev /\ ch2.next = ch.next
      /\ ch2.tail = ch.tail /\ ch2.live = ch.live - 1
      /\ ch2.s = [ch.s EXCEPT ![i] = 0]
  BY <1>2 DEF Killed, Chunks
<1> QED  BY <1>3 DEF Dies

LEMMA UnlinkStays ==
    ASSUME StoreInv, NEW l \in Levels, NEW n \in DOMAIN fifo[l], Unlink(l, n)
    PROVE  StoreInv'
<1>1. CellsInv
  BY DEF StoreInv
<1>2. PICK lists, spare : LinksInv(lists, spare) /\ QueueInv(lists)
  BY DEF StoreInv
<1>3. PICK c \in ChunkIds, i \in SlotIds :
         /\ i \in FullSlots(chunks[c])
         /\ fifo[l][n].loc = <<c, i>>
  BY <1>1, <1>2, OrderIs
<1>4. chunks[c] \in Chunks /\ Counted(chunks[c])
  BY <1>1 DEF CellsInv
<1>5. PICK ch : ch = Killed(chunks[c], i)
  OBVIOUS
<1>6. Dies(chunks[c], i, ch)
  <2>1. chunks[c] = [chunks[c] EXCEPT !.head = chunks[c].head]
    BY <1>4 DEF Chunks
  <2>2. /\ chunks[c].head \in 0 .. ChunkSlots
        /\ \A j \in FullSlots(chunks[c]) : chunks[c].head <= j
    BY <1>4 DEF Chunks, Counted
  <2> QED  BY <1>3, <1>4, <1>5, <2>1, <2>2, KilledDies
<1>7. Bury(c, ch)
  BY <1>3, <1>5 DEF Unlink
<1>8. FifoLoses(l, n)
  <2>1. fifo[l] \in Seq(Orders) /\ DOMAIN fifo = Levels
    BY <1>2 DEF QueueInv, Queued
  <2>2. fifo' = [fifo EXCEPT ![l] = Cut(@, n)]
    BY DEF Unlink, Lists!RemoveAt, Cut
  <2>3. fifo'[l] \in Seq(Orders) /\ Drops(fifo[l], fifo'[l], n)
    BY <2>1, <2>2, CutDrops
  <2>4. Loses(fifo[l], fifo'[l], n)
    BY <2>1, <2>3, DropsBoth
  <2> QED  BY <2>1, <2>2, <2>3, <2>4 DEF FifoLoses
<1> QED  BY <1>1, <1>2, <1>3, <1>6, <1>7, <1>8, OrderDies

----------------------------------------------------------------------------
(* An order changes its quantity.                                          *)

LEMMA OrderResizes ==
    ASSUME CellsInv, NEW lists, NEW spare, LinksInv(lists, spare),
           QueueInv(lists), NEW l \in Levels, NEW n \in DOMAIN fifo[l],
           NEW c \in ChunkIds, NEW i \in FullSlots(chunks[c]),
           fifo[l][n].loc = <<c, i>>, NEW q \in Nat \ {0},
           NEW ch, Resizes(chunks[c], i, q, ch),
           chunks' = [chunks EXCEPT ![c] = ch],
           fifo' = [fifo EXCEPT ![l][n].qty = q],
           UNCHANGED <<used, freeChunk, live, levels>>
    PROVE  StoreInv'
<1>1. CellsInv'
  BY CellsResize
<1>2. /\ chunks' \in [ChunkIds -> Chunks] /\ chunks'[c] = ch /\ i \in SlotIds
      /\ \A b \in ChunkIds \ {c} : chunks'[b] = chunks[b]
  BY DEF CellsInv, Resizes, FullSlots
<1>3. LinksInv(lists, spare)'
  <2>1. \A b \in ChunkIds : SameLinks(chunks[b], chunks'[b])
    <3>1. SameLinks(chunks[c], chunks'[c])
      BY <1>2 DEF SameLinks, Resizes
    <3>2. \A b \in ChunkIds \ {c} : SameLinks(chunks[b], chunks'[b])
      BY <1>2 DEF SameLinks
    <3> QED  BY <3>1, <3>2
  <2> QED  BY <2>1, LinksKeep
<1>4. QueueInv(lists)'
  <2>1. fifo[l] \in Seq(Orders) /\ DOMAIN fifo = Levels
    BY DEF QueueInv, Queued
  <2>2. PICK r : r = [fifo[l] EXCEPT ![n].qty = q]
    OBVIOUS
  <2>3. r \in Seq(Orders) /\ Requoted(fifo[l], r, n, q)
    BY <2>1, <2>2, ResizedQueue
  <2>4. /\ fifo'[l] = r /\ DOMAIN fifo' = Levels
        /\ \A m \in Levels \ {l} : fifo'[m] = fifo[m]
    BY <2>1, <2>2
  <2>5. SlotBecomes(c, i, q)
    BY <1>2 DEF SlotBecomes, Resizes
  <2> QED  BY <1>2, <2>3, <2>4, <2>5, QueueResizes
<1> QED  BY <1>1, <1>3, <1>4 DEF StoreInv

LEMMA ShrinkStays ==
    ASSUME StoreInv, NEW l \in Levels, NEW n \in DOMAIN fifo[l],
           NEW q \in Nat \ {0}, Shrink(l, n, q)
    PROVE  StoreInv'
<1>1. CellsInv
  BY DEF StoreInv
<1>2. PICK lists, spare : LinksInv(lists, spare) /\ QueueInv(lists)
  BY DEF StoreInv
<1>3. PICK c \in ChunkIds, i \in SlotIds :
         /\ i \in FullSlots(chunks[c])
         /\ fifo[l][n].loc = <<c, i>>
  BY <1>1, <1>2, OrderIs
<1>4. chunks[c] \in Chunks /\ Counted(chunks[c])
  BY <1>1 DEF CellsInv
<1>5. PICK ch : ch = [chunks[c] EXCEPT !.s[i] = q]
  OBVIOUS
<1>6. Resizes(chunks[c], i, q, ch)
  BY <1>3, <1>4, <1>5 DEF Resizes, Chunks, Counted
<1>7. /\ chunks' = [chunks EXCEPT ![c] = ch]
      /\ fifo' = [fifo EXCEPT ![l][n].qty = q]
      /\ UNCHANGED <<used, freeChunk, live, levels>>
  BY <1>3, <1>5 DEF Shrink
<1> QED  BY <1>1, <1>2, <1>3, <1>6, <1>7, OrderResizes

----------------------------------------------------------------------------
(* front().                                                                *)

LEMMA FirstLiveIs ==
    ASSUME NEW ch \in Chunks, Counted(ch), ch.live # 0
    PROVE  /\ FirstLive(ch) \in FullSlots(ch)
           /\ \A j \in FullSlots(ch) : FirstLive(ch) <= j
<1>1. FullSlots(ch) # {} /\ FullSlots(ch) \subseteq Nat
  BY EmptyChunk, StoreShape DEF FullSlots, SlotIds
<1>2. PICK i \in FullSlots(ch) : \A j \in FullSlots(ch) : i <= j
  BY <1>1, NatLeast
<1>3. \A j \in SlotIds : j \in Int
  BY StoreShape DEF SlotIds
<1>4. /\ i \in SlotIds /\ ch.head <= i /\ ch.s[i] # 0
      /\ \A j \in SlotIds : ch.head <= j /\ j < i => ch.s[j] = 0
  BY <1>2, <1>3 DEF FullSlots, Counted
<1>5. PICK x : x = FirstLive(ch)
  OBVIOUS
<1>6. /\ x \in SlotIds /\ ch.head <= x /\ ch.s[x] # 0
      /\ \A j \in SlotIds : ch.head <= j /\ j < x => ch.s[j] = 0
  BY <1>4, <1>5 DEF FirstLive
<1>7. \A j \in FullSlots(ch) : x <= j
  BY <1>3, <1>6 DEF FullSlots, Counted
<1> QED  BY <1>5, <1>6, <1>7 DEF FullSlots

\* The first chunk of a level holds its oldest order, in its first live slot.
LEMMA FrontIs ==
    ASSUME CellsInv, NEW lists, NEW spare, LinksInv(lists, spare),
           QueueInv(lists), NEW l \in Levels, levels[l].head # NIL,
           NEW c, c = levels[l].head, NEW i, i = FirstLive(chunks[c])
    PROVE  /\ c \in ChunkIds /\ i \in FullSlots(chunks[c])
           /\ \A j \in FullSlots(chunks[c]) : i <= j
           /\ 1 \in DOMAIN fifo[l] /\ fifo[l][1].loc = <<c, i>>
<1>1. Linked(l, lists[l]) /\ Queued(l, lists[l])
  BY DEF LinksInv, QueueInv
<1>2. /\ 1 \in DOMAIN lists[l] /\ lists[l][1] = c /\ Differ(lists[l])
      /\ DOMAIN lists[l] = 1 .. Len(lists[l]) /\ Len(lists[l]) \in Nat
  BY <1>1 DEF Linked, HeadOf
<1>3. /\ c \in ChunkIds /\ chunks[c].level = l /\ chunks[c].live # 0
      /\ chunks[c] \in Chunks /\ Counted(chunks[c])
  BY <1>1, <1>2 DEF Linked, CellsInv
<1>4. i \in FullSlots(chunks[c]) /\ \A j \in FullSlots(chunks[c]) : i <= j
  BY <1>3, FirstLiveIs
<1>5. PICK n \in DOMAIN fifo[l] : fifo[l][n].loc = <<c, i>>
  BY <1>3, <1>4 DEF QueueInv
<1>6. 1 \in DOMAIN fifo[l] /\ n \in Nat /\ n >= 1
  BY <1>1 DEF Queued
<1>7. CASE n = 1
  BY <1>3, <1>4, <1>5, <1>6, <1>7
<1>8. CASE n # 1
  <2>1. PICK b \in ChunkIds, x \in SlotIds :
           /\ x \in FullSlots(chunks[b])
           /\ fifo[l][1].loc = <<b, x>>
    BY <1>6, OrderIs
  <2>2. Before(lists[l], fifo[l][1].loc, fifo[l][n].loc)
    BY <1>1, <1>5, <1>6, <1>8 DEF Queued
  <2>3. PICK j, k \in DOMAIN lists[l] :
           /\ lists[l][j] = b /\ lists[l][k] = c
           /\ j < k \/ (j = k /\ x < i)
    BY <1>5, <2>1, <2>2 DEF Before
  <2>4. k = 1
    BY <1>2, <2>3 DEF Differ
  <2>5. j = 1 /\ x < i
    BY <1>2, <2>3, <2>4
  <2>6. x \in Int /\ i \in Int /\ i <= x
    BY <1>2, <1>4, <2>1, <2>3, <2>5, StoreShape DEF FullSlots, SlotIds
  <2> QED  BY <2>5, <2>6
<1> QED  BY <1>7, <1>8

LEMMA FillFrontStays ==
    ASSUME StoreInv, NEW l \in Levels, NEW q \in Nat \ {0}, FillFront(l, q)
    PROVE  StoreInv'
<1>1. CellsInv
  BY DEF StoreInv
<1>2. PICK lists, spare : LinksInv(lists, spare) /\ QueueInv(lists)
  BY DEF StoreInv
<1>3. levels[l].head # NIL
  BY DEF FillFront
<1>4. PICK c, i : c = levels[l].head /\ i = FirstLive(chunks[c])
  OBVIOUS
<1>5. /\ c \in ChunkIds /\ i \in FullSlots(chunks[c])
      /\ \A j \in FullSlots(chunks[c]) : i <= j
      /\ 1 \in DOMAIN fifo[l] /\ fifo[l][1].loc = <<c, i>>
  BY <1>1, <1>2, <1>3, <1>4, FrontIs
<1>6. /\ chunks[c] \in Chunks /\ Counted(chunks[c]) /\ i \in SlotIds
      /\ i \in 0 .. ChunkSlots
  BY <1>1, <1>5, StoreShape DEF CellsInv, FullSlots, SlotIds
<1>7. PICK ch : ch = [chunks[c] EXCEPT !.head = i]
  OBVIOUS
<1>8. /\ ch.s = chunks[c].s /\ ch \in Chunks /\ ch.head = i
      /\ ch.level = chunks[c].level /\ ch.prev = chunks[c].prev
      /\ ch.next = chunks[c].next /\ ch.tail = chunks[c].tail
      /\ ch.live = chunks[c].live
  BY <1>6, <1>7 DEF Chunks
<1>9. q <= chunks[c].s[i] /\ chunks[c].s[i] = fifo[l][1].qty
      /\ chunks[c].s[i] \in Nat /\ fifo[l] \in Seq(Orders) /\ DOMAIN fifo = Levels
  <2>1. fifo[l] \in Seq(Orders) /\ DOMAIN fifo = Levels
    BY <1>2 DEF QueueInv, Queued
  <2>2. chunks[c].s[i] = fifo[l][1].qty
    BY <1>2, <1>5 DEF QueueInv, Queued
  <2>3. q <= chunks[c].s[i]
    BY <1>4, <1>7, <1>8 DEF FillFront
  <2> QED  BY <1>6, <2>1, <2>2, <2>3 DEF Chunks
<1>10. CASE q = chunks[c].s[i]
  <2>1. PICK ch2 : ch2 = Killed(ch, i)
    OBVIOUS
  <2>2. Bury(c, ch2) /\ fifo' = [fifo EXCEPT ![l] = Tail(@)]
    BY <1>4, <1>7, <1>8, <1>10, <2>1 DEF FillFront
  <2>3. Dies(chunks[c], i, ch2)
    BY <1>5, <1>6, <1>7, <2>1, KilledDies
  <2>4. FifoLoses(l, 1)
    <3>1. fifo'[l] \in Seq(Orders) /\ Drops(fifo[l], fifo'[l], 1)
      BY <1>5, <1>9, <2>2, TailDrops
    <3>2. Loses(fifo[l], fifo'[l], 1)
      BY <1>5, <1>9, <3>1, DropsBoth
    <3> QED  BY <1>9, <2>2, <3>1, <3>2 DEF FifoLoses
  <2> QED  BY <1>1, <1>2, <1>5, <2>2, <2>3, <2>4, OrderDies
<1>11. CASE q # chunks[c].s[i]
  <2>1. PICK r : r = chunks[c].s[i] - q
    OBVIOUS
  <2>2. r \in Nat \ {0}
    BY <1>9, <1>11, <2>1
  <2>3. PICK ch2 : ch2 = [ch EXCEPT !.s[i] = r]
    OBVIOUS
  <2>4. /\ chunks' = [chunks EXCEPT ![c] = ch2]
        /\ UNCHANGED <<used, freeChunk, live, levels>>
    <3>1. ch2 = [ch EXCEPT !.s[i] = @ - q]
      BY <1>6, <1>8, <2>1, <2>3 DEF Chunks
    <3> QED  BY <1>4, <1>7, <1>8, <1>11, <3>1 DEF FillFront
  <2>5. fifo' = [fifo EXCEPT ![l][1].qty = r]
    <3>1. fifo' = [fifo EXCEPT ![l][1].qty = @ - q]
      BY <1>4, <1>7, <1>8, <1>11 DEF FillFront
    <3> QED  BY <1>9, <2>1, <3>1
  <2>6. Resizes(chunks[c], i, r, ch2)
    BY <1>5, <1>6, <1>8, <2>2, <2>3 DEF Resizes, Chunks
  <2> QED  BY <1>1, <1>2, <1>5, <2>2, <2>4, <2>5, <2>6, OrderResizes
<1> QED  BY <1>10, <1>11

----------------------------------------------------------------------------
(* The invariant.                                                          *)

LEMMA EmptyStore ==
    ASSUME Init
    PROVE  StoreInv
<1>1. Blank \in Chunks /\ Blank.live = 0 /\ \A i \in SlotIds : Blank.s[i] = 0
  BY StoreShape DEF Blank, Chunks, MaybeChunk, SlotIds
<1>2. \A c \in ChunkIds : chunks[c] = Blank
  BY DEF Init
<1>3. CellsInv
  <2>1. chunks \in [ChunkIds -> Chunks]
    BY <1>1 DEF Init
  <2>2. FullSlots(Blank) = {}
    BY <1>1 DEF FullSlots
  <2>3. \A c \in ChunkIds : Counted(chunks[c])
    BY <1>1, <1>2, <2>2, FS_EmptySet DEF Counted
  <2>4. LiveSlots = {}
    BY <1>1, <1>2 DEF LiveSlots, Locs
  <2> QED  BY <2>1, <2>3, <2>4, FS_EmptySet, StoreShape DEF CellsInv, Init
<1>4. PICK lists, spare : lists = [l \in Levels |-> <<>>] /\ spare = <<>>
  OBVIOUS
<1>5. LinksInv(lists, spare)
  <2>1. levels \in [Levels -> [head : MaybeChunk, tail : MaybeChunk]]
    BY DEF Init, MaybeChunk
  <2>2. used \in 0 .. MaxOrders /\ used = 0 /\ freeChunk = NIL
    BY StoreShape DEF Init
  <2>3. \A l \in Levels : Linked(l, lists[l])
    BY <1>4 DEF Init, Linked, Differ, HeadOf, EndOf
  <2>4. Spare(spare)
    BY <1>4, <2>2 DEF Spare, Differ, HeadOf
  <2>5. \A c \in ChunkIds : chunks[c].live = 0 /\ ~(c < used)
    BY <1>1, <1>2, <2>2, StoreShape DEF ChunkIds
  <2> QED  BY <1>4, <2>1, <2>2, <2>3, <2>4, <2>5 DEF LinksInv
<1>6. QueueInv(lists)
  <2>1. DOMAIN fifo = Levels /\ \A l \in Levels : Queued(l, lists[l])
    BY DEF Init, Queued
  <2>2. \A c \in ChunkIds : FullSlots(chunks[c]) = {}
    BY <1>1, <1>2 DEF FullSlots
  <2> QED  BY <2>1, <2>2 DEF QueueInv
<1> QED  BY <1>3, <1>5, <1>6 DEF StoreInv

LEMMA StoreStays ==
    ASSUME StoreInv, [Next]_vars
    PROVE  StoreInv'
<1>1. ASSUME NEW l \in Levels, NEW q \in Qtys, Push(l, q) PROVE StoreInv'
  <2>1. q \in Nat \ {0}
    BY QtysArePositive
  <2> QED  BY <1>1, <2>1, PushBehind, PushAnew
<1>2. ASSUME NEW l \in Levels, NEW q \in Qtys, FillFront(l, q) PROVE StoreInv'
  <2>1. q \in Nat \ {0}
    BY QtysArePositive
  <2> QED  BY <1>2, <2>1, FillFrontStays
<1>3. ASSUME NEW l \in Levels, NEW n \in DOMAIN fifo[l], Unlink(l, n)
      PROVE  StoreInv'
  BY <1>3, UnlinkStays
<1>4. ASSUME NEW l \in Levels, NEW n \in DOMAIN fifo[l], NEW q \in Qtys,
             Shrink(l, n, q)
      PROVE  StoreInv'
  <2>1. q \in Nat \ {0}
    BY QtysArePositive
  <2> QED  BY <1>4, <2>1, ShrinkStays
<1>5. CASE UNCHANGED vars
  <2>1. /\ chunks' = chunks /\ live' = live /\ fifo' = fifo
        /\ UNCHANGED <<levels, freeChunk, used>>
    BY <1>5 DEF vars
  <2>2. CellsInv'
    BY <2>1 DEF StoreInv, CellsInv, LiveSlots
  <2>3. PICK lists, spare : LinksInv(lists, spare) /\ QueueInv(lists)
    BY DEF StoreInv
  <2>4. LinksInv(lists, spare)'
    <3>1. \A c \in ChunkIds : SameLinks(chunks[c], chunks'[c])
      BY <2>1 DEF SameLinks
    <3> QED  BY <2>1, <2>3, <3>1, LinksKeep
  <2>5. QueueInv(lists)'
    <3>1. ASSUME NEW l \in Levels PROVE Queued(l, lists[l])'
      <4>1. Queued(l, lists[l])
        BY <2>3 DEF QueueInv
      <4> QED  BY <2>1, <4>1 DEF Queued, Before
    <3>2. \A c \in ChunkIds : chunks'[c] = chunks[c]
      BY <2>1
    <3> QED  BY <2>1, <2>3, <3>1, <3>2 DEF QueueInv, FullSlots
  <2> QED  BY <2>2, <2>4, <2>5 DEF StoreInv
<1> QED  BY <1>1, <1>2, <1>3, <1>4, <1>5 DEF Next

\* Whatever the calls, the chunks are linked as the levels and the free list
\* need, their counts are right, and every level queues the orders it was given.
THEOREM StoreIsSound == Spec => []StoreInv
<1>1. Init => StoreInv
  BY EmptyStore
<1>2. StoreInv /\ [Next]_vars => StoreInv'
  BY StoreStays
<1> QED  BY <1>1, <1>2, PTL DEF Spec

----------------------------------------------------------------------------
(* What it gives.                                                          *)

LEMMA SoundTypes ==
    ASSUME StoreInv
    PROVE  TypeOK
<1>1. CellsInv
  BY DEF StoreInv
<1>2. PICK lists, spare : LinksInv(lists, spare) /\ QueueInv(lists)
  BY DEF StoreInv
<1>3. live \in 0 .. MaxOrders
  BY <1>1, LocsFinite, FS_CardinalityType, StoreShape DEF CellsInv
<1>4. chunks \in [ChunkIds -> Chunks]
  BY <1>1 DEF CellsInv
<1>5. freeChunk \in MaybeChunk
  BY <1>2, FreeIsMaybe
<1>6. /\ used \in 0 .. MaxOrders /\ DOMAIN fifo = Levels
      /\ levels \in [Levels -> [head : MaybeChunk, tail : MaybeChunk]]
  BY <1>2 DEF LinksInv, QueueInv
<1> QED  BY <1>3, <1>4, <1>5, <1>6 DEF TypeOK

\* No call leaves the store with a chunk number, a count or a quantity that is
\* out of range: in particular no more chunks are handed out than the vector
\* holds.
THEOREM StoreTypes == Spec => []TypeOK
<1>1. StoreInv => TypeOK
  BY SoundTypes
<1> QED  BY <1>1, StoreIsSound, PTL

LEMMA SoundFront ==
    ASSUME StoreInv
    PROVE  FrontIsOldest
<1>1. CellsInv
  BY DEF StoreInv
<1>2. PICK lists, spare : LinksInv(lists, spare) /\ QueueInv(lists)
  BY DEF StoreInv
<1>3. ASSUME NEW l \in Levels, fifo[l] # <<>>
      PROVE  /\ levels[l].head # NIL /\ Front(l) = fifo[l][1].loc
             /\ Front(l)[2] < chunks[Front(l)[1]].tail
  <2>1. Linked(l, lists[l]) /\ Queued(l, lists[l])
    BY <1>2 DEF LinksInv, QueueInv
  <2>2. 1 \in DOMAIN fifo[l]
    BY <1>3, <2>1 DEF Queued
  <2>3. PICK h \in DOMAIN lists[l] : TRUE
    BY <1>1, <1>2, <2>2, OrderPlace
  <2>4. levels[l].head # NIL
    <3>1. 1 \in DOMAIN lists[l] /\ lists[l] # <<>> /\ lists[l][1] \in ChunkIds
      BY <2>1, <2>3 DEF Linked
    <3> QED  BY <2>1, <3>1, NilApart DEF Linked, HeadOf
  <2>5. PICK c, i : c = levels[l].head /\ i = FirstLive(chunks[c])
    OBVIOUS
  <2>6. /\ c \in ChunkIds /\ i \in FullSlots(chunks[c])
        /\ fifo[l][1].loc = <<c, i>>
    BY <1>1, <1>2, <2>4, <2>5, FrontIs
  <2>7. Front(l) = <<c, i>>
    BY <2>5 DEF Front
  <2>8. i < chunks[c].tail
    BY <1>1, <2>6 DEF CellsInv, Counted
  <2> QED  BY <2>4, <2>6, <2>7, <2>8
<1> QED  BY <1>3 DEF FrontIsOldest

\* cross() is given the oldest order of a level, whichever orders before it
\* died, and the scan of front() stops before the tail of the chunk.
THEOREM OldestFirst == Spec => []FrontIsOldest
<1>1. StoreInv => FrontIsOldest
  BY SoundFront
<1> QED  BY <1>1, StoreIsSound, PTL

----------------------------------------------------------------------------
(* The walk along a list.                                                  *)

\* One unfolding of the walk, for walks of up to m chunks.
WalkBody(m, visit, f) ==
    [n \in 0 .. m |->
       [b \in MaybeChunk |->
          IF n = 0 \/ b = NIL THEN <<>>
          ELSE visit[b] \o f[n - 1][chunks[b].next]]]

LEMMA WalkExists ==
    ASSUME NEW visit
    PROVE  \A m \in Nat : \E f : f = WalkBody(m, visit, f)
<1> DEFINE N == {m \in Nat : \E f : f = WalkBody(m, visit, f)}
<1>1. 0 \in N
  <2> DEFINE f == [n \in 0 .. 0 |-> [b \in MaybeChunk |-> <<>>]]
  <2>1. f = WalkBody(0, visit, f)
    BY DEF WalkBody
  <2> HIDE DEF f
  <2> QED  BY <2>1
<1>2. ASSUME NEW m \in Nat, m \in N
      PROVE  m + 1 \in N
  <2>1. PICK f : f = WalkBody(m, visit, f)
    BY <1>2
  <2>2. PICK h : h = WalkBody(m + 1, visit, f)
    OBVIOUS
  <2>3. \A n \in 0 .. m : h[n] = f[n]
    <3> SUFFICES ASSUME NEW n \in 0 .. m PROVE h[n] = f[n]
      OBVIOUS
    <3>1. h[n] = [b \in MaybeChunk |->
                    IF n = 0 \/ b = NIL THEN <<>>
                    ELSE visit[b] \o f[n - 1][chunks[b].next]]
      BY <2>2 DEF WalkBody
    <3>2. f[n] = [b \in MaybeChunk |->
                    IF n = 0 \/ b = NIL THEN <<>>
                    ELSE visit[b] \o f[n - 1][chunks[b].next]]
      BY <2>1 DEF WalkBody
    <3> QED  BY <3>1, <3>2
  <2>4. \A n \in 0 .. (m + 1) : n # 0 => h[n - 1] = f[n - 1]
    <3>1. \A n \in 0 .. (m + 1) : n # 0 => n - 1 \in 0 .. m
      OBVIOUS
    <3> QED  BY <2>3, <3>1
  <2>5. WalkBody(m + 1, visit, f) = WalkBody(m + 1, visit, h)
    BY <2>4 DEF WalkBody
  <2>6. \E g : g = WalkBody(m + 1, visit, g)
    BY <2>2, <2>5
  <2> QED  BY <2>6
<1>3. \A m \in Nat : m \in N
  <2> HIDE DEF N
  <2> QED  BY <1>1, <1>2, NatInductive
<1> QED  BY <1>3

LEMMA VisitsIsWalk ==
    ASSUME NEW visit, NEW c
    PROVE  \E f : /\ f = WalkBody(MaxOrders + 1, visit, f)
                  /\ Visits(c, visit) = f[MaxOrders + 1][c]
<1> DEFINE f == CHOOSE g : g = WalkBody(MaxOrders + 1, visit, g)
<1>1. f = WalkBody(MaxOrders + 1, visit, f)
  <2>1. MaxOrders + 1 \in Nat
    BY StoreShape
  <2> QED  BY <2>1, WalkExists
<1>2. Visits(c, visit) = f[MaxOrders + 1][c]
  BY DEF Visits, WalkBody
<1> QED  BY <1>1, <1>2

\* The visits to the chunks of q are the pieces of t, one after the other: that
\* of the k-th chunk begins at first[k].
Pieces(t, q, first, visit) ==
    /\ first[1] = 1 /\ first[Len(q) + 1] = Len(t) + 1
    /\ \A k \in 1 .. (Len(q) + 1) : first[k] \in 1 .. (Len(t) + 1)
    /\ \A k \in DOMAIN q :
          /\ first[k] <= first[k + 1]
          /\ visit[q[k]] = SubSeq(t, first[k], first[k + 1] - 1)

\* The chunk after those of q up to its k-th.
Onward(q, k) == IF k = Len(q) + 1 THEN NIL ELSE q[k]

LEMMA WalkTells ==
    ASSUME NEW S, NEW t \in Seq(S), NEW q \in Seq(ChunkIds),
           Len(q) <= MaxOrders + 1,
           \A k \in DOMAIN q : chunks[q[k]].next = Following(q, k),
           NEW first, NEW visit, Pieces(t, q, first, visit)
    PROVE  Visits(HeadOf(q), visit) = t
<1>1. PICK M : M = MaxOrders + 1
  OBVIOUS
<1>2. M \in Nat /\ Len(q) \in Nat /\ DOMAIN q = 1 .. Len(q) /\ Len(q) <= M
  BY <1>1, StoreShape
<1>3. PICK f : /\ f = WalkBody(M, visit, f)
               /\ Visits(HeadOf(q), visit) = f[M][HeadOf(q)]
  BY <1>1, VisitsIsWalk
<1>4. ASSUME NEW n \in 0 .. M, NEW b \in MaybeChunk
      PROVE  f[n][b] = IF n = 0 \/ b = NIL THEN <<>>
                       ELSE visit[b] \o f[n - 1][chunks[b].next]
  <2>1. WalkBody(M, visit, f)[n][b] =
           IF n = 0 \/ b = NIL THEN <<>>
           ELSE visit[b] \o f[n - 1][chunks[b].next]
    BY DEF WalkBody
  <2> QED  BY <1>3, <2>1
<1> DEFINE T == {m \in Nat : \A k \in 1 .. (Len(q) + 1) : \A n \in 0 .. M :
                    k + m = Len(q) + 1 /\ m <= n =>
                       f[n][Onward(q, k)] = SubSeq(t, first[k], Len(t))}
<1>5. 0 \in T
  <2> SUFFICES ASSUME NEW k \in 1 .. (Len(q) + 1), NEW n \in 0 .. M,
                      k + 0 = Len(q) + 1
               PROVE  f[n][Onward(q, k)] = SubSeq(t, first[k], Len(t))
    OBVIOUS
  <2>1. k = Len(q) + 1
    BY <1>2
  <2>2. Onward(q, k) = NIL /\ NIL \in MaybeChunk
    BY <2>1 DEF Onward, MaybeChunk
  <2>3. f[n][NIL] = <<>>
    BY <1>4, <2>2
  <2>4. first[k] = Len(t) + 1
    BY <2>1 DEF Pieces
  <2>5. SubSeq(t, Len(t) + 1, Len(t)) = <<>>
    OBVIOUS
  <2> QED  BY <2>2, <2>3, <2>4, <2>5
<1>6. ASSUME NEW m \in Nat, m \in T
      PROVE  m + 1 \in T
  <2> SUFFICES ASSUME NEW k \in 1 .. (Len(q) + 1), NEW n \in 0 .. M,
                      k + (m + 1) = Len(q) + 1, m + 1 <= n
               PROVE  f[n][Onward(q, k)] = SubSeq(t, first[k], Len(t))
    OBVIOUS
  <2>1. PICK h, p : h = k + 1 /\ p = n - 1
    OBVIOUS
  <2>2. /\ k \in DOMAIN q /\ h \in 1 .. (Len(q) + 1) /\ h + m = Len(q) + 1
        /\ p \in 0 .. M /\ m <= p /\ n # 0 /\ k # Len(q) + 1
    BY <1>2, <2>1
  <2>3. Onward(q, k) = q[k] /\ q[k] \in MaybeChunk /\ q[k] # NIL
    BY <2>2, NilApart DEF Onward, MaybeChunk
  <2>4. f[n][q[k]] = visit[q[k]] \o f[p][chunks[q[k]].next]
    BY <1>4, <2>1, <2>2, <2>3
  <2>5. chunks[q[k]].next = Onward(q, h)
    BY <1>2, <2>1, <2>2 DEF Following, Onward
  <2>6. f[p][Onward(q, h)] = SubSeq(t, first[h], Len(t))
    BY <1>6, <2>2
  <2>7. /\ visit[q[k]] = SubSeq(t, first[k], first[h] - 1)
        /\ first[k] <= first[h]
        /\ first[k] \in 1 .. (Len(t) + 1) /\ first[h] \in 1 .. (Len(t) + 1)
    BY <2>1, <2>2 DEF Pieces
  <2>8. SubSeq(t, first[k], first[h] - 1) \o SubSeq(t, first[h], Len(t))
          = SubSeq(t, first[k], Len(t))
    BY <2>7, PiecesJoin
  <2> QED  BY <2>3, <2>4, <2>5, <2>6, <2>7, <2>8
<1>7. Len(q) \in T
  <2>1. \A n \in Nat : n \in T
    <3> HIDE DEF T
    <3> QED  BY <1>5, <1>6, NatInductive
  <2> HIDE DEF T
  <2> QED  BY <1>2, <2>1
<1>8. f[M][Onward(q, 1)] = SubSeq(t, first[1], Len(t))
  <2>1. 1 \in 1 .. (Len(q) + 1) /\ M \in 0 .. M /\ 1 + Len(q) = Len(q) + 1
    BY <1>2
  <2> QED  BY <1>2, <1>7, <2>1
<1>9. Onward(q, 1) = HeadOf(q)
  <2>1. q = <<>> <=> Len(q) = 0
    OBVIOUS
  <2> QED  BY <1>2, <2>1 DEF Onward, HeadOf
<1>10. first[1] = 1 /\ SubSeq(t, 1, Len(t)) = t
  BY DEF Pieces
<1> QED  BY <1>3, <1>8, <1>9, <1>10

LEMMA DifferFits ==
    ASSUME NEW q \in Seq(ChunkIds), Differ(q)
    PROVE  Len(q) <= MaxOrders + 1
<1>1. Len(q) \in Nat /\ DOMAIN q = 1 .. Len(q) /\ q \in [1 .. Len(q) -> ChunkIds]
  OBVIOUS
<1>2. q \in Injection(1 .. Len(q), ChunkIds)
  BY <1>1 DEF Injection, IsInjective, Differ
<1>3. IsFiniteSet(ChunkIds) /\ Cardinality(ChunkIds) = MaxOrders + 1
  BY StoreShape, FS_Interval DEF ChunkIds
<1>4. Cardinality(1 .. Len(q)) <= Cardinality(ChunkIds)
  BY <1>2, <1>3, FS_Injection
<1>5. Cardinality(1 .. Len(q)) = Len(q)
  BY <1>1, FS_Interval
<1> QED  BY <1>3, <1>4, <1>5

\* The chunks of a list, in its order.
LEMMA ChainIs ==
    ASSUME NEW q \in Seq(ChunkIds), Differ(q),
           \A k \in DOMAIN q : chunks[q[k]].next = Following(q, k)
    PROVE  Chain(HeadOf(q)) = q
<1>1. PICK first : first = [k \in 1 .. (Len(q) + 1) |-> k]
  OBVIOUS
<1>2. PICK visit : visit = [b \in ChunkIds |-> <<b>>]
  OBVIOUS
<1>3. ASSUME NEW k \in DOMAIN q
      PROVE  /\ first[k] <= first[k + 1]
             /\ visit[q[k]] = SubSeq(q, first[k], first[k + 1] - 1)
  <2>1. k \in 1 .. Len(q) /\ k + 1 \in 1 .. (Len(q) + 1) /\ k + 1 - 1 = k
    OBVIOUS
  <2>2. first[k] = k /\ first[k + 1] = k + 1
    BY <1>1, <2>1
  <2>3. SubSeq(q, k, k) = <<q[k]>>
    BY <2>1, OnePiece
  <2>4. q[k] \in ChunkIds /\ visit[q[k]] = <<q[k]>> /\ first[k + 1] - 1 = k
    BY <1>2, <2>1, <2>2
  <2>5. first[k] <= first[k + 1]
    BY <2>1, <2>2
  <2>6. visit[q[k]] = SubSeq(q, first[k], first[k + 1] - 1)
    BY <2>2, <2>3, <2>4
  <2> QED  BY <2>5, <2>6
<1>4. /\ first[1] = 1 /\ first[Len(q) + 1] = Len(q) + 1
      /\ \A k \in 1 .. (Len(q) + 1) : first[k] \in 1 .. (Len(q) + 1)
  BY <1>1
<1>5. Pieces(q, q, first, visit)
  BY <1>3, <1>4 DEF Pieces
<1>6. Visits(HeadOf(q), visit) = q
  BY <1>5, DifferFits, WalkTells
<1> QED  BY <1>2, <1>6 DEF Chain

LEMMA LevelChain ==
    ASSUME NEW l \in Levels, NEW s, Linked(l, s)
    PROVE  Chain(levels[l].head) = s
<1>1. /\ s \in Seq(ChunkIds) /\ Differ(s) /\ levels[l].head = HeadOf(s)
      /\ \A k \in DOMAIN s : chunks[s[k]].next = Following(s, k)
  BY DEF Linked
<1> QED  BY <1>1, ChainIs

LEMMA SpareChain ==
    ASSUME NEW s, Spare(s)
    PROVE  Chain(freeChunk) = s
<1>1. /\ s \in Seq(ChunkIds) /\ Differ(s) /\ freeChunk = HeadOf(s)
      /\ \A k \in DOMAIN s : chunks[s[k]].next = Following(s, k)
  BY DEF Spare
<1> QED  BY <1>1, ChainIs

LEMMA SoundLinks ==
    ASSUME StoreInv
    PROVE  ListsAreLinked
<1>1. PICK lists, spare : LinksInv(lists, spare)
  BY DEF StoreInv
<1>2. ASSUME NEW l \in Levels
      PROVE  LET chain == Chain(levels[l].head)
             IN  /\ levels[l].tail = IF chain = <<>> THEN NIL
                                     ELSE chain[Len(chain)]
                 /\ \A k \in DOMAIN chain :
                       /\ chunks[chain[k]].level = l
                       /\ chunks[chain[k]].prev = IF k = 1 THEN NIL
                                                  ELSE chain[k - 1]
  <2>1. Linked(l, lists[l])
    BY <1>1 DEF LinksInv
  <2>2. PICK chain : chain = Chain(levels[l].head) /\ chain = lists[l]
    BY <2>1, LevelChain
  <2>3. levels[l].tail = IF chain = <<>> THEN NIL ELSE chain[Len(chain)]
    BY <2>1, <2>2 DEF Linked, EndOf
  <2>4. ASSUME NEW k \in DOMAIN chain
        PROVE  /\ chunks[chain[k]].level = l
               /\ chunks[chain[k]].prev = IF k = 1 THEN NIL ELSE chain[k - 1]
    BY <2>1, <2>2 DEF Linked, Preceding
  <2> QED  BY <2>2, <2>3, <2>4
<1> QED  BY <1>2 DEF ListsAreLinked

\* Whichever chunks were dropped and reused, the list of a level can be walked
\* from both ends.
THEOREM StaysLinked == Spec => []ListsAreLinked
<1>1. StoreInv => ListsAreLinked
  BY SoundLinks
<1> QED  BY <1>1, StoreIsSound, PTL

\* The chunks that the lists of the levels reach, and those of the free list.
Reached == UNION {Lists!ToSet(Chain(levels[l].head)) : l \in Levels}

LEMMA ReachedIs ==
    ASSUME NEW lists, NEW spare, LinksInv(lists, spare)
    PROVE  /\ Reached = InUse
           /\ Lists!ToSet(Chain(freeChunk)) =
                {c \in ChunkIds : c < used /\ chunks[c].live = 0}
<1>1. \A l \in Levels : Linked(l, lists[l]) /\ Chain(levels[l].head) = lists[l]
  BY LevelChain DEF LinksInv
<1>2. Spare(spare) /\ Chain(freeChunk) = spare
  BY SpareChain DEF LinksInv
<1>3. Reached = UNION {Lists!ToSet(lists[l]) : l \in Levels}
  BY <1>1 DEF Reached
<1>4. ASSUME NEW c \in InUse
      PROVE  c \in UNION {Lists!ToSet(lists[l]) : l \in Levels}
  <2>1. /\ chunks[c].level \in Levels
        /\ \E k \in DOMAIN lists[chunks[c].level] :
              lists[chunks[c].level][k] = c
    BY PlaceOf DEF InUse
  <2> QED  BY <2>1 DEF Lists!ToSet
<1>5. ASSUME NEW l \in Levels, NEW c \in Lists!ToSet(lists[l])
      PROVE  c \in InUse
  <2>1. PICK k \in DOMAIN lists[l] : c = lists[l][k]
    BY DEF Lists!ToSet
  <2> QED  BY <1>1, <2>1 DEF Linked, InUse
<1>6. ASSUME NEW c \in Lists!ToSet(spare)
      PROVE  c \in ChunkIds /\ c < used /\ chunks[c].live = 0
  <2>1. PICK k \in DOMAIN spare : c = spare[k]
    BY DEF Lists!ToSet
  <2> QED  BY <1>2, <2>1 DEF Spare
<1>7. ASSUME NEW c \in ChunkIds, c < used, chunks[c].live = 0
      PROVE  c \in Lists!ToSet(spare)
  <2>1. \E k \in DOMAIN spare : spare[k] = c
    BY <1>7 DEF LinksInv
  <2> QED  BY <2>1 DEF Lists!ToSet
<1>8. Reached = InUse
  BY <1>3, <1>4, <1>5
<1>9. Lists!ToSet(spare) = {c \in ChunkIds : c < used /\ chunks[c].live = 0}
  BY <1>6, <1>7
<1> QED  BY <1>2, <1>8, <1>9

LEMMA SoundBounds ==
    ASSUME StoreInv
    PROVE  ChunksAreBounded
<1>1. CellsInv
  BY DEF StoreInv
<1>2. PICK lists, spare : LinksInv(lists, spare)
  BY DEF StoreInv
<1>3. PICK free : free = Lists!ToSet(Chain(freeChunk))
  OBVIOUS
<1>4. /\ Reached = InUse
      /\ free = {c \in ChunkIds : c < used /\ chunks[c].live = 0}
  BY <1>2, <1>3, ReachedIs
<1>5. Reached \cap free = {}
  BY <1>4 DEF InUse
<1>6. used \in 0 .. MaxOrders
  BY <1>2 DEF LinksInv
<1>7. Reached \cup free = 0 .. (used - 1)
  <2>1. ASSUME NEW c \in Reached \cup free PROVE c \in 0 .. (used - 1)
    <3>1. c \in ChunkIds /\ c < used
      BY <1>2, <1>4, PlaceOf DEF InUse
    <3> QED  BY <1>6, <3>1, StoreShape DEF ChunkIds
  <2>2. ASSUME NEW c \in 0 .. (used - 1) PROVE c \in Reached \cup free
    <3>1. c \in ChunkIds /\ c < used
      BY <1>6, StoreShape DEF ChunkIds
    <3> QED  BY <1>4, <3>1 DEF InUse
  <2> QED  BY <2>1, <2>2
<1>8. Cardinality(Reached) <= live
  BY <1>1, <1>4, FewInUse
<1>9. used <= MaxOrders
  BY <1>6, StoreShape
<1> QED  BY <1>3, <1>5, <1>7, <1>8, <1>9 DEF ChunksAreBounded, Reached

\* "Never fails: chunks in use <= live orders <= max_orders"
\* (internals.hpp:66), and every chunk handed out is in one level or on the free
\* list: the vector of chunks never grows under the references the book holds.
THEOREM NeverOutOfChunks == Spec => []ChunksAreBounded
<1>1. StoreInv => ChunksAreBounded
  BY SoundBounds
<1> QED  BY <1>1, StoreIsSound, PTL

----------------------------------------------------------------------------
(* for_each().                                                             *)

NthOf(S, k) == CHOOSE i \in S : Cardinality({j \in S : j <= i}) = k

\* g lists the numbers of S in ascending order, so the k-th is the one with k
\* of them up to it.
Ascends(S, w, g) ==
    /\ S \subseteq Int
    /\ \A j \in 1 .. w : g[j] \in S
    /\ \A i, j \in 1 .. w : i < j => g[i] < g[j]
    /\ \A x \in S : \E j \in 1 .. w : g[j] = x

LEMMA NthIs ==
    ASSUME NEW S, NEW w \in Nat, NEW g, Ascends(S, w, g)
    PROVE  /\ Cardinality(S) = w
           /\ \A k \in 1 .. w : NthOf(S, k) = g[k]
<1>0. /\ S \subseteq Int
      /\ \A j \in 1 .. w : g[j] \in S
      /\ \A i, j \in 1 .. w : i < j => g[i] < g[j]
      /\ \A x \in S : \E j \in 1 .. w : g[j] = x
  BY DEF Ascends
<1> DEFINE Img(k) == {x \in S : \E j \in 1 .. k : g[j] = x}
<1>1. ASSUME NEW k \in 0 .. w
      PROVE  Cardinality(Img(k)) = k
  <2>1. PICK f : f = [j \in 1 .. k |-> g[j]]
    OBVIOUS
  <2>2. \A i, j \in 1 .. k : i # j => g[i] # g[j]
    <3> SUFFICES ASSUME NEW i \in 1 .. k, NEW j \in 1 .. k, i # j
                 PROVE  g[i] # g[j]
      OBVIOUS
    <3>1. i \in 1 .. w /\ j \in 1 .. w /\ (i < j \/ j < i)
      OBVIOUS
    <3>2. g[i] \in Int /\ g[j] \in Int
      BY <1>0, <3>1
    <3> QED  BY <1>0, <3>1, <3>2
  <2>3. f \in Bijection(1 .. k, Img(k))
    <3>1. \A j \in 1 .. k : f[j] \in Img(k) /\ f[j] = g[j]
      BY <1>0, <2>1
    <3>2. \A x \in Img(k) : \E j \in 1 .. k : f[j] = x
      BY <2>1
    <3>3. f \in [1 .. k -> Img(k)]
      BY <2>1, <3>1
    <3> HIDE DEF Img
    <3> QED  BY <2>2, <3>1, <3>2, <3>3
             DEF Bijection, Injection, Surjection, IsInjective
  <2>4. IsFiniteSet(1 .. k) /\ Cardinality(1 .. k) = k
    BY FS_Interval
  <2>5. Cardinality(Img(k)) = Cardinality(1 .. k)
    <3> HIDE DEF Img
    <3> QED  BY <2>3, <2>4, FS_Bijection DEF ExistsBijection
  <2> QED  BY <2>4, <2>5
<1>2. Img(w) = S
  BY <1>0
<1>3. ASSUME NEW k \in 1 .. w
      PROVE  Cardinality({j \in S : j <= g[k]}) = k
  <2>1. {j \in S : j <= g[k]} = Img(k)
    <3>1. ASSUME NEW x \in S, x <= g[k] PROVE x \in Img(k)
      <4>1. PICK j \in 1 .. w : g[j] = x
        BY <1>0
      <4>2. ~(k < j)
        <5>1. k < j => g[k] < g[j]
          BY <1>0
        <5>2. g[k] \in Int /\ x \in Int
          BY <1>0
        <5> QED  BY <3>1, <4>1, <5>1, <5>2
      <4>3. j \in 1 .. k
        BY <4>2
      <4> QED  BY <4>1, <4>3
    <3>2. ASSUME NEW x \in Img(k) PROVE x \in S /\ x <= g[k]
      <4>1. PICK j \in 1 .. k : g[j] = x
        OBVIOUS
      <4>2. j \in 1 .. w /\ (j = k \/ j < k)
        OBVIOUS
      <4>3. g[j] \in Int /\ g[k] \in Int
        BY <1>0, <4>2
      <4>4. j < k => g[j] < g[k]
        BY <1>0, <4>2
      <4> QED  BY <4>1, <4>2, <4>3, <4>4
    <3> QED  BY <3>1, <3>2
  <2> HIDE DEF Img
  <2> QED  BY <1>1, <2>1
<1>4. ASSUME NEW k \in 1 .. w
      PROVE  NthOf(S, k) = g[k]
  <2>1. g[k] \in S /\ Cardinality({j \in S : j <= g[k]}) = k
    BY <1>0, <1>3
  <2>2. ASSUME NEW i \in S, Cardinality({j \in S : j <= i}) = k PROVE i = g[k]
    <3>1. PICK h \in 1 .. w : g[h] = i
      BY <1>0
    <3>2. Cardinality({j \in S : j <= g[h]}) = h
      BY <1>3
    <3> QED  BY <2>2, <3>1, <3>2
  <2> QED  BY <2>1, <2>2 DEF NthOf
<1>5. Cardinality(S) = w
  <2> HIDE DEF Img
  <2>1. w \in 0 .. w
    OBVIOUS
  <2> QED  BY <1>1, <1>2, <2>1
<1> QED  BY <1>4, <1>5

\* Where pl never goes back, what it takes to k is a piece of its domain; no
\* piece is empty.
Groups(n, m, pl) ==
    /\ pl \in [1 .. n -> 1 .. m]
    /\ \A i, j \in 1 .. n : i < j => pl[i] <= pl[j]
    /\ \A k \in 1 .. m : \E i \in 1 .. n : pl[i] = k

LEMMA GroupsAreIntervals ==
    ASSUME NEW n \in Nat, NEW m \in Nat, NEW pl, Groups(n, m, pl)
    PROVE  \E first :
              /\ first[1] = 1 /\ first[m + 1] = n + 1
              /\ \A k \in 1 .. (m + 1) : first[k] \in 1 .. (n + 1)
              /\ \A k \in 1 .. m :
                    /\ first[k] <= first[k + 1]
                    /\ \A i \in 1 .. n :
                          pl[i] = k <=> first[k] <= i /\ i < first[k + 1]
<1>0. /\ pl \in [1 .. n -> 1 .. m]
      /\ \A i, j \in 1 .. n : i < j => pl[i] <= pl[j]
      /\ \A k \in 1 .. m : \E i \in 1 .. n : pl[i] = k
  BY DEF Groups
<1>1. \A k \in 1 .. m : \E i \in 1 .. n :
         pl[i] = k /\ \A j \in 1 .. n : pl[j] = k => i <= j
  <2> SUFFICES ASSUME NEW k \in 1 .. m
               PROVE  \E i \in 1 .. n :
                         pl[i] = k /\ \A j \in 1 .. n : pl[j] = k => i <= j
    OBVIOUS
  <2>1. PICK I : I = {i \in 1 .. n : pl[i] = k}
    OBVIOUS
  <2>2. I # {} /\ I \subseteq Nat
    <3>1. \E i \in 1 .. n : pl[i] = k
      BY <1>0
    <3>2. I # {}
      BY <2>1, <3>1
    <3>3. I \subseteq Nat
      BY <2>1
    <3> QED  BY <3>2, <3>3
  <2>3. PICK i \in I : \A j \in I : i <= j
    BY <2>2, NatLeast
  <2> QED  BY <2>1, <2>3
<1>2. PICK first : first = [k \in 1 .. (m + 1) |->
         IF k = m + 1 THEN n + 1
         ELSE CHOOSE i \in 1 .. n :
                 pl[i] = k /\ \A j \in 1 .. n : pl[j] = k => i <= j]
  OBVIOUS
<1>3. first[m + 1] = n + 1
  BY <1>2
<1>4. ASSUME NEW k \in 1 .. m
      PROVE  /\ first[k] \in 1 .. n /\ pl[first[k]] = k
             /\ \A j \in 1 .. n : pl[j] = k => first[k] <= j
  <2>1. k \in 1 .. (m + 1) /\ k # m + 1
    OBVIOUS
  <2>2. first[k] = CHOOSE i \in 1 .. n :
                      pl[i] = k /\ \A j \in 1 .. n : pl[j] = k => i <= j
    BY <1>2, <2>1
  <2> QED  BY <1>1, <2>2
<1>5. ASSUME NEW k \in 1 .. (m + 1)
      PROVE  first[k] \in 1 .. (n + 1)
  <2>1. CASE k = m + 1
    BY <1>3, <2>1
  <2>2. CASE k # m + 1
    <3>1. k \in 1 .. m
      BY <2>2
    <3>2. first[k] \in 1 .. n
      BY <1>4, <3>1
    <3> QED  BY <3>2
  <2> QED  BY <2>1, <2>2
<1>6. ASSUME NEW k \in 1 .. m, NEW i \in 1 .. n
      PROVE  pl[i] = k <=> first[k] <= i /\ i < first[k + 1]
  <2>1. PICK a, b, h : a = first[k] /\ h = k + 1 /\ b = first[h]
    OBVIOUS
  <2>2. /\ a \in 1 .. n /\ pl[a] = k /\ h \in 1 .. (m + 1) /\ b \in 1 .. (n + 1)
        /\ (h = m + 1 => b = n + 1)
    BY <1>3, <1>4, <1>5, <2>1
  <2>3. h # m + 1 => b \in 1 .. n /\ pl[b] = h
    BY <1>4, <2>1, <2>2
  <2>4. pl[i] \in 1 .. m
    BY <1>0
  <2>5. ASSUME pl[i] = k PROVE a <= i /\ i < b
    <3>1. a <= i
      BY <1>4, <2>1, <2>5
    <3>2. CASE h = m + 1
      BY <2>2, <3>1, <3>2
    <3>3. CASE h # m + 1
      <4>1. b \in 1 .. n /\ pl[b] = k + 1
        BY <2>1, <2>3, <3>3
      <4>2. ~(b < i) /\ b # i
        BY <1>0, <2>4, <2>5, <4>1
      <4> QED  BY <3>1, <4>1, <4>2
    <3> QED  BY <3>2, <3>3
  <2>6. ASSUME a <= i, i < b PROVE pl[i] = k
    <3>1. k <= pl[i]
      BY <1>0, <2>2, <2>4, <2>6
    <3>2. CASE h = m + 1
      BY <2>1, <2>4, <3>1, <3>2
    <3>3. CASE h # m + 1
      <4>1. b \in 1 .. n /\ pl[b] = k + 1
        BY <2>1, <2>3, <3>3
      <4>2. pl[i] <= k + 1
        BY <1>0, <2>6, <4>1
      <4>3. pl[i] # k + 1
        <5> SUFFICES ASSUME pl[i] = k + 1 PROVE FALSE
          OBVIOUS
        <5>1. h \in 1 .. m /\ pl[i] = h
          BY <2>1, <2>2, <3>3
        <5>2. b <= i
          BY <1>4, <2>1, <5>1
        <5> QED  BY <2>2, <2>6, <5>2
      <4> QED  BY <2>4, <3>1, <4>2, <4>3
    <3> QED  BY <3>2, <3>3
  <2> QED  BY <2>1, <2>5, <2>6
<1>7. ASSUME NEW k \in 1 .. m
      PROVE  first[k] <= first[k + 1]
  <2>1. first[k] \in 1 .. n /\ pl[first[k]] = k
    BY <1>4
  <2>2. first[k] < first[k + 1]
    BY <1>6, <2>1
  <2>3. first[k + 1] \in 1 .. (n + 1)
    <3>1. k + 1 \in 1 .. (m + 1)
      OBVIOUS
    <3> QED  BY <1>5, <3>1
  <2> QED  BY <2>1, <2>2, <2>3
<1>8. first[1] = 1
  <2>1. CASE m = 0
    <3>1. n = 0
      <4> SUFFICES ASSUME n # 0 PROVE FALSE
        OBVIOUS
      <4>1. 1 \in 1 .. n
        OBVIOUS
      <4>2. pl[1] \in 1 .. 0
        BY <1>0, <2>1, <4>1
      <4> QED  BY <4>2
    <3> QED  BY <1>3, <2>1, <3>1
  <2>2. CASE m # 0
    <3>1. 1 \in 1 .. m
      BY <2>2
    <3>2. first[1] \in 1 .. n /\ pl[first[1]] = 1
      BY <1>4, <3>1
    <3>3. 1 \in 1 .. n /\ pl[1] \in 1 .. m
      BY <1>0, <3>2
    <3>4. pl[1] = 1
      BY <1>0, <3>2, <3>3
    <3>5. first[1] <= 1
      BY <1>4, <3>1, <3>3, <3>4
    <3> QED  BY <3>2, <3>5
  <2> QED  BY <2>1, <2>2
<1> QED  BY <1>3, <1>5, <1>6, <1>7, <1>8

\* The orders of level l from a on and before b are those of its chunk c.
Holds(l, c, a, b) ==
    /\ a \in 1 .. (Len(fifo[l]) + 1) /\ b \in 1 .. (Len(fifo[l]) + 1) /\ a <= b
    /\ \A n \in DOMAIN fifo[l] :
          fifo[l][n].loc[1] = c <=> a <= n /\ n < b

LEMMA ChunkListing ==
    ASSUME CellsInv, NEW lists, NEW spare, LinksInv(lists, spare),
           QueueInv(lists), NEW l \in Levels, NEW c \in ChunkIds,
           chunks[c].level = l, NEW a, NEW b, Holds(l, c, a, b)
    PROVE  ListChunk(c) = SubSeq(fifo[l], a, b - 1)
<1>1. PICK t, w : t = fifo[l] /\ w = b - a
  OBVIOUS
<1>2. /\ Queued(l, lists[l]) /\ Linked(l, lists[l]) /\ t \in Seq(Orders)
      /\ Len(t) \in Nat /\ DOMAIN t = 1 .. Len(t) /\ w \in Nat
      /\ a \in 1 .. (Len(t) + 1) /\ b \in 1 .. (Len(t) + 1)
  BY <1>1 DEF LinksInv, QueueInv, Queued, Holds
<1>3. PICK g : g = [j \in 1 .. w |-> t[a + j - 1].loc[2]]
  OBVIOUS
<1>4. PICK S : S = Lives(chunks[c])
  OBVIOUS
<1>5. chunks[c] \in Chunks /\ Counted(chunks[c]) /\ S = FullSlots(chunks[c])
  BY <1>4 DEF CellsInv, Counted, Lives, FullSlots
<1>6. ASSUME NEW j \in 1 .. w, NEW n, n = a + j - 1
      PROVE  /\ n \in DOMAIN t /\ g[j] \in S /\ t[n].loc = <<c, g[j]>>
             /\ t[n] = [loc |-> <<c, g[j]>>, qty |-> chunks[c].s[g[j]]]
  <2>1. n \in DOMAIN t /\ a <= n /\ n < b
    BY <1>1, <1>2, <1>6
  <2>2. t[n].loc[1] = c
    BY <1>1, <2>1 DEF Holds
  <2>3. PICK d \in ChunkIds, i \in SlotIds :
           /\ i \in FullSlots(chunks[d])
           /\ t[n].loc = <<d, i>>
           /\ chunks[d].s[i] = t[n].qty
    BY <1>1, <2>1, OrderIs
  <2>4. d = c /\ g[j] = i
    BY <1>3, <1>6, <2>2, <2>3
  <2>5. PICK o, x, y : o = t[n] /\ x = o.loc /\ y = o.qty
    OBVIOUS
  <2>6. o = [loc |-> x, qty |-> y]
    <3>1. o \in Orders
      BY <1>2, <2>1, <2>5
    <3> QED  BY <2>5, <3>1 DEF Orders
  <2>7. x = <<c, g[j]>> /\ y = chunks[c].s[g[j]] /\ g[j] \in S
    BY <1>5, <2>3, <2>4, <2>5
  <2> QED  BY <2>1, <2>5, <2>6, <2>7
<1>7. ASSUME NEW i \in 1 .. w, NEW j \in 1 .. w, i < j
      PROVE  g[i] < g[j]
  <2>1. PICK m, n : m = a + i - 1 /\ n = a + j - 1
    OBVIOUS
  <2>2. /\ m \in DOMAIN t /\ n \in DOMAIN t
        /\ t[m].loc = <<c, g[i]>> /\ t[n].loc = <<c, g[j]>>
    BY <1>6, <2>1
  <2>3. m < n
    BY <1>2, <1>7, <2>1
  <2>4. Before(lists[l], t[m].loc, t[n].loc)
    BY <1>1, <1>2, <2>2, <2>3 DEF Queued
  <2>5. PICK h, k \in DOMAIN lists[l] :
           /\ lists[l][h] = c /\ lists[l][k] = c
           /\ h < k \/ (h = k /\ g[i] < g[j])
    BY <2>2, <2>4 DEF Before
  <2>6. h = k /\ h \in Int
    BY <1>2, <2>5 DEF Linked, Differ
  <2> QED  BY <2>5, <2>6
<1>8. ASSUME NEW x \in S
      PROVE  \E j \in 1 .. w : g[j] = x
  <2>1. PICK n \in DOMAIN t : t[n].loc = <<c, x>>
    BY <1>1, <1>5 DEF QueueInv
  <2>2. a <= n /\ n < b
    BY <1>1, <2>1 DEF Holds
  <2>3. PICK j : j = n - a + 1
    OBVIOUS
  <2>4. j \in 1 .. w /\ a + j - 1 = n
    BY <1>1, <1>2, <2>2, <2>3
  <2>5. g[j] = x
    BY <1>3, <2>1, <2>4
  <2> QED  BY <2>4, <2>5
<1>9. S \subseteq Int
  BY <1>5, StoreShape DEF FullSlots, SlotIds
<1>10. /\ Cardinality(S) = w
       /\ \A k \in 1 .. w : NthOf(S, k) = g[k]
  <2>1. Ascends(S, w, g)
    BY <1>6, <1>7, <1>8, <1>9 DEF Ascends
  <2> QED  BY <1>2, <2>1, NthIs
<1>11. PICK r : r = [k \in 1 .. w |-> [loc |-> <<c, g[k]>>,
                                       qty |-> chunks[c].s[g[k]]]]
  OBVIOUS
<1>12. ListChunk(c) = r
  BY <1>4, <1>10, <1>11 DEF ListChunk, NthOf
<1>13. PICK u : u = SubSeq(t, a, b - 1)
  OBVIOUS
<1>14. /\ u \in Seq(Orders) /\ Len(u) = w
       /\ \A j \in 1 .. w : u[j] = t[a + j - 1]
  BY <1>1, <1>2, <1>13
<1>15. \A j \in 1 .. w : r[j] = u[j] /\ r[j] \in Orders
  <2> SUFFICES ASSUME NEW j \in 1 .. w PROVE r[j] = u[j] /\ r[j] \in Orders
    OBVIOUS
  <2>1. PICK n : n = a + j - 1
    OBVIOUS
  <2>2. n \in DOMAIN t /\ r[j] = t[n] /\ u[j] = t[n]
    BY <1>6, <1>11, <1>14, <2>1
  <2> QED  BY <1>2, <2>2
<1>16. r \in Seq(Orders) /\ Len(r) = w
  BY <1>2, <1>11, <1>15
<1>17. r = u
  BY <1>14, <1>15, <1>16, SeqEqual
<1> QED  BY <1>1, <1>12, <1>13, <1>17

\* The orders of a level fall into pieces, one for each of its chunks.
LEMMA LevelPieces ==
    ASSUME CellsInv, NEW lists, NEW spare, LinksInv(lists, spare),
           QueueInv(lists), NEW l \in Levels
    PROVE  \E first :
              /\ first[1] = 1 /\ first[Len(lists[l]) + 1] = Len(fifo[l]) + 1
              /\ \A k \in 1 .. (Len(lists[l]) + 1) :
                    first[k] \in 1 .. (Len(fifo[l]) + 1)
              /\ \A k \in DOMAIN lists[l] :
                    /\ first[k] <= first[k + 1]
                    /\ Holds(l, lists[l][k], first[k], first[k + 1])
<1>1. PICK q, t, m, n : q = lists[l] /\ t = fifo[l] /\ m = Len(q) /\ n = Len(t)
  OBVIOUS
<1>2. /\ Linked(l, q) /\ Queued(l, q)
      /\ q \in Seq(ChunkIds) /\ t \in Seq(Orders) /\ Differ(q)
      /\ m \in Nat /\ n \in Nat /\ DOMAIN q = 1 .. m /\ DOMAIN t = 1 .. n
  <2>1. Linked(l, q) /\ Queued(l, q)
    BY <1>1 DEF LinksInv, QueueInv
  <2>2. q \in Seq(ChunkIds) /\ Differ(q)
    BY <2>1 DEF Linked
  <2>3. t \in Seq(Orders)
    BY <1>1, <2>1 DEF Queued
  <2> QED  BY <1>1, <2>1, <2>2, <2>3
<1>3. PICK pl : pl = [i \in 1 .. n |-> CHOOSE k \in 1 .. m : q[k] = t[i].loc[1]]
  OBVIOUS
<1>4. ASSUME NEW i \in 1 .. n
      PROVE  pl[i] \in 1 .. m /\ q[pl[i]] = t[i].loc[1]
  <2>1. PICK c, x : /\ t[i].loc = <<c, x>>
                    /\ \E k \in DOMAIN q : q[k] = c
    BY <1>1, <1>2, OrderPlace, SMTT(30)
  <2>2. \E k \in 1 .. m : q[k] = t[i].loc[1]
    BY <1>2, <2>1
  <2> QED  BY <1>3, <2>2
<1>5. pl \in [1 .. n -> 1 .. m]
  BY <1>3, <1>4
<1>6. ASSUME NEW i \in 1 .. n, NEW j \in 1 .. n, i < j
      PROVE  pl[i] <= pl[j]
  <2>1. Before(q, t[i].loc, t[j].loc)
    BY <1>1, <1>2, <1>6 DEF Queued
  <2>2. PICK h, k \in 1 .. m :
           q[h] = t[i].loc[1] /\ q[k] = t[j].loc[1] /\ h <= k
    BY <1>2, <2>1 DEF Before
  <2>3. /\ pl[i] \in 1 .. m /\ q[pl[i]] = q[h]
        /\ pl[j] \in 1 .. m /\ q[pl[j]] = q[k]
    BY <1>4, <2>2
  <2>4. \A a, b \in 1 .. m : q[a] = q[b] => a = b
    BY <1>2 DEF Differ
  <2>5. h = pl[i] /\ k = pl[j]
    BY <2>3, <2>4
  <2> QED  BY <2>2, <2>5
<1>7. ASSUME NEW k \in 1 .. m
      PROVE  \E i \in 1 .. n : pl[i] = k
  <2>1. /\ q[k] \in ChunkIds /\ chunks[q[k]].level = l /\ chunks[q[k]].live # 0
        /\ chunks[q[k]] \in Chunks /\ Counted(chunks[q[k]])
    BY <1>2 DEF Linked, CellsInv
  <2>2. PICK x : x \in FullSlots(chunks[q[k]])
    BY <2>1, EmptyChunk
  <2>3. PICK i \in 1 .. n : t[i].loc = <<q[k], x>>
    <3>1. PICK c : c = q[k]
      OBVIOUS
    <3>2. c \in ChunkIds /\ x \in FullSlots(chunks[c]) /\ chunks[c].level = l
      BY <2>1, <2>2, <3>1
    <3>3. \E i \in DOMAIN fifo[l] : fifo[l][i].loc = <<c, x>>
      BY <3>2 DEF QueueInv
    <3> QED  BY <1>1, <1>2, <3>1, <3>3
  <2>4. q[pl[i]] = q[k] /\ pl[i] \in 1 .. m
    BY <1>4, <2>3
  <2> QED  BY <1>2, <2>4 DEF Differ
<1>8. PICK first :
         /\ first[1] = 1 /\ first[m + 1] = n + 1
         /\ \A k \in 1 .. (m + 1) : first[k] \in 1 .. (n + 1)
         /\ \A k \in 1 .. m :
               /\ first[k] <= first[k + 1]
               /\ \A i \in 1 .. n :
                     pl[i] = k <=> first[k] <= i /\ i < first[k + 1]
  <2>1. Groups(n, m, pl)
    BY <1>5, <1>6, <1>7 DEF Groups
  <2> QED  BY <1>2, <2>1, GroupsAreIntervals
<1>9. ASSUME NEW k \in DOMAIN q
      PROVE  Holds(l, q[k], first[k], first[k + 1])
  <2>1. k \in 1 .. m /\ k \in 1 .. (m + 1) /\ k + 1 \in 1 .. (m + 1)
    BY <1>2
  <2>2. ASSUME NEW i \in 1 .. n
        PROVE  t[i].loc[1] = q[k] <=> first[k] <= i /\ i < first[k + 1]
    <3>1. t[i].loc[1] = q[k] <=> pl[i] = k
      BY <1>2, <1>4, <2>1 DEF Differ
    <3> QED  BY <1>8, <2>1, <3>1
  <2>3. /\ first[k] \in 1 .. (n + 1) /\ first[k + 1] \in 1 .. (n + 1)
        /\ first[k] <= first[k + 1]
    BY <1>8, <2>1
  <2> QED  BY <1>1, <1>2, <2>2, <2>3 DEF Holds
<1>10. \A k \in DOMAIN q : first[k] <= first[k + 1]
  BY <1>2, <1>8
<1> QED  BY <1>1, <1>8, <1>9, <1>10

LEMMA SoundListing ==
    ASSUME StoreInv
    PROVE  ListsWhatWasPushed
<1>1. CellsInv
  BY DEF StoreInv
<1>2. PICK lists, spare : LinksInv(lists, spare) /\ QueueInv(lists)
  BY DEF StoreInv
<1>3. ASSUME NEW l \in Levels
      PROVE  ForEach(l) = fifo[l]
  <2>1. PICK q, t : q = lists[l] /\ t = fifo[l]
    OBVIOUS
  <2>2. /\ Linked(l, q) /\ q \in Seq(ChunkIds) /\ Differ(q) /\ t \in Seq(Orders)
        /\ levels[l].head = HeadOf(q)
        /\ \A k \in DOMAIN q : chunks[q[k]].next = Following(q, k)
    BY <1>2, <2>1 DEF LinksInv, QueueInv, Linked, Queued
  <2>3. PICK first :
           /\ first[1] = 1 /\ first[Len(q) + 1] = Len(t) + 1
           /\ \A k \in 1 .. (Len(q) + 1) : first[k] \in 1 .. (Len(t) + 1)
           /\ \A k \in DOMAIN q : /\ first[k] <= first[k + 1]
                                  /\ Holds(l, q[k], first[k], first[k + 1])
    BY <1>1, <1>2, <2>1, LevelPieces
  <2>4. PICK visit : visit = [b \in ChunkIds |-> ListChunk(b)]
    OBVIOUS
  <2>5. ASSUME NEW k \in DOMAIN q
        PROVE  visit[q[k]] = SubSeq(t, first[k], first[k + 1] - 1)
    <3>1. PICK c, a, b : c = q[k] /\ a = first[k] /\ b = first[k + 1]
      OBVIOUS
    <3>2. c \in ChunkIds /\ chunks[c].level = l /\ Holds(l, c, a, b)
      BY <2>2, <2>3, <3>1 DEF Linked
    <3>3. ListChunk(c) = SubSeq(fifo[l], a, b - 1)
      BY <1>1, <1>2, <3>2, ChunkListing
    <3> QED  BY <2>1, <2>4, <3>1, <3>2, <3>3
  <2>6. Pieces(t, q, first, visit)
    BY <2>3, <2>5 DEF Pieces
  <2>7. Visits(HeadOf(q), visit) = t
    BY <2>2, <2>6, DifferFits, WalkTells
  <2> QED  BY <2>1, <2>2, <2>4, <2>7 DEF ForEach
<1> QED  BY <1>3 DEF ListsWhatWasPushed

\* A listing of a level shows every order that joined it and did not leave, in
\* the order they joined, at the location and with the quantity the book knows:
\* time priority is what the chunks hold, whichever slots died between them.
THEOREM ListsInOrder == Spec => []ListsWhatWasPushed
<1>1. StoreInv => ListsWhatWasPushed
  BY SoundListing
<1> QED  BY <1>1, StoreIsSound, PTL

============================================================================
