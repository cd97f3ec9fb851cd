-------------------------- MODULE OrderBookProofs --------------------------
(***************************************************************************)
(* The invariant of OrderBook, for every set of ids, locations, prices and *)
(* quantities, every width of Qty, every max_orders and both index kinds.  *)
(*                                                                         *)
(* BookInv is inductive.  Beside the store's own part it says how the map, *)
(* the running command and the store agree, that a running command has     *)
(* room to rest what it has left, and that the book is not crossed.  On it *)
(* rest the exactness of level totals and, on that, what the checks of     *)
(* post-only and fill-or-kill orders promise.                              *)
(*                                                                         *)
(* The first half is lemmas about the store, the levels and the index:     *)
(* what a step that takes an order out of its level, or puts one in,       *)
(* preserves, and that level totals and fillable() add up what they are    *)
(* taken for.  The second half builds the invariant of the whole book.     *)
(***************************************************************************)
EXTENDS OrderBook, InductionLemmas, SequenceTheorems

----------------------------------------------------------------------------
(* Sequences that lose one element.                                        *)

LEMMA RemoveAtDrops ==
    ASSUME NEW S, NEW q \in Seq(S), NEW i \in DOMAIN q
    PROVE  RemoveAt(q, i) \in Seq(S) /\ Drops(q, RemoveAt(q, i), i)
BY CutDrops DEF RemoveAt, Cut

\* Taking some quantity from or adding it to a level total leaves a Qty.
LEMMA TotalType ==
    ASSUME total \in [Sides -> [Prices -> 0 .. (QtyMod - 1)]],
           NEW s \in Sides, NEW p \in Prices, NEW d \in Int,
           total' = TotalWith(s, p, d)
    PROVE  total' \in [Sides -> [Prices -> 0 .. (QtyMod - 1)]]
BY QtyWidth DEF TotalWith

LEMMA EmitType ==
    ASSUME seq \in 0 .. (SeqModulus - 1),
           NEW before \in Seq(Events), NEW es \in Seq(Events),
           Emit(before, es)
    PROVE  evs' \in Seq(Events) /\ seq' \in 0 .. (SeqModulus - 1)
BY SeqWidth DEF Emit

----------------------------------------------------------------------------
(* The store, the levels and the index, apart from the map and the command *)
(* that runs.                                                              *)

StoreType ==
    /\ queue \in [Sides -> [Prices -> Seq(Locs)]]
    /\ index \in [Sides -> SUBSET Prices]
    /\ total \in [Sides -> [Prices -> 0 .. (QtyMod - 1)]]
    /\ slot \in [Locs -> Orders \cup {NIL}]

LiveLocs == {l \in Locs : slot[l] # NIL}

LiveCounted == live = Cardinality(LiveLocs)

StoreInv ==
    /\ StoreType
    /\ QueuedAreLive
    /\ LiveAreQueued
    /\ IndexExact
    /\ LiveCounted

\* What of it does not need the index: it holds also of a book that a throwing
\* sink left with an empty level in the index.
LevelsInv ==
    /\ queue \in [Sides -> [Prices -> Seq(Locs)]]
    /\ total \in [Sides -> [Prices -> 0 .. (QtyMod - 1)]]
    /\ slot \in [Locs -> Orders \cup {NIL}]
    /\ QueuedAreLive
    /\ LiveAreQueued
    /\ LiveCounted

LEMMA StoreHasLevels ==
    ASSUME StoreInv
    PROVE  LevelsInv
BY DEF StoreInv, StoreType, LevelsInv

\* What holds of one level, with its queue named.
LEMMA LevelIs ==
    ASSUME queue \in [Sides -> [Prices -> Seq(Locs)]], QueuedAreLive,
           NEW s \in Sides, NEW p \in Prices, NEW q, q = queue[s][p]
    PROVE  /\ q \in Seq(Locs) /\ Len(q) \in Nat /\ DOMAIN q = 1 .. Len(q)
           /\ \A j \in 1 .. Len(q) :
                 /\ q[j] \in Locs /\ slot[q[j]] # NIL
                 /\ slot[q[j]].side = s /\ slot[q[j]].price = p
           /\ \A a, b \in 1 .. Len(q) : q[a] = q[b] => a = b
<1>1. queue[s][p] \in Seq(Locs)
  OBVIOUS
<1>2. /\ DOMAIN queue[s][p] = 1 .. Len(queue[s][p]) /\ Len(queue[s][p]) \in Nat
      /\ \A j \in 1 .. Len(queue[s][p]) : queue[s][p][j] \in Locs
  BY <1>1
<1>3. \A j \in DOMAIN queue[s][p] :
         /\ slot[queue[s][p][j]] # NIL
         /\ slot[queue[s][p][j]].side = s /\ slot[queue[s][p][j]].price = p
  BY DEF QueuedAreLive
<1>4. \A a, b \in DOMAIN queue[s][p] : queue[s][p][a] = queue[s][p][b] => a = b
  BY DEF QueuedAreLive
<1> QED  BY <1>1, <1>2, <1>3, <1>4, Zenon

LEMMA LevelFacts ==
    ASSUME StoreInv, NEW s \in Sides, NEW p \in Prices,
           NEW q, q = queue[s][p]
    PROVE  /\ q \in Seq(Locs) /\ Len(q) \in Nat /\ DOMAIN q = 1 .. Len(q)
           /\ \A j \in 1 .. Len(q) :
                 /\ q[j] \in Locs /\ slot[q[j]] # NIL
                 /\ slot[q[j]].side = s /\ slot[q[j]].price = p
           /\ \A a, b \in 1 .. Len(q) : q[a] = q[b] => a = b
<1>1. queue \in [Sides -> [Prices -> Seq(Locs)]] /\ QueuedAreLive
  BY DEF StoreInv, StoreType
<1> QED  BY <1>1, LevelIs

\* The live order at l, the i-th of its level, dies; q2 is what its level
\* keeps.  This is what Unlink, FillMaker and a fill that is cut off by a
\* throwing sink have in common.
LeavesLevel(l, i, q2) ==
    LET o == slot[l]
        q == queue[o.side][o.price]
    IN  /\ i \in DOMAIN q /\ q[i] = l
        /\ q2 \in Seq(Locs) /\ Drops(q, q2, i)
        /\ queue' = [queue EXCEPT ![o.side][o.price] = q2]
        /\ total' = TotalWith(o.side, o.price, -o.qty)
        /\ slot' = [slot EXCEPT ![l] = NIL]
        /\ live' = live - 1

\* The level leaves the index if it is empty now.
Leaves(l, i, q2) ==
    /\ LeavesLevel(l, i, q2)
    /\ index' = IndexAfter(slot[l].side, slot[l].price, q2)

LEMMA LeavesLevels ==
    ASSUME StoreInv, NEW l \in Locs, slot[l] # NIL, NEW i, NEW q2,
           LeavesLevel(l, i, q2)
    PROVE  /\ LevelsInv'
           /\ live \in Nat \ {0}
           /\ \A k \in Locs : slot'[k] = IF k = l THEN NIL ELSE slot[k]
<1> DEFINE o == slot[l]
           s0 == o.side
           p0 == o.price
           q == queue[s0][p0]
<1>1. o \in Orders /\ s0 \in Sides /\ p0 \in Prices /\ q \in Seq(Locs)
  BY DEF StoreInv, StoreType, Orders
<1>2. /\ i \in 1 .. Len(q) /\ q[i] = l /\ Len(q) \in Nat
      /\ q2 \in Seq(Locs) /\ Drops(q, q2, i) /\ DOMAIN q2 = 1 .. Len(q2)
  BY <1>1 DEF LeavesLevel
<1>3. \A s \in Sides, p \in Prices :
         queue'[s][p] = IF s = s0 /\ p = p0 THEN q2 ELSE queue[s][p]
  BY <1>1 DEF LeavesLevel, StoreInv, StoreType
<1>4. \A k \in Locs : slot'[k] = IF k = l THEN NIL ELSE slot[k]
  BY DEF LeavesLevel, StoreInv, StoreType
<1>6. /\ DOMAIN q = 1 .. Len(q)
      /\ \A m \in 1 .. Len(q) : /\ q[m] \in Locs /\ slot[q[m]] # NIL
                                 /\ slot[q[m]].side = s0
                                 /\ slot[q[m]].price = p0
      /\ \A a, b \in 1 .. Len(q) : q[a] = q[b] => a = b
  <2>1. PICK s \in Sides, p \in Prices : s = s0 /\ p = p0
    BY <1>1
  <2>2. PICK k : k = queue[s][p]
    OBVIOUS
  <2>3. /\ DOMAIN k = 1 .. Len(k)
        /\ \A m \in 1 .. Len(k) : /\ k[m] \in Locs /\ slot[k[m]] # NIL
                                   /\ slot[k[m]].side = s /\ slot[k[m]].price = p
        /\ \A a, b \in 1 .. Len(k) : k[a] = k[b] => a = b
    BY <2>2, LevelFacts
  <2> QED  BY <2>1, <2>2, <2>3
<1>7. /\ \A j \in DOMAIN q2 : \E m \in 1 .. Len(q) : m # i /\ q2[j] = q[m]
      /\ \A m \in 1 .. Len(q) : m # i => \E j \in DOMAIN q2 : q2[j] = q[m]
      /\ \A a, b \in DOMAIN q2 : q2[a] = q2[b] => a = b
  <2> HIDE DEF q
  <2>1. \A j \in DOMAIN q2 : \E m \in 1 .. Len(q) : m # i /\ q2[j] = q[m]
    BY <1>2, DropsComesFrom
  <2>2. ASSUME NEW m \in 1 .. Len(q), m # i
        PROVE  \E j \in DOMAIN q2 : q2[j] = q[m]
    BY <1>2, <2>2, DropsKeeps
  <2>3. ASSUME NEW c \in DOMAIN q2, NEW d \in DOMAIN q2, q2[c] = q2[d]
        PROVE  c = d
    BY <1>2, <1>6, <2>3, DropsOnce
  <2> QED  BY <2>1, <2>2, <2>3
<1>5. queue' \in [Sides -> [Prices -> Seq(Locs)]]
  BY <1>1, <1>2 DEF LeavesLevel, StoreInv, StoreType
<1>8. total' \in [Sides -> [Prices -> 0 .. (QtyMod - 1)]]
  <2>1. -o.qty \in Int
    BY <1>1, QtyWidth DEF Orders, LiveQtys
  <2> QED  BY <1>1, <2>1, TotalType DEF LeavesLevel, StoreInv, StoreType
<1>11. slot' \in [Locs -> Orders \cup {NIL}]
  BY DEF LeavesLevel, StoreInv, StoreType
<1>9. QueuedAreLive'
  <2> SUFFICES ASSUME NEW s \in Sides, NEW p \in Prices,
                      NEW j \in DOMAIN queue'[s][p]
               PROVE  LET k == queue'[s][p][j]
                      IN  /\ slot'[k] # NIL
                          /\ slot'[k].side = s /\ slot'[k].price = p
                          /\ \A m \in DOMAIN queue'[s][p] :
                                queue'[s][p][m] = k => m = j
    BY DEF QueuedAreLive
  <2>1. CASE s = s0 /\ p = p0
    <3>1. queue'[s][p] = q2 /\ j \in DOMAIN q2
      BY <2>1, <1>3
    <3>2. PICK m \in 1 .. Len(q) : m # i /\ q2[j] = q[m]
      BY <3>1, <1>7
    <3>3. q[m] # l /\ q[m] \in Locs /\ slot[q[m]] # NIL
            /\ slot[q[m]].side = s0 /\ slot[q[m]].price = p0
      BY <3>2, <1>2, <1>6
    <3>4. slot'[q2[j]] = slot[q[m]]
      BY <3>2, <3>3, <1>4
    <3> QED  BY <2>1, <3>1, <3>3, <3>4, <1>7, Zenon
  <2>2. CASE ~(s = s0 /\ p = p0)
    <3>1. queue'[s][p] = queue[s][p] /\ queue[s][p] \in Seq(Locs)
      BY <2>2, <1>3 DEF StoreInv, StoreType
    <3>2. queue[s][p][j] \in Locs /\ queue[s][p][j] # l
      BY <2>2, <3>1 DEF StoreInv, QueuedAreLive
    <3> QED  BY <3>1, <3>2, <1>4 DEF StoreInv, QueuedAreLive
  <2> QED  BY <2>1, <2>2
<1>10. LiveAreQueued'
  <2> SUFFICES ASSUME NEW k \in Locs, slot'[k] # NIL
               PROVE  \E j \in DOMAIN queue'[slot'[k].side][slot'[k].price] :
                         queue'[slot'[k].side][slot'[k].price][j] = k
    BY DEF LiveAreQueued
  <2>1. k # l /\ slot'[k] = slot[k] /\ slot[k] \in Orders
    BY <1>4 DEF StoreInv, StoreType
  <2>2. slot[k].side \in Sides /\ slot[k].price \in Prices
    BY <2>1 DEF Orders
  <2>3. PICK j \in DOMAIN queue[slot[k].side][slot[k].price] :
               queue[slot[k].side][slot[k].price][j] = k
    BY <2>1 DEF StoreInv, LiveAreQueued
  <2>4. CASE slot[k].side = s0 /\ slot[k].price = p0
    <3>1. j \in 1 .. Len(q) /\ q[j] = k /\ j # i
      BY <2>1, <2>3, <2>4, <1>1, <1>2
    <3>2. PICK m \in DOMAIN q2 : q2[m] = k
      BY <3>1, <1>7
    <3>4. queue'[slot'[k].side][slot'[k].price] = q2
      <4>1. queue'[slot[k].side][slot[k].price] = q2
        BY <2>2, <2>4, <1>3
      <4> QED  BY <4>1, <2>1, Zenon
    <3> QED  BY <3>2, <3>4, Zenon
  <2>5. CASE ~(slot[k].side = s0 /\ slot[k].price = p0)
    <3>1. queue'[slot[k].side][slot[k].price]
            = queue[slot[k].side][slot[k].price]
      BY <2>2, <2>5, <1>3
    <3>2. queue'[slot'[k].side][slot'[k].price]
            = queue[slot[k].side][slot[k].price]
      BY <3>1, <2>1, Zenon
    <3> QED  BY <2>3, <3>2, Zenon
  <2> QED  BY <2>4, <2>5
<1>12. LiveCounted' /\ live \in Nat \ {0}
  <2>1. LiveLocs' = LiveLocs \ {l} /\ l \in LiveLocs
    BY <1>4 DEF LiveLocs
  <2>2. IsFiniteSet(LiveLocs)
    BY FS_Subset, StoreIsBigEnough DEF LiveLocs
  <2>3. Cardinality(LiveLocs) \in Nat
    BY <2>2, FS_CardinalityType
  <2>4. Cardinality(LiveLocs) # 0
    BY <2>1, <2>2, FS_EmptySet
  <2>5. Cardinality(LiveLocs') = Cardinality(LiveLocs) - 1
    BY <2>1, <2>2, FS_RemoveElement
  <2> QED  BY <2>3, <2>4, <2>5 DEF LeavesLevel, StoreInv, LiveCounted
<1> QED  BY <1>4, <1>5, <1>8, <1>9, <1>10, <1>11, <1>12 DEF LevelsInv

LEMMA LeavesStore ==
    ASSUME StoreInv, NEW l \in Locs, slot[l] # NIL, NEW i, NEW q2,
           Leaves(l, i, q2)
    PROVE  /\ StoreInv'
           /\ live \in Nat \ {0}
           /\ \A k \in Locs : slot'[k] = IF k = l THEN NIL ELSE slot[k]
           /\ \A s \in Sides : index'[s] \subseteq index[s]
<1>1. PICK s0 \in Sides, p0 \in Prices : slot[l].side = s0 /\ slot[l].price = p0
  BY DEF StoreInv, StoreType, Orders
<1>2. /\ LevelsInv' /\ live \in Nat \ {0}
      /\ \A k \in Locs : slot'[k] = IF k = l THEN NIL ELSE slot[k]
  BY LeavesLevels DEF Leaves
<1>3. /\ i \in DOMAIN queue[s0][p0]
      /\ queue' = [queue EXCEPT ![s0][p0] = q2]
      /\ index' = IndexAfter(s0, p0, q2)
  BY <1>1 DEF Leaves, LeavesLevel
<1>4. \A s \in Sides, p \in Prices :
         queue'[s][p] = IF s = s0 /\ p = p0 THEN q2 ELSE queue[s][p]
  BY <1>3 DEF StoreInv, StoreType
<1>5. \A s \in Sides :
         index'[s] = IF s = s0 /\ q2 = <<>> THEN index[s] \ {p0} ELSE index[s]
  BY <1>3 DEF IndexAfter, StoreInv, StoreType
<1>6. index' \in [Sides -> SUBSET Prices]
  BY <1>3 DEF IndexAfter, StoreInv, StoreType
<1>7. IndexExact'
  <2> SUFFICES ASSUME NEW s \in Sides, NEW p \in Prices
               PROVE  p \in index'[s] <=> queue'[s][p] # <<>>
    BY DEF IndexExact
  <2>1. p \in index[s] <=> queue[s][p] # <<>>
    BY DEF StoreInv, IndexExact
  <2>2. queue[s0][p0] # <<>>
    BY <1>3
  <2> QED  BY <2>1, <2>2, <1>4, <1>5
<1>8. StoreInv'
  BY <1>2, <1>6, <1>7 DEF LevelsInv, StoreInv, StoreType
<1> QED  BY <1>2, <1>5, <1>8

\* An order that leaves through Unlink or through FillMaker leaves its level.
LEMMA UnlinkLeaves ==
    ASSUME StoreInv, NEW l \in Locs, slot[l] # NIL, Unlink(l)
    PROVE  \E i, q2 : Leaves(l, i, q2)
<1> DEFINE q == queue[slot[l].side][slot[l].price]
<1>1. q \in Seq(Locs)
  BY DEF StoreInv, StoreType, Orders
<1>2. PICK i \in DOMAIN q :
         /\ q[i] = l
         /\ queue' = [queue EXCEPT ![slot[l].side][slot[l].price]
                                      = RemoveAt(q, i)]
         /\ index' = IndexAfter(slot[l].side, slot[l].price, RemoveAt(q, i))
         /\ total' = TotalWith(slot[l].side, slot[l].price, -slot[l].qty)
         /\ slot' = [slot EXCEPT ![l] = NIL]
         /\ live' = live - 1
  BY DEF Unlink
<1>3. RemoveAt(q, i) \in Seq(Locs) /\ Drops(q, RemoveAt(q, i), i)
  BY <1>1, RemoveAtDrops
<1>4. Leaves(l, i, RemoveAt(q, i))
  BY <1>2, <1>3, Zenon DEF Leaves, LeavesLevel
<1> QED  BY <1>4

\* The order at the head of level p of side s.
LEMMA HeadIsLive ==
    ASSUME StoreInv, NEW s \in Sides, NEW p \in index[s]
    PROVE  LET l == Head(queue[s][p])
           IN  /\ p \in Prices
               /\ l \in Locs /\ slot[l] \in Orders
               /\ slot[l].side = s /\ slot[l].price = p
               /\ queue[s][p] \in Seq(Locs) /\ queue[s][p] # <<>>
               /\ l = queue[s][p][1]
<1>1. p \in Prices /\ queue[s][p] \in Seq(Locs)
  BY DEF StoreInv, StoreType
<1>2. queue[s][p] # <<>>
  BY <1>1 DEF StoreInv, IndexExact
<1>3. 1 \in DOMAIN queue[s][p] /\ Head(queue[s][p]) = queue[s][p][1]
        /\ queue[s][p][1] \in Locs
  BY <1>1, <1>2
<1>4. /\ slot[queue[s][p][1]] # NIL
      /\ slot[queue[s][p][1]].side = s /\ slot[queue[s][p][1]].price = p
  BY <1>1, <1>3 DEF StoreInv, QueuedAreLive
<1> QED  BY <1>1, <1>2, <1>3, <1>4 DEF StoreInv, StoreType

LEMMA FillMakerLeaves ==
    ASSUME StoreInv, NEW bp, bp \in index[Opposite(taker.side)],
           FillMaker(bp)
    PROVE  LET q == queue[Opposite(taker.side)][bp]
           IN  Leaves(Head(q), 1, Tail(q))
<1> DEFINE opp == Opposite(taker.side)
           q == queue[opp][bp]
<1>1. opp \in Sides
  BY DEF Opposite, Sides
<1>2. /\ slot[Head(q)].side = opp /\ slot[Head(q)].price = bp
      /\ q \in Seq(Locs) /\ q # <<>> /\ q[1] = Head(q)
  BY <1>1, HeadIsLive
<1>3. Tail(q) \in Seq(Locs) /\ Drops(q, Tail(q), 1) /\ 1 \in DOMAIN q
  BY <1>2, TailDrops
<1>4. queue' = [queue EXCEPT ![opp][bp] = Tail(q)]
  BY DEF FillMaker
<1> QED  BY <1>2, <1>3, <1>4, Zenon DEF FillMaker, Leaves, LeavesLevel

\* An order that comes to rest joins its level and changes nothing else.
LEMMA RestStore ==
    ASSUME StoreInv, NEW o \in Orders, NEW l \in Locs, Rest(l, o)
    PROVE  /\ StoreInv'
           /\ live \in Nat /\ live' = live + 1
           /\ \A k \in Locs : slot'[k] = IF k = l THEN o ELSE slot[k]
           /\ \A s \in Sides : index'[s] = IF s = o.side
                                           THEN index[s] \cup {o.price}
                                           ELSE index[s]
<1> DEFINE s0 == o.side
           p0 == o.price
           q == queue[s0][p0]
<1>1. o # NIL /\ s0 \in Sides /\ p0 \in Prices /\ q \in Seq(Locs)
        /\ Len(q) \in Nat /\ DOMAIN q = 1 .. Len(q)
  BY NilIsNoRecord DEF StoreInv, StoreType, Orders
<1>2. slot[l] = NIL
  BY DEF Rest
<1>3. \A s \in Sides, p \in Prices :
         queue'[s][p] = IF s = s0 /\ p = p0 THEN Append(q, l) ELSE queue[s][p]
  BY <1>1 DEF Rest, Joined, StoreInv, StoreType
<1>4. \A k \in Locs : slot'[k] = IF k = l THEN o ELSE slot[k]
  BY DEF Rest, StoreInv, StoreType
<1>5. \A s \in Sides : index'[s] = IF s = s0 THEN index[s] \cup {p0}
                                   ELSE index[s]
  BY <1>1 DEF Rest, StoreInv, StoreType
<1>6. /\ Append(q, l) \in Seq(Locs)
      /\ DOMAIN Append(q, l) = 1 .. (Len(q) + 1)
      /\ Append(q, l)[Len(q) + 1] = l
      /\ \A j \in 1 .. Len(q) : Append(q, l)[j] = q[j]
      /\ Append(q, l) # <<>>
  <2> HIDE DEF q
  <2> QED  BY <1>1, AppendAdds
<1>7. StoreType'
  <2>1. queue' \in [Sides -> [Prices -> Seq(Locs)]]
    BY <1>1, <1>6 DEF Rest, Joined, StoreInv, StoreType
  <2>2. index' \in [Sides -> SUBSET Prices]
    BY <1>1 DEF Rest, StoreInv, StoreType
  <2>3. total' \in [Sides -> [Prices -> 0 .. (QtyMod - 1)]]
    <3>1. o.qty \in Int
      BY QtyWidth DEF Orders, LiveQtys
    <3> QED  BY <1>1, <3>1, TotalType DEF Rest, StoreInv, StoreType
  <2>4. slot' \in [Locs -> Orders \cup {NIL}]
    BY DEF Rest, StoreInv, StoreType
  <2> QED  BY <2>1, <2>2, <2>3, <2>4 DEF StoreType
<1>8. \A s \in Sides, p \in Prices : \A j \in DOMAIN queue[s][p] :
         /\ queue[s][p][j] # l /\ queue[s][p][j] \in Locs
  BY <1>2 DEF StoreInv, StoreType, QueuedAreLive
<1>9. QueuedAreLive'
  <2> SUFFICES ASSUME NEW s \in Sides, NEW p \in Prices,
                      NEW j \in DOMAIN queue'[s][p]
               PROVE  LET k == queue'[s][p][j]
                      IN  /\ slot'[k] # NIL
                          /\ slot'[k].side = s /\ slot'[k].price = p
                          /\ \A m \in DOMAIN queue'[s][p] :
                                queue'[s][p][m] = k => m = j
    BY DEF QueuedAreLive
  <2>1. CASE s = s0 /\ p = p0
    <3> DEFINE q2 == Append(q, l)
    <3>1. queue'[s][p] = q2 /\ j \in 1 .. (Len(q) + 1)
      BY <2>1, <1>3, <1>6
    <3>2. CASE j = Len(q) + 1
      <4>1. q2[j] = l /\ slot'[l] = o
        BY <3>2, <1>4, <1>6
      <4>2. \A m \in 1 .. (Len(q) + 1) : q2[m] = l => m = j
        BY <3>2, <1>1, <1>6, <1>8
      <4>3. DOMAIN q2 = 1 .. (Len(q) + 1)
        BY <1>6
      <4> HIDE DEF q2
      <4> QED  BY <2>1, <3>1, <4>1, <4>2, <4>3, <1>1, Zenon
    <3>3. CASE j \in 1 .. Len(q)
      <4>1. q2[j] = q[j] /\ q[j] # l /\ q[j] \in Locs /\ q[j] = queue[s][p][j]
        BY <2>1, <3>3, <1>1, <1>6, <1>8
      <4>2. slot[q[j]] # NIL /\ slot[q[j]].side = s /\ slot[q[j]].price = p
              /\ \A m \in 1 .. Len(q) : q[m] = q[j] => m = j
        BY <2>1, <3>3, <1>1 DEF StoreInv, QueuedAreLive
      <4>3. slot'[q2[j]] = slot[q[j]]
        BY <4>1, <1>4
      <4>4. ASSUME NEW m \in 1 .. (Len(q) + 1), q2[m] = q2[j]
            PROVE  m = j
        <5>1. m # Len(q) + 1
          BY <4>1, <4>4, <1>6
        <5>2. m \in 1 .. Len(q) /\ q2[m] = q[m]
          BY <5>1, <1>1, <1>6
        <5> QED  BY <4>1, <4>2, <4>4, <5>2
      <4> QED  BY <3>1, <4>2, <4>3, <4>4, <1>6
    <3>4. j \in 1 .. Len(q) \/ j = Len(q) + 1
      BY <3>1, <1>1
    <3> QED  BY <3>2, <3>3, <3>4, Zenon
  <2>2. CASE ~(s = s0 /\ p = p0)
    <3>1. queue'[s][p] = queue[s][p] /\ queue[s][p] \in Seq(Locs)
      BY <2>2, <1>3 DEF StoreInv, StoreType
    <3>2. queue[s][p][j] \in Locs /\ queue[s][p][j] # l
      BY <3>1, <1>8
    <3> QED  BY <3>1, <3>2, <1>4 DEF StoreInv, QueuedAreLive
  <2> QED  BY <2>1, <2>2
<1>10. LiveAreQueued'
  <2> SUFFICES ASSUME NEW k \in Locs, slot'[k] # NIL
               PROVE  \E j \in DOMAIN queue'[slot'[k].side][slot'[k].price] :
                         queue'[slot'[k].side][slot'[k].price][j] = k
    BY DEF LiveAreQueued
  <2>1. CASE k = l
    <3>1. slot'[k] = o
      BY <2>1, <1>4
    <3>2. queue'[s0][p0] = Append(q, l)
      BY <1>1, <1>3
    <3>3. Len(q) + 1 \in DOMAIN Append(q, l)
            /\ Append(q, l)[Len(q) + 1] = k
      BY <2>1, <1>1, <1>6
    <3> QED  BY <3>1, <3>2, <3>3, Zenon
  <2>2. CASE k # l
    <3>1. slot'[k] = slot[k] /\ slot[k] \in Orders
      BY <2>2, <1>4 DEF StoreInv, StoreType
    <3>2. slot[k].side \in Sides /\ slot[k].price \in Prices
      BY <3>1 DEF Orders
    <3>3. PICK j \in DOMAIN queue[slot[k].side][slot[k].price] :
                 queue[slot[k].side][slot[k].price][j] = k
      BY <3>1 DEF StoreInv, LiveAreQueued
    <3>4. j \in DOMAIN queue'[slot[k].side][slot[k].price]
            /\ queue'[slot[k].side][slot[k].price][j] = k
      <4>1. CASE slot[k].side = s0 /\ slot[k].price = p0
        <5>1. j \in 1 .. Len(q) /\ q[j] = k
          BY <4>1, <3>3, <1>1
        <5>2. queue'[slot[k].side][slot[k].price] = Append(q, l)
          BY <4>1, <3>2, <1>3
        <5>3. j \in DOMAIN Append(q, l) /\ Append(q, l)[j] = k
          BY <5>1, <1>1, <1>6
        <5> QED  BY <5>2, <5>3, Zenon
      <4>2. CASE ~(slot[k].side = s0 /\ slot[k].price = p0)
        <5>1. queue'[slot[k].side][slot[k].price]
                = queue[slot[k].side][slot[k].price]
          BY <4>2, <3>2, <1>3
        <5> QED  BY <5>1, <3>3, Zenon
      <4> QED  BY <4>1, <4>2
    <3> QED  BY <3>1, <3>4, Zenon
  <2> QED  BY <2>1, <2>2
<1>11. IndexExact'
  <2> SUFFICES ASSUME NEW s \in Sides, NEW p \in Prices
               PROVE  p \in index'[s] <=> queue'[s][p] # <<>>
    BY DEF IndexExact
  <2>1. p \in index[s] <=> queue[s][p] # <<>>
    BY DEF StoreInv, IndexExact
  <2>2. CASE s = s0 /\ p = p0
    BY <2>2, <1>3, <1>5, <1>6
  <2>3. CASE ~(s = s0 /\ p = p0)
    <3>1. queue'[s][p] = queue[s][p]
      BY <2>3, <1>3
    <3>2. p \in index'[s] <=> p \in index[s]
      BY <2>3, <1>5
    <3> QED  BY <2>1, <3>1, <3>2
  <2> QED  BY <2>2, <2>3
<1>12. LiveCounted' /\ live \in Nat /\ live' = live + 1
  <2>1. LiveLocs' = LiveLocs \cup {l} /\ l \notin LiveLocs
    BY <1>1, <1>2, <1>4 DEF LiveLocs
  <2>2. IsFiniteSet(LiveLocs)
    BY FS_Subset, StoreIsBigEnough DEF LiveLocs
  <2>3. Cardinality(LiveLocs) \in Nat
    BY <2>2, FS_CardinalityType
  <2>4. Cardinality(LiveLocs') = Cardinality(LiveLocs) + 1
    BY <2>1, <2>2, FS_AddElement
  <2> QED  BY <2>3, <2>4 DEF Rest, StoreInv, LiveCounted
<1> QED  BY <1>4, <1>5, <1>7, <1>9, <1>10, <1>11, <1>12 DEF StoreInv

\* An order that stays but changes its quantity changes nothing else that the
\* levels, the index or the count of live orders depend on.
LEMMA ResizeStore ==
    ASSUME StoreInv, NEW l \in Locs, slot[l] # NIL,
           NEW r \in LiveQtys, NEW d \in Int,
           slot' = [slot EXCEPT ![l] = [slot[l] EXCEPT !.qty = r]],
           total' = TotalWith(slot[l].side, slot[l].price, d),
           UNCHANGED <<queue, index, live>>
    PROVE  /\ StoreInv'
           /\ \A k \in Locs : /\ slot'[k] = NIL <=> slot[k] = NIL
                              /\ slot[k] # NIL => slot'[k].id = slot[k].id
<1> DEFINE o == slot[l]
           o2 == [o EXCEPT !.qty = r]
<1>1. o \in Orders
  BY DEF StoreInv, StoreType
<1>2. o2 \in Orders /\ o2.id = o.id /\ o2.side = o.side /\ o2.price = o.price
  BY <1>1 DEF Orders
<1>3. \A k \in Locs : slot'[k] = IF k = l THEN o2 ELSE slot[k]
  BY DEF StoreInv, StoreType
<1>4. o2 # NIL
  BY <1>2, NilIsNoRecord
<1>5. \A k \in Locs : /\ slot'[k] = NIL <=> slot[k] = NIL
                      /\ slot[k] # NIL => /\ slot'[k].id = slot[k].id
                                          /\ slot'[k].side = slot[k].side
                                          /\ slot'[k].price = slot[k].price
  BY <1>2, <1>3, <1>4
<1>6. StoreType'
  <2>1. total' \in [Sides -> [Prices -> 0 .. (QtyMod - 1)]]
    BY <1>1, TotalType DEF StoreInv, StoreType, Orders
  <2>2. slot' \in [Locs -> Orders \cup {NIL}]
    BY <1>2 DEF StoreInv, StoreType
  <2> QED  BY <2>1, <2>2 DEF StoreInv, StoreType
<1>7. QueuedAreLive'
  <2> SUFFICES ASSUME NEW s \in Sides, NEW p \in Prices,
                      NEW j \in DOMAIN queue[s][p]
               PROVE  LET k == queue[s][p][j]
                      IN  /\ slot'[k] # NIL
                          /\ slot'[k].side = s /\ slot'[k].price = p
                          /\ \A m \in DOMAIN queue[s][p] :
                                queue[s][p][m] = k => m = j
    BY DEF QueuedAreLive
  <2>1. queue[s][p][j] \in Locs
    BY DEF StoreInv, StoreType
  <2> QED  BY <2>1, <1>5 DEF StoreInv, QueuedAreLive
<1>8. LiveAreQueued'
  <2> SUFFICES ASSUME NEW k \in Locs, slot'[k] # NIL
               PROVE  \E j \in DOMAIN queue[slot'[k].side][slot'[k].price] :
                         queue[slot'[k].side][slot'[k].price][j] = k
    BY DEF LiveAreQueued
  <2>1. slot[k] # NIL
    BY <1>5
  <2>2. slot'[k].side = slot[k].side /\ slot'[k].price = slot[k].price
    BY <1>5, <2>1
  <2>3. \E j \in DOMAIN queue[slot[k].side][slot[k].price] :
           queue[slot[k].side][slot[k].price][j] = k
    BY <2>1 DEF StoreInv, LiveAreQueued
  <2> QED  BY <2>2, <2>3, Zenon
<1>9. IndexExact'
  BY DEF StoreInv, IndexExact
<1>10. LiveCounted'
  <2>1. LiveLocs' = LiveLocs
    BY <1>5 DEF LiveLocs
  <2> QED  BY <2>1 DEF StoreInv, LiveCounted
<1> QED  BY <1>5, <1>6, <1>7, <1>8, <1>9, <1>10 DEF StoreInv

----------------------------------------------------------------------------
(* The best price of a side.                                               *)

\* A side that is not empty has a best price, since prices have a bound.
LEMMA BestExists ==
    ASSUME index \in [Sides -> SUBSET Prices], NEW s \in Sides, index[s] # {}
    PROVE  \E bp \in index[s] : IsBest(s, bp)
<1>1. \A p \in index[s] : /\ p \in Int
                          /\ -(PriceLimit + 1) <= p /\ p <= PriceLimit
  BY RangeIsGiven, PricesFit DEF Prices
<1> DEFINE rank(p) == IF s = "Bid" THEN PriceLimit - p ELSE p + PriceLimit + 1
           T == {rank(p) : p \in index[s]}
<1>2. \A p \in index[s] : rank(p) \in Nat
  BY <1>1, RangeIsGiven
<1>3. T \subseteq Nat /\ T # {}
  BY <1>2
<1>4. PICK x \in T : \A y \in T : x <= y
  <2> HIDE DEF T
  <2> QED  BY <1>3, NatLeast
<1>5. PICK bp \in index[s] : x = rank(bp)
  OBVIOUS
<1>6. \A p \in index[s] : rank(bp) <= rank(p)
  BY <1>4, <1>5
<1>7. \A p \in index[s] : IF s = "Bid" THEN p <= bp ELSE bp <= p
  BY <1>1, <1>6, RangeIsGiven
<1>8. IsBest(s, bp)
  BY <1>1, <1>7 DEF IsBest
<1> QED  BY <1>8

\* When cross() returns with quantity left, nothing on the opposite side is
\* within the order's limit, its best level or any other.
LEMMA NothingInReach ==
    ASSUME StoreInv, taker \in Takers, Crossed, taker.qty # 0
    PROVE  \A bp \in index[Opposite(taker.side)] :
              ~Within(taker.side, taker.limit, bp)
<1> DEFINE opp == Opposite(taker.side)
<1>1. opp \in Sides /\ taker.side \in Sides
        /\ (taker.side = "Bid" <=> opp = "Ask")
        /\ (taker.limit = NIL \/ taker.limit \in Prices)
  BY DEF Takers, Opposite, Sides
<1> SUFFICES ASSUME NEW bp \in index[opp],
                    Within(taker.side, taker.limit, bp)
             PROVE  FALSE
  OBVIOUS
<1>2. PICK best \in index[opp] : IsBest(opp, best)
  BY <1>1, BestExists DEF StoreInv, StoreType
<1>3. bp \in Prices /\ best \in Prices
  BY <1>1 DEF StoreInv, StoreType
<1>4. bp \in Int /\ best \in Int /\ (taker.limit # NIL => taker.limit \in Int)
  BY <1>1, <1>3, PricesAreTicks DEF Prices
<1>5. Within(taker.side, taker.limit, best)
  <2>1. IF taker.side = "Bid" THEN best <= bp ELSE bp <= best
    BY <1>1, <1>2, <1>4 DEF IsBest, Sides
  <2> QED  BY <2>1, <1>4 DEF Within
<1>6. queue[opp][best] # <<>>
  BY <1>1, <1>3 DEF StoreInv, IndexExact
<1>7. Marketable(best)
  BY <1>2, <1>5, <1>6 DEF Marketable
<1> QED  BY <1>7 DEF Crossed

----------------------------------------------------------------------------
(* Level totals.                                                           *)

\* The orders of a level, by what their slots say.
AtLevel(s, p) ==
    {l \in Locs : slot[l] # NIL /\ slot[l].side = s /\ slot[l].price = p}

LevelSum(s, p) == SumFunctionOnSet(QtyAt, AtLevel(s, p))

TotalsExact ==
    \A s \in Sides, p \in Prices : total[s][p] = LevelSum(s, p) % QtyMod

\* They are the orders its queue names.
LEMMA LevelIsQueue ==
    ASSUME LevelsInv, NEW s \in Sides, NEW p \in Prices
    PROVE  ToSet(queue[s][p]) = AtLevel(s, p)
<1> DEFINE q == queue[s][p]
<1>1. q \in Seq(Locs) /\ \A j \in DOMAIN q : q[j] \in Locs
  BY DEF LevelsInv
<1>2. ASSUME NEW l \in ToSet(q)
      PROVE  l \in AtLevel(s, p)
  <2>1. PICK j \in DOMAIN q : q[j] = l
    BY DEF ToSet
  <2>2. slot[q[j]] # NIL /\ slot[q[j]].side = s /\ slot[q[j]].price = p
    BY DEF LevelsInv, QueuedAreLive
  <2> QED  BY <1>1, <2>1, <2>2 DEF AtLevel
<1>3. ASSUME NEW l \in AtLevel(s, p)
      PROVE  l \in ToSet(q)
  <2>1. l \in Locs /\ slot[l] # NIL /\ slot[l].side = s /\ slot[l].price = p
    BY DEF AtLevel
  <2>2. \E i \in DOMAIN queue[slot[l].side][slot[l].price] :
           queue[slot[l].side][slot[l].price][i] = l
    BY <2>1 DEF LevelsInv, LiveAreQueued
  <2> QED  BY <2>1, <2>2 DEF ToSet
<1> QED  BY <1>2, <1>3

LEMMA LevelsAddUp ==
    ASSUME LevelsInv, TotalsExact
    PROVE  TotalsMatch
BY LevelIsQueue DEF TotalsExact, LevelSum, TotalsMatch

\* Quantities and their sums are numbers.
LEMMA QtyFacts ==
    ASSUME StoreInv
    PROVE  /\ IsFiniteSet(Locs)
           /\ \A l \in Locs : /\ QtyAt[l] \in Nat /\ QtyAt[l] \in Int
                              /\ slot[l] # NIL => QtyAt[l] = slot[l].qty
           /\ \A s \in Sides, p \in Prices : /\ AtLevel(s, p) \subseteq Locs
                                             /\ IsFiniteSet(AtLevel(s, p))
                                             /\ LevelSum(s, p) \in Nat
<1>1. IsFiniteSet(Locs)
  BY StoreIsBigEnough
<1>2. ASSUME NEW l \in Locs
      PROVE  /\ QtyAt[l] \in Nat /\ QtyAt[l] \in Int
             /\ slot[l] # NIL => QtyAt[l] = slot[l].qty
  BY QtyWidth DEF StoreInv, StoreType, QtyAt, Orders, LiveQtys
<1>3. ASSUME NEW s \in Sides, NEW p \in Prices
      PROVE  /\ AtLevel(s, p) \subseteq Locs
             /\ IsFiniteSet(AtLevel(s, p))
             /\ LevelSum(s, p) \in Nat
  <2>1. AtLevel(s, p) \subseteq Locs
    BY DEF AtLevel
  <2>2. IsFiniteSet(AtLevel(s, p))
    BY <1>1, <2>1, FS_Subset
  <2>3. SumFunctionOnSet(QtyAt, AtLevel(s, p)) \in Nat
    BY <1>2, <2>1, <2>2, SumMonotone
  <2> QED  BY <2>1, <2>2, <2>3 DEF LevelSum
<1> QED  BY <1>1, <1>2, <1>3

\* The same, after a step.
LEMMA QtyFactsAfter ==
    ASSUME StoreInv'
    PROVE  IsFiniteSet(Locs) /\ \A l \in Locs : QtyAt'[l] \in Nat
<1>1. IsFiniteSet(Locs)
  BY StoreIsBigEnough
<1>2. ASSUME NEW l \in Locs
      PROVE  QtyAt'[l] \in Nat
  BY QtyWidth DEF StoreInv, StoreType, QtyAt, Orders, LiveQtys
<1> QED  BY <1>1, <1>2

\* A total that moves by what the quantities of its level move by stays exact.
LEMMA TotalMoves ==
    ASSUME StoreInv, TotalsExact,
           NEW s0 \in Sides, NEW p0 \in Prices, NEW d \in Int,
           total' = TotalWith(s0, p0, d),
           LevelSum(s0, p0)' = LevelSum(s0, p0) + d,
           \A s \in Sides, p \in Prices :
              ~(s = s0 /\ p = p0) => LevelSum(s, p)' = LevelSum(s, p)
    PROVE  TotalsExact'
<1> SUFFICES ASSUME NEW s \in Sides, NEW p \in Prices
             PROVE  total'[s][p] = LevelSum(s, p)' % QtyMod
  BY DEF TotalsExact
<1>1. total[s][p] = LevelSum(s, p) % QtyMod
  BY DEF TotalsExact
<1>2. LevelSum(s, p) \in Int
  BY QtyFacts
<1>3. CASE s = s0 /\ p = p0
  <2>1. total'[s][p] = (total[s][p] + d) % QtyMod
    BY <1>3 DEF TotalWith, StoreInv, StoreType
  <2>2. ((LevelSum(s, p) % QtyMod) + d) % QtyMod = (LevelSum(s, p) + d) % QtyMod
    BY <1>2, QtyWidth, ModAdd
  <2>3. LevelSum(s, p)' = LevelSum(s, p) + d
    BY <1>3
  <2> QED  BY <1>1, <2>1, <2>2, <2>3
<1>4. CASE ~(s = s0 /\ p = p0)
  <2>1. total'[s][p] = total[s][p]
    BY <1>4 DEF TotalWith, StoreInv, StoreType
  <2>2. LevelSum(s, p)' = LevelSum(s, p)
    BY <1>4
  <2> QED  BY <1>1, <2>1, <2>2
<1> QED  BY <1>3, <1>4

\* A level none of whose orders changes has the sum it had.
LEMMA LevelSumSame ==
    ASSUME StoreInv, NEW s \in Sides, NEW p \in Prices,
           AtLevel(s, p)' = AtLevel(s, p),
           \A k \in AtLevel(s, p) : QtyAt'[k] = QtyAt[k]
    PROVE  LevelSum(s, p)' = LevelSum(s, p)
<1>1. IsFiniteSet(AtLevel(s, p))
  BY QtyFacts
<1>2. SumFunctionOnSet(QtyAt', AtLevel(s, p)) = SumFunctionOnSet(QtyAt, AtLevel(s, p))
  BY <1>1, SumSame
<1> QED  BY <1>2 DEF LevelSum

\* An order that leaves, comes to rest or is resized moves the total of its
\* level by what it moves the sum.
LEMMA LeavesTotals ==
    ASSUME StoreInv, TotalsExact, NEW l \in Locs, slot[l] # NIL,
           NEW i, NEW q2, LeavesLevel(l, i, q2),
           \A k \in Locs : slot'[k] = IF k = l THEN NIL ELSE slot[k]
    PROVE  TotalsExact'
<1>0. PICK s0 \in Sides, p0 \in Prices, n \in Nat :
              /\ slot[l].side = s0 /\ slot[l].price = p0 /\ slot[l].qty = n
              /\ QtyAt[l] = n
  <2>1. slot[l].side \in Sides /\ slot[l].price \in Prices
          /\ slot[l].qty \in Nat
    BY QtyWidth DEF StoreInv, StoreType, Orders, LiveQtys
  <2>2. QtyAt[l] = slot[l].qty
    BY QtyFacts
  <2> QED  BY <2>1, <2>2, Zenon
<1>1. -n \in Int
  OBVIOUS
<1>2. \A k \in Locs : k # l => QtyAt'[k] = QtyAt[k]
  BY DEF QtyAt
<1>3. total' = TotalWith(s0, p0, -n)
  BY <1>0 DEF LeavesLevel
<1>4. ASSUME NEW s \in Sides, NEW p \in Prices, ~(s = s0 /\ p = p0)
      PROVE  LevelSum(s, p)' = LevelSum(s, p)
  <2>1. AtLevel(s, p)' = AtLevel(s, p) /\ l \notin AtLevel(s, p)
    BY <1>0, <1>4 DEF AtLevel
  <2>2. \A k \in AtLevel(s, p) : QtyAt'[k] = QtyAt[k]
    BY <1>2, <2>1, QtyFacts
  <2> QED  BY <2>1, <2>2, LevelSumSame
<1>5. LevelSum(s0, p0)' = LevelSum(s0, p0) + (-n)
  <2> DEFINE A == AtLevel(s0, p0)
  <2>1. AtLevel(s0, p0)' = A \ {l} /\ l \in A
    BY <1>0 DEF AtLevel
  <2>2. IsFiniteSet(A) /\ A \subseteq Locs
    BY QtyFacts
  <2>3. SumFunctionOnSet(QtyAt, A) = QtyAt[l] + SumFunctionOnSet(QtyAt, A \ {l})
    <3>1. \A x \in A : QtyAt[x] \in Int
      BY <2>2, QtyFacts
    <3> HIDE DEF A
    <3> QED  BY <2>1, <2>2, <3>1, SumRemove
  <2>4. SumFunctionOnSet(QtyAt', A \ {l}) = SumFunctionOnSet(QtyAt, A \ {l})
    <3>1. IsFiniteSet(A \ {l})
      BY <2>2, FS_Subset
    <3>2. \A x \in A \ {l} : QtyAt'[x] = QtyAt[x]
      BY <1>2, <2>2
    <3> HIDE DEF A
    <3> QED  BY <3>1, <3>2, SumSame
  <2>5. SumFunctionOnSet(QtyAt, A) = LevelSum(s0, p0)
          /\ SumFunctionOnSet(QtyAt', A \ {l}) = LevelSum(s0, p0)'
    BY <2>1 DEF LevelSum
  <2>6. LevelSum(s0, p0) \in Int /\ SumFunctionOnSet(QtyAt, A \ {l}) \in Int
    <3>1. IsFiniteSet(A \ {l}) /\ \A x \in A \ {l} : QtyAt[x] \in Int
      BY <2>2, FS_Subset, QtyFacts
    <3> QED  BY <1>1, <3>1, QtyFacts, SumInt
  <2> HIDE DEF A
  <2> QED  BY <1>0, <2>3, <2>4, <2>5, <2>6
<1> QED  BY <1>1, <1>3, <1>4, <1>5, TotalMoves

LEMMA RestTotals ==
    ASSUME StoreInv, StoreInv', TotalsExact, NEW o \in Orders, NEW l \in Locs,
           Rest(l, o), \A k \in Locs : slot'[k] = IF k = l THEN o ELSE slot[k]
    PROVE  TotalsExact'
<1> DEFINE s0 == o.side
           p0 == o.price
           n == o.qty
<1>1. s0 \in Sides /\ p0 \in Prices /\ n \in Nat /\ n \in Int /\ o # NIL
        /\ slot[l] = NIL /\ slot'[l] = o
  BY QtyWidth, NilIsNoRecord DEF Orders, LiveQtys, Rest
<1>2. /\ \A k \in Locs : k # l => QtyAt'[k] = QtyAt[k]
      /\ QtyAt'[l] = n
  BY <1>1 DEF QtyAt
<1>3. total' = TotalWith(s0, p0, n)
  BY DEF Rest
<1>4. ASSUME NEW s \in Sides, NEW p \in Prices, ~(s = s0 /\ p = p0)
      PROVE  LevelSum(s, p)' = LevelSum(s, p)
  <2>1. AtLevel(s, p)' = AtLevel(s, p) /\ l \notin AtLevel(s, p)
    BY <1>1, <1>4 DEF AtLevel
  <2>2. \A k \in AtLevel(s, p) : QtyAt'[k] = QtyAt[k]
    BY <1>2, <2>1, QtyFacts
  <2> QED  BY <2>1, <2>2, LevelSumSame
<1>5. LevelSum(s0, p0)' = LevelSum(s0, p0) + n
  <2>0. AtLevel(s0, p0)' = AtLevel(s0, p0) \cup {l} /\ l \notin AtLevel(s0, p0)
    BY <1>1 DEF AtLevel
  <2> HIDE DEF s0, p0, n
  <2> DEFINE A == AtLevel(s0, p0)
  <2>1. AtLevel(s0, p0)' = A \cup {l} /\ l \notin A
    BY <2>0
  <2>2. IsFiniteSet(A) /\ A \subseteq Locs
    BY <1>1, QtyFacts
  <2>3. SumFunctionOnSet(QtyAt', A \cup {l})
          = QtyAt'[l] + SumFunctionOnSet(QtyAt', A)
    <3>1. \A x \in A \cup {l} : QtyAt'[x] \in Int
      BY <1>1, <1>2, <2>2, QtyFacts
    <3> HIDE DEF A
    <3> QED  BY <2>1, <2>2, <3>1, SumAdd
  <2>4. SumFunctionOnSet(QtyAt', A) = SumFunctionOnSet(QtyAt, A)
    <3>1. \A x \in A : QtyAt'[x] = QtyAt[x]
      BY <1>2, <2>1, <2>2
    <3> HIDE DEF A
    <3> QED  BY <2>2, <3>1, SumSame
  <2>5. SumFunctionOnSet(QtyAt, A) = LevelSum(s0, p0)
          /\ SumFunctionOnSet(QtyAt', A \cup {l}) = LevelSum(s0, p0)'
    BY <2>1 DEF LevelSum
  <2>6. LevelSum(s0, p0) \in Int
    BY <1>1, QtyFacts
  <2> HIDE DEF A
  <2> QED  BY <1>1, <1>2, <2>3, <2>4, <2>5, <2>6
<1> HIDE DEF s0, p0, n
<1> QED  BY <1>1, <1>3, <1>4, <1>5, TotalMoves

LEMMA ResizeTotals ==
    ASSUME StoreInv, StoreInv', TotalsExact, NEW l \in Locs, slot[l] # NIL,
           NEW r \in LiveQtys,
           slot' = [slot EXCEPT ![l] = [slot[l] EXCEPT !.qty = r]],
           total' = TotalWith(slot[l].side, slot[l].price, r - slot[l].qty)
    PROVE  TotalsExact'
<1> DEFINE o == slot[l]
           o2 == [o EXCEPT !.qty = r]
<1>1. PICK s0 \in Sides, p0 \in Prices, n \in Nat :
              o.side = s0 /\ o.price = p0 /\ o.qty = n
  <2>1. o.side \in Sides /\ o.price \in Prices /\ o.qty \in Nat
    BY QtyWidth DEF StoreInv, StoreType, Orders, LiveQtys
  <2> QED  BY <2>1, Zenon
<1>2. /\ o2 \in Orders /\ o2.qty = r /\ o2 # NIL
      /\ o2.side = s0 /\ o2.price = p0
      /\ r \in Nat /\ r - n \in Int
  <2>1. o \in Orders
    BY DEF StoreInv, StoreType
  <2>2. o2 \in Orders /\ o2.qty = r /\ o2.side = o.side /\ o2.price = o.price
    BY <2>1 DEF Orders
  <2>3. r \in Nat /\ r - n \in Int
    BY <1>1, QtyWidth DEF LiveQtys
  <2>4. o2 # NIL
    BY <2>2, NilIsNoRecord
  <2> HIDE DEF o, o2
  <2> QED  BY <1>1, <2>2, <2>3, <2>4
<1>3. \A k \in Locs : slot'[k] = IF k = l THEN o2 ELSE slot[k]
  BY DEF StoreInv, StoreType
<1>4. /\ \A k \in Locs : k # l => QtyAt'[k] = QtyAt[k]
      /\ QtyAt'[l] = r /\ QtyAt[l] = n
  <2>1. \A k \in Locs : k # l => QtyAt'[k] = QtyAt[k]
    BY <1>3 DEF QtyAt
  <2>2. QtyAt'[l] = r
    <3>1. QtyAt'[l] = IF slot'[l] = NIL THEN 0 ELSE slot'[l].qty
      BY DEF QtyAt
    <3>2. slot'[l] = o2
      BY <1>3
    <3> HIDE DEF o, o2
    <3> QED  BY <1>2, <3>1, <3>2
  <2>3. QtyAt[l] = o.qty
    BY DEF QtyAt
  <2> HIDE DEF o, o2
  <2> QED  BY <1>1, <1>2, <2>1, <2>2, <2>3
<1>5. \A s \in Sides, p \in Prices :
         AtLevel(s, p)' = AtLevel(s, p)
  BY <1>1, <1>2, <1>3 DEF AtLevel
<1>6. ASSUME NEW s \in Sides, NEW p \in Prices, ~(s = s0 /\ p = p0)
      PROVE  LevelSum(s, p)' = LevelSum(s, p)
  <2>1. l \notin AtLevel(s, p)
    BY <1>1, <1>6 DEF AtLevel
  <2>2. \A k \in AtLevel(s, p) : QtyAt'[k] = QtyAt[k]
    BY <1>4, <2>1, QtyFacts
  <2> QED  BY <1>5, <2>2, LevelSumSame
<1>7. l \in AtLevel(s0, p0)
  BY <1>1 DEF AtLevel
<1>8. LevelSum(s0, p0)' = LevelSum(s0, p0) + (r - n)
  <2> DEFINE A == AtLevel(s0, p0)
  <2>1. IsFiniteSet(A) /\ A \subseteq Locs /\ l \in A
    BY <1>2, <1>7, QtyFacts
  <2>2. /\ \A x \in A : QtyAt[x] \in Int /\ QtyAt'[x] \in Int
        /\ \A x \in A \ {l} : QtyAt'[x] = QtyAt[x]
    BY <1>2, <1>4, <2>1, QtyFacts
  <2>3. SumFunctionOnSet(QtyAt', A)
          = SumFunctionOnSet(QtyAt, A) + (QtyAt'[l] - QtyAt[l])
    <3> HIDE DEF A
    <3> QED  BY <2>1, <2>2, SumChange
  <2>4. SumFunctionOnSet(QtyAt, A) = LevelSum(s0, p0)
          /\ SumFunctionOnSet(QtyAt', A) = LevelSum(s0, p0)'
    BY <1>5 DEF LevelSum
  <2> HIDE DEF A
  <2> QED  BY <1>4, <2>3, <1>2, <2>4
<1>9. total' = TotalWith(s0, p0, r - n)
  BY <1>1
<1> QED  BY <1>2, <1>6, <1>8, <1>9, TotalMoves

----------------------------------------------------------------------------
(* What fillable() adds up, and what is on offer.                          *)

\* The orders of the opposite side at a set of prices, level by level.
LEMMA LevelsAdd ==
    ASSUME StoreInv, NEW s \in Sides, NEW R \in SUBSET index[s]
    PROVE  /\ IsFiniteSet(R)
           /\ SumFunctionOnSet([p \in R |-> LevelSum(s, p)], R)
                = SumFunctionOnSet(QtyAt, UNION {AtLevel(s, p) : p \in R})
           /\ SumFunctionOnSet([p \in R |-> LevelSum(s, p)], R) \in Nat
<1>0. R \subseteq Prices
  BY DEF StoreInv, StoreType
<1>1. IsFiniteSet(R)
  <2>1. IsFiniteSet(-(PriceLimit + 1) .. PriceLimit)
    BY RangeIsGiven, FS_Interval
  <2> QED  BY <1>0, <2>1, PricesFit, FS_Subset DEF Prices
<1> DEFINE group == [p \in R |-> AtLevel(s, p)]
<1>2. /\ \A p \in R : group[p] \subseteq Locs
      /\ \A p, q \in R : p # q => group[p] \cap group[q] = {}
      /\ \A l \in Locs : QtyAt[l] \in Int
      /\ IsFiniteSet(Locs)
  BY <1>0, QtyFacts DEF AtLevel
<1>3. SumFunctionOnSet([p \in R |-> SumFunctionOnSet(QtyAt, group[p])], R)
        = SumFunctionOnSet(QtyAt, UNION {group[p] : p \in R})
  <2> HIDE DEF group
  <2> QED  BY <1>1, <1>2, SumOfGroups
<1>4. [p \in R |-> SumFunctionOnSet(QtyAt, group[p])] = [p \in R |-> LevelSum(s, p)]
  BY DEF LevelSum
<1>5. {group[p] : p \in R} = {AtLevel(s, p) : p \in R}
  OBVIOUS
<1>6. SumFunctionOnSet([p \in R |-> LevelSum(s, p)], R) \in Nat
  <2> DEFINE w == [p \in R |-> LevelSum(s, p)]
  <2>1. \A p \in R : w[p] \in Nat
    BY <1>0, QtyFacts
  <2>2. R \in SUBSET R /\ \A p \in R : w[p] <= w[p]
    BY <2>1
  <2> HIDE DEF w
  <2> SUFFICES SumFunctionOnSet(w, R) \in Nat
    BY DEF w
  <2> QED  BY <1>1, <2>1, <2>2, SumMonotone
<1> QED  BY <1>1, <1>3, <1>4, <1>5, <1>6

\* The prices fillable() adds up.
Reach(side, price) == IF side = "Bid" THEN LowEnd .. price ELSE price .. HighEnd

\* fillable() never promises more than is on offer.  It says exactly what is,
\* if that fits a Qty and every price is within the bounds it looks at.
LEMMA FillableBounds ==
    ASSUME StoreInv, TotalsExact, NEW side \in Sides, NEW limit \in Prices
    PROVE  /\ Fillable(side, limit) \in Nat
           /\ Offered(side, limit) \in Nat
           /\ Fillable(side, limit) <= Offered(side, limit)
           /\ Prices \subseteq LowEnd .. HighEnd
                /\ Offered(side, limit) < QtyMod
                => Fillable(side, limit) = Offered(side, limit)
<1> DEFINE opp == Opposite(side)
           R == index[opp] \cap Reach(side, limit)
           sums == [p \in R |-> LevelSum(opp, p)]
           levels == UNION {AtLevel(opp, p) : p \in R}
           T == SumFunctionOnSet(total[opp], R)
           U == SumFunctionOnSet(sums, R)
           V == SumFunctionOnSet(QtyAt, InReach(side, limit))
<1>1. /\ opp \in Sides /\ (side = "Bid" <=> opp = "Ask")
      /\ R \subseteq index[opp] /\ R \subseteq Prices
      /\ Fillable(side, limit) = T % QtyMod
  BY DEF Opposite, Sides, StoreInv, StoreType, Fillable, Reach
<1>2. IsFiniteSet(R) /\ U = SumFunctionOnSet(QtyAt, levels) /\ U \in Nat
  <2> HIDE DEF R, opp
  <2> QED  BY <1>1, LevelsAdd
<1>3. \A p \in R : /\ sums[p] \in Nat /\ total[opp][p] \in Nat
                   /\ total[opp][p] = sums[p] % QtyMod
                   /\ total[opp][p] <= sums[p]
                   /\ sums[p] < QtyMod => total[opp][p] = sums[p]
  <2> SUFFICES ASSUME NEW p \in R
               PROVE  /\ sums[p] \in Nat /\ total[opp][p] \in Nat
                      /\ total[opp][p] = sums[p] % QtyMod
                      /\ total[opp][p] <= sums[p]
                      /\ sums[p] < QtyMod => total[opp][p] = sums[p]
    OBVIOUS
  <2>1. sums[p] = LevelSum(opp, p) /\ sums[p] \in Nat
    BY <1>1, QtyFacts
  <2>2. total[opp][p] = LevelSum(opp, p) % QtyMod
    BY <1>1 DEF TotalsExact
  <2> HIDE DEF sums, R, opp
  <2> QED  BY <2>1, <2>2, QtyWidth, ModLeast
<1>4. T \in Nat /\ T <= U
  <2> HIDE DEF sums, R, opp
  <2>1. R \in SUBSET R
    OBVIOUS
  <2> QED  BY <1>2, <1>3, <2>1, SumMonotone
<1>5. levels \subseteq InReach(side, limit)
  <2>1. limit \in Int /\ \A p \in R : p \in Int
    BY <1>1, PricesAreTicks DEF Prices
  <2>2. \A p \in R : Within(side, limit, p)
    BY <2>1, RangeIsGiven DEF Within, Reach, LowEnd, HighEnd
  <2> QED  BY <2>2 DEF AtLevel, InReach
<1>6. /\ IsFiniteSet(InReach(side, limit))
      /\ \A l \in InReach(side, limit) : QtyAt[l] \in Nat
  BY QtyFacts, FS_Subset DEF InReach
<1>7. V \in Nat /\ U <= V
  <2>1. \A l \in levels : QtyAt[l] \in Nat /\ QtyAt[l] <= QtyAt[l]
    BY <1>5, <1>6
  <2> HIDE DEF levels, sums, R, opp
  <2> QED  BY <1>2, <1>5, <1>6, <2>1, SumMonotone
<1>8. V = Offered(side, limit)
  BY DEF Offered
<1>9. Fillable(side, limit) \in Nat /\ Fillable(side, limit) <= T
  <2> HIDE DEF T
  <2> QED  BY <1>1, <1>4, QtyWidth, ModLeast
<1>10. ASSUME Prices \subseteq LowEnd .. HighEnd, V < QtyMod
       PROVE  Fillable(side, limit) = V
  <2>1. levels = InReach(side, limit)
    <3> SUFFICES ASSUME NEW l \in InReach(side, limit)
                 PROVE  l \in levels
      BY <1>5
    <3>1. /\ l \in Locs /\ slot[l] # NIL /\ slot[l].side = opp
          /\ Within(side, limit, slot[l].price)
      BY DEF InReach
    <3>2. PICK p \in Prices : p = slot[l].price
      BY <3>1 DEF StoreInv, StoreType, Orders
    <3>3. p \in index[opp]
      BY <1>1, <3>1, <3>2 DEF StoreInv, LiveAreQueued, IndexExact
    <3>4. p \in Reach(side, limit)
      <4>1. p \in LowEnd .. HighEnd /\ limit \in Int /\ p \in Int
        BY <1>10, PricesAreTicks DEF Prices
      <4>2. limit # NIL
        BY <4>1, NilIsNoValue
      <4>3. LowEnd \in Int /\ HighEnd \in Int
        BY RangeIsGiven DEF LowEnd, HighEnd
      <4> QED  BY <3>1, <3>2, <4>1, <4>2, <4>3 DEF Reach, Within
    <3> QED  BY <3>1, <3>2, <3>3, <3>4 DEF AtLevel
  <2>2. U = V
    BY <1>2, <2>1
  <2>3. \A p \in R : sums[p] < QtyMod
    <3> SUFFICES ASSUME NEW p \in R
                 PROVE  sums[p] < QtyMod
      OBVIOUS
    <3>1. sums[p] = SumFunctionOnSet(QtyAt, AtLevel(opp, p)) /\ sums[p] \in Nat
      BY <1>3 DEF LevelSum
    <3>2. AtLevel(opp, p) \subseteq InReach(side, limit)
      BY <1>5
    <3>3. \A l \in AtLevel(opp, p) : QtyAt[l] \in Nat /\ QtyAt[l] <= QtyAt[l]
      BY <1>6, <3>2
    <3>4. SumFunctionOnSet(QtyAt, AtLevel(opp, p)) <= V
      <4> HIDE DEF opp
      <4> QED  BY <1>6, <3>2, <3>3, SumMonotone
    <3> HIDE DEF sums, V, R
    <3> QED  BY <1>7, <1>10, <3>1, <3>4, QtyWidth
  <2>4. \A p \in R : total[opp][p] = sums[p]
    BY <1>3, <2>3
  <2>5. T = U
    <3> HIDE DEF sums, R, opp
    <3> QED  BY <1>2, <2>4, SumSame
  <2> HIDE DEF T, U, V
  <2> QED  BY <1>1, <1>7, <1>10, <2>2, <2>5, QtyWidth, ModLeast
<1> HIDE DEF T, U, V
<1> QED  BY <1>2, <1>4, <1>7, <1>8, <1>9, <1>10

----------------------------------------------------------------------------
(* The invariant of the whole book.                                        *)

MapType == map \in [Ids -> Locs \cup {NIL}] /\ taker \in Takers \cup {NIL}

\* A command that may rest its remainder has a place to rest it.
RoomLeft == live <= MaxOrders /\ (taker # NIL => live < MaxOrders)

MapInv ==
    /\ MapType
    /\ LiveAreMapped
    /\ MappedAreLive
    /\ TakerIsReserved
    /\ RoomLeft

OutInv == evs \in Seq(Events) /\ seq \in 0 .. (SeqModulus - 1)

BookInv == StoreInv /\ MapInv /\ NotCrossed /\ OutInv

----------------------------------------------------------------------------
(* What a step emits.                                                      *)

LEMMA EmitNone ==
    ASSUME OutInv, Emit(<<>>, <<>>)
    PROVE  OutInv'
<1>1. <<>> \in Seq(Events)
  OBVIOUS
<1> QED  BY <1>1, EmitType DEF OutInv

LEMMA EmitOne ==
    ASSUME OutInv, NEW e \in Events, Emit(<<>>, <<e>>) \/ Emit(evs, <<e>>)
    PROVE  OutInv'
<1>1. <<e>> \in Seq(Events) /\ <<>> \in Seq(Events)
  OBVIOUS
<1> QED  BY <1>1, EmitType DEF OutInv

LEMMA EmitTwo ==
    ASSUME OutInv, NEW e \in Events, NEW f \in Events, Emit(evs, <<e, f>>)
    PROVE  OutInv'
<1>1. <<e, f>> \in Seq(Events)
  OBVIOUS
<1> QED  BY <1>1, EmitType DEF OutInv

\* Fewer prices in the index cross no more than before.
LEMMA ShrinkNotCrossed ==
    ASSUME NotCrossed, \A s \in Sides : index'[s] \subseteq index[s]
    PROVE  NotCrossed'
BY DEF NotCrossed, Sides

----------------------------------------------------------------------------
(* The running command.                                                    *)

\* What the type of the running command says of its fields.
LEMMA TakerFields ==
    ASSUME NEW t \in Takers
    PROVE  /\ t # NIL
           /\ t.cmd \in {"new", "replace"} /\ t.id \in Ids /\ t.side \in Sides
           /\ t.limit \in Prices \cup {NIL} /\ t.qty \in 0 .. (QtyMod - 1)
           /\ t.tif \in Tifs
           /\ t.cmd = "replace" => t.limit \in Prices
BY NilIsNoRecord DEF Takers

\* Filling the running command changes its quantity only.
LEMMA TakerFilled ==
    ASSUME NEW t \in Takers, NEW r \in 0 .. (QtyMod - 1)
    PROVE  LET t2 == [t EXCEPT !.qty = r]
           IN  /\ t2 \in Takers
               /\ t2.cmd = t.cmd /\ t2.id = t.id
<1>1. CASE t \in [cmd : {"new"}, id : Ids, side : Sides,
                  limit : Prices \cup {NIL},
                  qty : 0 .. (QtyMod - 1), tif : Tifs]
  BY <1>1 DEF Takers
<1>2. CASE t \in [cmd : {"replace"}, id : Ids, side : Sides, limit : Prices,
                  qty : 0 .. (QtyMod - 1), tif : Tifs]
  BY <1>2 DEF Takers
<1> QED  BY <1>1, <1>2 DEF Takers

\* A step that leaves the book alone and has no command running, before or
\* after, preserves the invariant if its events are events.
LEMMA BookUnchanged ==
    ASSUME BookInv, UNCHANGED <<book, taker>>, OutInv'
    PROVE  BookInv'
<1>1. StoreInv'
  BY DEF BookInv, book, StoreInv, StoreType, QueuedAreLive, LiveAreQueued,
         IndexExact, LiveCounted, LiveLocs
<1>2. MapInv'
  BY DEF BookInv, book, MapInv, MapType, LiveAreMapped, MappedAreLive,
         TakerIsReserved, RoomLeft, Replacing
<1>3. NotCrossed'
  BY DEF BookInv, book, NotCrossed
<1> QED  BY <1>1, <1>2, <1>3 DEF BookInv

\* The same for a step that ends the command of an order that is not in the
\* map, or starts one.
LEMMA StoreUnchanged ==
    ASSUME BookInv, UNCHANGED book
    PROVE  StoreInv' /\ NotCrossed'
BY DEF BookInv, book, StoreInv, StoreType, QueuedAreLive, LiveAreQueued,
       IndexExact, LiveCounted, LiveLocs, NotCrossed

----------------------------------------------------------------------------
(* The initial state.                                                      *)

\* A book that nothing was put in.
EmptyBook ==
    /\ queue = [s \in Sides |-> [p \in Prices |-> <<>>]]
    /\ index = [s \in Sides |-> {}]
    /\ total = [s \in Sides |-> [p \in Prices |-> 0]]
    /\ slot = [l \in Locs |-> NIL]
    /\ map = [id \in Ids |-> NIL]
    /\ live = 0

LEMMA EmptyHolds ==
    ASSUME EmptyBook, taker = NIL, OutInv
    PROVE  BookInv
<1>1. StoreType
  <2>1. <<>> \in Seq(Locs) /\ 0 \in 0 .. (QtyMod - 1)
    BY QtyWidth
  <2> QED  BY <2>1 DEF EmptyBook, StoreType
<1>2. QueuedAreLive /\ LiveAreQueued /\ IndexExact
  BY DEF EmptyBook, QueuedAreLive, LiveAreQueued, IndexExact
<1>3. LiveCounted
  <2>1. LiveLocs = {}
    BY DEF EmptyBook, LiveLocs
  <2> QED  BY <2>1, FS_EmptySet DEF EmptyBook, LiveCounted
<1>4. MapInv
  BY StoreIsBigEnough
     DEF EmptyBook, MapInv, MapType, LiveAreMapped, MappedAreLive,
         TakerIsReserved, RoomLeft
<1>5. NotCrossed
  BY DEF EmptyBook, NotCrossed, Sides
<1> QED  BY <1>1, <1>2, <1>3, <1>4, <1>5 DEF BookInv, StoreInv

LEMMA InitHolds ==
    ASSUME Init
    PROVE  BookInv
<1>1. EmptyBook /\ taker = NIL
  BY DEF Init, EmptyBook
<1>2. OutInv
  BY SeqWidth DEF Init, OutInv
<1> QED  BY <1>1, <1>2, EmptyHolds

----------------------------------------------------------------------------
(* new                                                                     *)

LEMMA RejectNewKeeps ==
    ASSUME BookInv, NEW id \in Ids, NEW side, NEW limit, NEW qty, NEW tif,
           RejectNew(id, side, limit, qty, tif)
    PROVE  BookInv'
<1>1. NewFault(id, side, limit, qty, tif) \in RejectReasons
  BY DEF RejectNew, NewFault, RejectReasons
<1>2. Rejected(id, NewFault(id, side, limit, qty, tif)) \in Events
  BY <1>1 DEF Rejected, Events
<1>3. OutInv'
  BY <1>2, EmitOne DEF RejectNew, BookInv
<1> QED  BY <1>3, BookUnchanged DEF RejectNew

LEMMA StartNewKeeps ==
    ASSUME BookInv, NEW id \in Ids, NEW side \in Sides,
           NEW limit \in CmdPrices \cup {NIL}, NEW qty \in CmdQtys,
           NEW tif \in Tifs, StartNew(id, side, limit, qty, tif)
    PROVE  BookInv'
<1>1. (limit = NIL \/ PriceOK(limit)) /\ map[id] = NIL /\ live < MaxOrders
  <2>1. NewFault(id, side, limit, qty, tif) = NIL
    BY DEF StartNew
  <2>2. NIL \notin RejectReasons
    BY NilIsNoValue
  <2>3. (limit = NIL \/ PriceOK(limit)) /\ map[id] = NIL /\ ~BookIsFull
    BY <2>1, <2>2 DEF NewFault, RejectReasons
  <2>4. live \in Nat /\ MaxOrders \in Nat
    BY StoreIsBigEnough, FS_CardinalityType, FS_Subset
       DEF BookInv, StoreInv, LiveCounted, LiveLocs
  <2> QED  BY <2>3, <2>4 DEF BookIsFull
<1>2. taker' \in Takers
  BY <1>1, QtyWidth DEF StartNew, Takers, Prices
<1>3. taker'.cmd = "new" /\ taker'.id = id
  BY DEF StartNew
<1>4. UNCHANGED <<slot, map, live>> /\ taker = NIL
  BY DEF StartNew, book
<1>5. MapInv'
  <2>1. MapType' /\ LiveAreMapped' /\ RoomLeft'
    BY <1>1, <1>2, <1>4 DEF BookInv, MapInv, MapType, LiveAreMapped, RoomLeft
  <2>2. MappedAreLive'
    BY <1>3, <1>4 DEF BookInv, MapInv, MappedAreLive, Replacing
  <2>3. TakerIsReserved'
    BY <1>1, <1>3, <1>4 DEF TakerIsReserved
  <2> QED  BY <2>1, <2>2, <2>3 DEF MapInv
<1>6. StoreInv' /\ NotCrossed'
  BY StoreUnchanged DEF StartNew
<1>7. OutInv'
  BY EmitNone DEF StartNew, BookInv
<1> QED  BY <1>5, <1>6, <1>7 DEF BookInv

----------------------------------------------------------------------------
(* cancel                                                                  *)

LEMMA RejectCancelKeeps ==
    ASSUME BookInv, NEW id \in Ids, RejectCancel(id)
    PROVE  BookInv'
<1>1. Rejected(id, "UnknownOrderId") \in Events
  BY DEF Rejected, Events, RejectReasons
<1>2. OutInv'
  BY <1>1, EmitOne DEF RejectCancel, BookInv
<1> QED  BY <1>2, BookUnchanged DEF RejectCancel

\* Between commands an entry of the map names the live order of that id.
LEMMA EntryIsLive ==
    ASSUME StoreInv, MapInv, taker = NIL, NEW id \in Ids, map[id] # NIL
    PROVE  /\ map[id] \in Locs /\ slot[map[id]] # NIL
           /\ slot[map[id]] \in Orders /\ slot[map[id]].id = id
<1>1. map[id] \in Locs
  BY DEF MapInv, MapType
<1>2. slot[map[id]] # NIL /\ slot[map[id]].id = id
  BY DEF MapInv, MappedAreLive, Replacing
<1> QED  BY <1>1, <1>2 DEF StoreInv, StoreType

LEMMA CancelKeeps ==
    ASSUME BookInv, NEW id \in Ids, Cancel(id)
    PROVE  BookInv'
<1> DEFINE l == map[id]
<1>1. l \in Locs /\ slot[l] # NIL /\ slot[l].id = id /\ taker = NIL
  BY EntryIsLive DEF Cancel, BookInv
<1>2. PICK i, q2 : Leaves(l, i, q2)
  BY <1>1, UnlinkLeaves DEF Cancel, BookInv
<1>3. /\ StoreInv'
      /\ live \in Nat \ {0}
      /\ \A k \in Locs : slot'[k] = IF k = l THEN NIL ELSE slot[k]
      /\ \A s \in Sides : index'[s] \subseteq index[s]
  <2> HIDE DEF l
  <2> QED  BY <1>1, <1>2, LeavesStore DEF BookInv
<1>4. live' = live - 1
  BY <1>2 DEF Leaves, LeavesLevel
<1>5. \A x \in Ids : map'[x] = IF x = id THEN NIL ELSE map[x]
  BY DEF Cancel, BookInv, MapInv, MapType
<1>6. taker' = NIL
  BY <1>1 DEF Cancel
<1>7. MapInv'
  <2>1. MapType'
    BY <1>6 DEF Cancel, BookInv, MapInv, MapType
  <2>2. LiveAreMapped'
    <3> SUFFICES ASSUME NEW k \in Locs, slot'[k] # NIL
                 PROVE  map'[slot'[k].id] = k
      BY DEF LiveAreMapped
    <3>1. k # l /\ slot'[k] = slot[k]
      BY <1>3
    <3>2. slot[k].id \in Ids /\ map[slot[k].id] = k
      BY <3>1 DEF BookInv, StoreInv, StoreType, Orders, MapInv, LiveAreMapped
    <3> QED  BY <3>1, <3>2, <1>5
  <2>3. MappedAreLive'
    <3> SUFFICES ASSUME NEW x \in Ids, map'[x] # NIL
                 PROVE  slot'[map'[x]] # NIL /\ slot'[map'[x]].id = x
      BY <1>6 DEF MappedAreLive, Replacing
    <3>1. x # id /\ map'[x] = map[x]
      BY <1>5
    <3>2. map[x] \in Locs /\ slot[map[x]] # NIL /\ slot[map[x]].id = x
      BY <3>1, <1>1, EntryIsLive DEF BookInv
    <3>3. map[x] # l
      BY <3>1, <3>2, <1>1
    <3> QED  BY <3>1, <3>2, <3>3, <1>3
  <2>4. TakerIsReserved' /\ RoomLeft'
    BY <1>3, <1>4, <1>6, StoreIsBigEnough
       DEF TakerIsReserved, BookInv, MapInv, RoomLeft
  <2> QED  BY <2>1, <2>2, <2>3, <2>4 DEF MapInv
<1>8. NotCrossed'
  BY <1>3, ShrinkNotCrossed DEF BookInv
<1>9. OutInv'
  <2>1. Closed(id, "Cancelled") \in Events
    BY DEF Closed, Events, CloseReasons
  <2> QED  BY <2>1, EmitOne DEF Cancel, BookInv
<1> QED  BY <1>3, <1>7, <1>8, <1>9 DEF BookInv

----------------------------------------------------------------------------
(* replace                                                                 *)

\* What a replace that passes its validation may rely on.
LEMMA ReplacePasses ==
    ASSUME BookInv, NEW id \in Ids, NEW price \in CmdPrices,
           NEW qty \in CmdQtys, ReplaceFault(id, price, qty) = NIL
    PROVE  map[id] # NIL /\ price \in Prices /\ qty \in LiveQtys
<1>1. NIL \notin RejectReasons
  BY NilIsNoValue
<1>2. map[id] # NIL /\ qty # 0 /\ PriceOK(price)
  BY <1>1 DEF ReplaceFault, RejectReasons
<1> QED  BY <1>2, QtyWidth DEF Prices, LiveQtys

LEMMA RejectReplaceKeeps ==
    ASSUME BookInv, NEW id \in Ids, NEW price, NEW qty,
           RejectReplace(id, price, qty)
    PROVE  BookInv'
<1>1. ReplaceFault(id, price, qty) \in RejectReasons
  BY DEF RejectReplace, ReplaceFault, RejectReasons
<1>2. Rejected(id, ReplaceFault(id, price, qty)) \in Events
  BY <1>1 DEF Rejected, Events
<1>3. OutInv'
  BY <1>2, EmitOne DEF RejectReplace, BookInv
<1> QED  BY <1>3, BookUnchanged DEF RejectReplace

\* A step that resizes an order, leaves the map alone and changes no more of
\* the running command than its quantity keeps map and store in agreement.
LEMMA ResizeMap ==
    ASSUME MapInv, StoreInv,
           \A k \in Locs : /\ slot'[k] = NIL <=> slot[k] = NIL
                           /\ slot[k] # NIL => slot'[k].id = slot[k].id,
           UNCHANGED <<map, live>>,
           taker' \in Takers \cup {NIL},
           taker' = NIL <=> taker = NIL,
           taker # NIL => taker'.cmd = taker.cmd /\ taker'.id = taker.id
    PROVE  MapInv'
<1>1. LiveAreMapped'
  BY DEF MapInv, LiveAreMapped
<1>2. MappedAreLive'
  <2> SUFFICES ASSUME NEW id \in Ids, map[id] # NIL
               PROVE  IF Replacing(id)' THEN slot'[map[id]] = NIL
                      ELSE slot'[map[id]] # NIL /\ slot'[map[id]].id = id
    BY DEF MappedAreLive
  <2>1. Replacing(id)' <=> Replacing(id)
    BY DEF Replacing
  <2>2. map[id] \in Locs
    BY DEF MapInv, MapType
  <2>3. IF Replacing(id) THEN slot[map[id]] = NIL
        ELSE slot[map[id]] # NIL /\ slot[map[id]].id = id
    BY DEF MapInv, MappedAreLive
  <2> QED  BY <2>1, <2>2, <2>3
<1>3. TakerIsReserved'
  BY DEF MapInv, TakerIsReserved
<1> QED  BY <1>1, <1>2, <1>3 DEF MapInv, MapType, RoomLeft

LEMMA ReplaceInPlaceKeeps ==
    ASSUME BookInv, NEW id \in Ids, NEW price \in CmdPrices,
           NEW qty \in CmdQtys, ReplaceInPlace(id, price, qty)
    PROVE  BookInv'
<1> DEFINE l == map[id]
           o == slot[l]
<1>1. l # NIL /\ price \in Prices /\ qty \in LiveQtys
  BY ReplacePasses DEF ReplaceInPlace
<1>2. l \in Locs /\ o # NIL /\ o \in Orders /\ price = o.price
  BY <1>1, EntryIsLive DEF ReplaceInPlace, KeepsPriority, BookInv
<1>3. qty - o.qty \in Int
  BY <1>1, <1>2, QtyWidth DEF Orders, LiveQtys
<1>4. /\ slot' = [slot EXCEPT ![l] = [slot[l] EXCEPT !.qty = qty]]
      /\ total' = TotalWith(slot[l].side, slot[l].price, qty - o.qty)
      /\ UNCHANGED <<queue, index, live, map, taker>>
      /\ Emit(<<>>, <<Replaced(id, price, qty)>>)
  BY <1>2 DEF ReplaceInPlace
<1>5. /\ StoreInv'
      /\ \A k \in Locs : /\ slot'[k] = NIL <=> slot[k] = NIL
                         /\ slot[k] # NIL => slot'[k].id = slot[k].id
  <2> HIDE DEF l, o
  <2> QED  BY <1>1, <1>2, <1>3, <1>4, ResizeStore DEF BookInv, o
<1>6. MapInv'
  BY <1>4, <1>5, ResizeMap DEF BookInv, MapInv, MapType
<1>7. NotCrossed'
  BY <1>4 DEF BookInv, NotCrossed
<1>8. OutInv'
  <2>1. Replaced(id, price, qty) \in Events
    BY <1>1 DEF Replaced, Events
  <2> QED  BY <2>1, <1>4, EmitOne DEF BookInv
<1> QED  BY <1>5, <1>6, <1>7, <1>8 DEF BookInv

LEMMA StartReplaceKeeps ==
    ASSUME BookInv, NEW id \in Ids, NEW price \in CmdPrices,
           NEW qty \in CmdQtys, StartReplace(id, price, qty)
    PROVE  BookInv'
<1> DEFINE l == map[id]
<1>1. l # NIL /\ price \in Prices /\ qty \in LiveQtys /\ taker = NIL
  BY ReplacePasses DEF StartReplace
<1>2. l \in Locs /\ slot[l] # NIL /\ slot[l] \in Orders /\ slot[l].id = id
  BY <1>1, EntryIsLive DEF BookInv
<1>3. PICK i, q2 : Leaves(l, i, q2)
  BY <1>2, UnlinkLeaves DEF StartReplace, BookInv
<1>4. /\ StoreInv'
      /\ live \in Nat \ {0}
      /\ \A k \in Locs : slot'[k] = IF k = l THEN NIL ELSE slot[k]
      /\ \A s \in Sides : index'[s] \subseteq index[s]
  <2> HIDE DEF l
  <2> QED  BY <1>2, <1>3, LeavesStore DEF BookInv
<1>5. live' = live - 1 /\ map' = map
  BY <1>3 DEF Leaves, LeavesLevel, StartReplace
<1>6. taker' \in Takers /\ taker'.cmd = "replace" /\ taker'.id = id
  BY <1>1, <1>2 DEF StartReplace, Takers, Orders, LiveQtys
<1>7. taker' # NIL
  BY <1>6, TakerFields
<1>8. MapInv'
  <2>1. MapType'
    BY <1>5, <1>6 DEF BookInv, MapInv, MapType
  <2>2. LiveAreMapped'
    BY <1>4, <1>5 DEF BookInv, MapInv, LiveAreMapped
  <2>3. MappedAreLive'
    <3> SUFFICES ASSUME NEW x \in Ids, map[x] # NIL
                 PROVE  IF x = id THEN slot'[map[x]] = NIL
                        ELSE slot'[map[x]] # NIL /\ slot'[map[x]].id = x
      BY <1>5, <1>6, <1>7 DEF MappedAreLive, Replacing
    <3>1. map[x] \in Locs /\ slot[map[x]] # NIL /\ slot[map[x]].id = x
      BY <1>1, EntryIsLive DEF BookInv
    <3> QED  BY <3>1, <1>2, <1>4
  <2>4. TakerIsReserved'
    BY <1>1, <1>5, <1>6 DEF TakerIsReserved
  <2>5. RoomLeft'
    BY <1>4, <1>5, StoreIsBigEnough DEF BookInv, MapInv, RoomLeft
  <2> QED  BY <2>1, <2>2, <2>3, <2>4, <2>5 DEF MapInv
<1>9. NotCrossed'
  BY <1>4, ShrinkNotCrossed DEF BookInv
<1>10. OutInv'
  BY EmitNone DEF StartReplace, BookInv
<1> QED  BY <1>4, <1>8, <1>9, <1>10 DEF BookInv

----------------------------------------------------------------------------
(* cross()                                                                 *)

\* While a command runs no live order has its id, free or reserved.
LEMMA TakerIsNotLive ==
    ASSUME MapInv, taker # NIL
    PROVE  \A k \in Locs : slot[k] # NIL => slot[k].id # taker.id
<1> SUFFICES ASSUME NEW k \in Locs, slot[k] # NIL, slot[k].id = taker.id
             PROVE  FALSE
  OBVIOUS
<1>1. taker.id \in Ids
  BY TakerFields DEF MapInv, MapType
<1>2. map[taker.id] = k /\ k # NIL
  BY StoreIsBigEnough DEF MapInv, LiveAreMapped
<1>3. taker.cmd = "replace"
  BY <1>2 DEF MapInv, TakerIsReserved
<1>4. slot[map[taker.id]] = NIL
  BY <1>1, <1>2, <1>3 DEF MapInv, MappedAreLive, Replacing
<1> QED  BY <1>2, <1>4

\* With a maker its entry goes; the other entries still name what they named.
LEMMA MakerLeavesMap ==
    ASSUME BookInv, NEW l \in Locs, slot[l] # NIL,
           map' = [map EXCEPT ![slot[l].id] = NIL],
           \A k \in Locs : slot'[k] = IF k = l THEN NIL ELSE slot[k]
    PROVE  /\ LiveAreMapped'
           /\ \A x \in Ids : map'[x] = IF x = slot[l].id THEN NIL ELSE map[x]
           /\ \A x \in Ids : map'[x] # NIL =>
                IF Replacing(x) THEN slot'[map'[x]] = NIL
                ELSE slot'[map'[x]] # NIL /\ slot'[map'[x]].id = x
<1>1. slot[l].id \in Ids /\ map[slot[l].id] = l
  BY DEF BookInv, StoreInv, StoreType, Orders, MapInv, LiveAreMapped
<1>2. \A x \in Ids : map'[x] = IF x = slot[l].id THEN NIL ELSE map[x]
  BY <1>1 DEF BookInv, MapInv, MapType
<1>3. LiveAreMapped'
  <2> SUFFICES ASSUME NEW k \in Locs, slot'[k] # NIL
               PROVE  map'[slot'[k].id] = k
    BY DEF LiveAreMapped
  <2>1. k # l /\ slot'[k] = slot[k]
    OBVIOUS
  <2>2. slot[k].id \in Ids /\ map[slot[k].id] = k
    BY <2>1 DEF BookInv, StoreInv, StoreType, Orders, MapInv, LiveAreMapped
  <2> QED  BY <1>1, <1>2, <2>1, <2>2
<1>4. ASSUME NEW x \in Ids, map'[x] # NIL
      PROVE  IF Replacing(x) THEN slot'[map'[x]] = NIL
             ELSE slot'[map'[x]] # NIL /\ slot'[map'[x]].id = x
  <2>1. x # slot[l].id /\ map'[x] = map[x]
    BY <1>2, <1>4
  <2>2. map[x] \in Locs
          /\ IF Replacing(x) THEN slot[map[x]] = NIL
             ELSE slot[map[x]] # NIL /\ slot[map[x]].id = x
    BY <1>4, <2>1 DEF BookInv, MapInv, MapType, MappedAreLive
  <2> QED  BY <2>1, <2>2
<1> QED  BY <1>2, <1>3, <1>4

LEMMA FillMakerKeeps ==
    ASSUME BookInv, taker # NIL, NEW bp \in index[Opposite(taker.side)],
           FillMaker(bp)
    PROVE  BookInv'
<1> DEFINE opp == Opposite(taker.side)
           l == Head(queue[opp][bp])
           m == slot[l]
<1>1. taker \in Takers
  BY DEF BookInv, MapInv, MapType
<1>2. opp \in Sides
  BY DEF Opposite, Sides
<1>3. bp \in Prices /\ l \in Locs /\ m \in Orders /\ m # NIL
  BY <1>2, HeadIsLive, NilIsNoRecord DEF BookInv
<1>4. m.id \in Ids /\ map[m.id] = l
  BY <1>3 DEF Orders, BookInv, MapInv, LiveAreMapped
<1>5. m.qty \in LiveQtys /\ m.qty <= taker.qty /\ taker.qty \in 0 .. (QtyMod - 1)
  BY <1>1, <1>3, TakerFields DEF Orders, FillMaker
<1>6. /\ StoreInv'
      /\ live \in Nat \ {0}
      /\ \A k \in Locs : slot'[k] = IF k = l THEN NIL ELSE slot[k]
      /\ \A s \in Sides : index'[s] \subseteq index[s]
  <2>1. Leaves(l, 1, Tail(queue[opp][bp]))
    BY FillMakerLeaves DEF BookInv
  <2> HIDE DEF l
  <2> QED  BY <1>3, <2>1, LeavesStore DEF BookInv
<1>7. live' = live - 1
  BY DEF FillMaker
<1>8. /\ LiveAreMapped'
      /\ \A x \in Ids : map'[x] = IF x = m.id THEN NIL ELSE map[x]
      /\ \A x \in Ids : map'[x] # NIL =>
           IF Replacing(x) THEN slot'[map'[x]] = NIL
           ELSE slot'[map'[x]] # NIL /\ slot'[map'[x]].id = x
  <2>1. map' = [map EXCEPT ![slot[l].id] = NIL]
    BY DEF FillMaker
  <2> HIDE DEF l
  <2> QED  BY <1>3, <1>6, <2>1, MakerLeavesMap
<1>9. taker' \in Takers /\ taker'.cmd = taker.cmd /\ taker'.id = taker.id
        /\ taker' # NIL
  <2>1. taker.qty - m.qty \in 0 .. (QtyMod - 1)
    BY <1>5, QtyWidth DEF LiveQtys
  <2>2. taker' = [taker EXCEPT !.qty = taker.qty - m.qty]
    BY DEF FillMaker
  <2> HIDE DEF m
  <2> QED  BY <1>1, <2>1, <2>2, TakerFilled, TakerFields
<1>10. taker.id \in Ids /\ taker.id # m.id
  <2>1. taker.id \in Ids
    BY <1>1, TakerFields
  <2>2. taker.id # m.id
    BY <1>3, TakerIsNotLive DEF BookInv
  <2> QED  BY <2>1, <2>2
<1>11. MapInv'
  <2>1. MapType'
    BY <1>9 DEF FillMaker, BookInv, MapInv, MapType
  <2>2. MappedAreLive'
    <3>1. ASSUME NEW x \in Ids
          PROVE  Replacing(x)' <=> Replacing(x)
      BY <1>9 DEF Replacing
    <3> QED  BY <1>8, <3>1 DEF MappedAreLive
  <2>3. TakerIsReserved'
    BY <1>8, <1>9, <1>10 DEF BookInv, MapInv, TakerIsReserved
  <2>4. RoomLeft'
    BY <1>6, <1>7, StoreIsBigEnough DEF BookInv, MapInv, RoomLeft
  <2> QED  BY <1>8, <2>1, <2>2, <2>3, <2>4 DEF MapInv
<1>12. NotCrossed'
  BY <1>6, ShrinkNotCrossed DEF BookInv
<1>13. OutInv'
  <2>1. Trade(m.id, taker.id, bp, m.qty) \in Events
    BY <1>3, <1>4, <1>5, <1>10 DEF Trade, Events, Prices
  <2>2. Closed(m.id, "Filled") \in Events
    BY <1>4 DEF Closed, Events, CloseReasons
  <2> QED  BY <2>1, <2>2, EmitTwo DEF FillMaker, BookInv
<1> QED  BY <1>6, <1>11, <1>12, <1>13 DEF BookInv

LEMMA FillTakerKeeps ==
    ASSUME BookInv, taker # NIL, taker.qty > 0,
           NEW bp \in index[Opposite(taker.side)], FillTaker(bp)
    PROVE  BookInv'
<1> DEFINE opp == Opposite(taker.side)
           l == Head(queue[opp][bp])
           m == slot[l]
<1>1. taker \in Takers
  BY DEF BookInv, MapInv, MapType
<1>2. opp \in Sides
  BY DEF Opposite, Sides
<1>3. /\ bp \in Prices /\ l \in Locs /\ m \in Orders /\ m # NIL
      /\ m.side = opp /\ m.price = bp
  BY <1>2, HeadIsLive, NilIsNoRecord DEF BookInv
<1>4. /\ taker.qty \in LiveQtys /\ m.qty - taker.qty \in LiveQtys
      /\ -taker.qty \in Int
  <2>1. m.qty \in LiveQtys /\ m.qty > taker.qty
          /\ taker.qty \in 0 .. (QtyMod - 1)
    BY <1>1, <1>3, TakerFields DEF Orders, FillTaker
  <2> QED  BY <2>1, QtyWidth DEF LiveQtys
<1>5. /\ slot' = [slot EXCEPT ![l] =
                    [slot[l] EXCEPT !.qty = m.qty - taker.qty]]
      /\ total' = TotalWith(slot[l].side, slot[l].price, -taker.qty)
      /\ UNCHANGED <<queue, index, live, map>>
  BY <1>3 DEF FillTaker
<1>6. /\ StoreInv'
      /\ \A k \in Locs : /\ slot'[k] = NIL <=> slot[k] = NIL
                         /\ slot[k] # NIL => slot'[k].id = slot[k].id
  <2> HIDE DEF l
  <2>1. StoreInv /\ slot[l] # NIL
    BY <1>3 DEF BookInv
  <2>2. PICK r \in LiveQtys : r = m.qty - taker.qty
    BY <1>4
  <2>3. PICK d \in Int : d = -taker.qty
    BY <1>4
  <2>4. /\ slot' = [slot EXCEPT ![l] = [slot[l] EXCEPT !.qty = r]]
        /\ total' = TotalWith(slot[l].side, slot[l].price, d)
        /\ UNCHANGED <<queue, index, live>>
    BY <1>5, <2>2, <2>3
  <2> HIDE DEF l
  <2> QED  BY <1>3, <2>1, <2>4, ResizeStore, Zenon
<1>7. taker' \in Takers /\ taker'.cmd = taker.cmd /\ taker'.id = taker.id
        /\ taker' # NIL
  <2>1. 0 \in 0 .. (QtyMod - 1)
    BY QtyWidth
  <2>2. taker' = [taker EXCEPT !.qty = 0]
    BY DEF FillTaker
  <2> QED  BY <1>1, <2>1, <2>2, TakerFilled, TakerFields
<1>8. MapInv'
  BY <1>5, <1>6, <1>7, ResizeMap DEF BookInv
<1>9. NotCrossed'
  BY <1>5 DEF BookInv, NotCrossed
<1>10. OutInv'
  <2>1. taker.id \in Ids /\ m.id \in Ids
    BY <1>1, <1>3, TakerFields DEF Orders
  <2>2. Trade(m.id, taker.id, bp, taker.qty) \in Events
    BY <1>3, <1>4, <2>1 DEF Trade, Events, Prices
  <2> QED  BY <2>2, EmitOne DEF FillTaker, BookInv
<1> QED  BY <1>6, <1>8, <1>9, <1>10 DEF BookInv

----------------------------------------------------------------------------
(* What becomes of the remainder.                                          *)

\* A new order that does not rest was never in the map: the book is as it was.
LEMMA NewEnds ==
    ASSUME BookInv, taker # NIL, UNCHANGED book, taker' = NIL,
           taker.cmd = "new", OutInv'
    PROVE  BookInv'
<1>1. taker.id \in Ids /\ map[taker.id] = NIL
  BY TakerFields DEF BookInv, MapInv, MapType, TakerIsReserved
<1>2. MapInv'
  <2>1. UNCHANGED <<map, slot, live>>
    BY DEF book
  <2>2. MappedAreLive'
    BY <1>1, <2>1 DEF BookInv, MapInv, MappedAreLive, Replacing
  <2> QED  BY <2>1, <2>2 DEF BookInv, MapInv, MapType, LiveAreMapped,
                             TakerIsReserved, RoomLeft
<1>3. StoreInv' /\ NotCrossed'
  BY StoreUnchanged
<1> QED  BY <1>2, <1>3 DEF BookInv

LEMMA FinishNewFilledKeeps ==
    ASSUME BookInv, FinishNewFilled
    PROVE  BookInv'
<1>1. taker \in Takers /\ taker # NIL
  BY DEF FinishNewFilled, Crossed, BookInv, MapInv, MapType
<1>2. Closed(taker.id, "Filled") \in Events
  BY <1>1, TakerFields DEF Closed, Events, CloseReasons
<1>3. OutInv'
  BY <1>2, EmitOne DEF FinishNewFilled, BookInv
<1> QED  BY <1>1, <1>3, NewEnds DEF FinishNewFilled

LEMMA FinishNewExpiresKeeps ==
    ASSUME BookInv, FinishNewExpires
    PROVE  BookInv'
<1>1. taker \in Takers /\ taker # NIL
  BY DEF FinishNewExpires, Crossed, BookInv, MapInv, MapType
<1>2. Closed(taker.id, "Expired") \in Events
  BY <1>1, TakerFields DEF Closed, Events, CloseReasons
<1>3. OutInv'
  BY <1>2, EmitOne DEF FinishNewExpires, BookInv
<1> QED  BY <1>1, <1>3, NewEnds DEF FinishNewExpires

\* An order comes to rest: its id, free or reserved, names the place, no live
\* order has that id, and what it could have traded with is out of reach.
LEMMA JoinKeeps ==
    ASSUME BookInv, NEW o \in Orders, NEW l \in Locs, Rest(l, o),
           live < MaxOrders,
           \A k \in Locs : slot[k] # NIL => slot[k].id # o.id,
           \A x \in Ids : map[x] # NIL /\ x # o.id
              => slot[map[x]] # NIL /\ slot[map[x]].id = x,
           \A bp \in index[Opposite(o.side)] : ~Within(o.side, o.price, bp),
           taker' = NIL, OutInv'
    PROVE  BookInv'
<1>1. /\ o.id \in Ids /\ o.side \in Sides /\ o.price \in Prices
      /\ o # NIL
  BY NilIsNoRecord DEF Orders
<1>2. slot[l] = NIL /\ l # NIL
  BY StoreIsBigEnough DEF Rest
<1>3. /\ StoreInv'
      /\ live \in Nat /\ live' = live + 1
      /\ \A k \in Locs : slot'[k] = IF k = l THEN o ELSE slot[k]
      /\ \A s \in Sides : index'[s] = IF s = o.side
                                      THEN index[s] \cup {o.price}
                                      ELSE index[s]
  BY RestStore DEF BookInv
<1>4. \A x \in Ids : map'[x] = IF x = o.id THEN l ELSE map[x]
  BY <1>1 DEF Rest, BookInv, MapInv, MapType
<1>5. MapInv'
  <2>1. MapType'
    BY <1>1 DEF Rest, BookInv, MapInv, MapType
  <2>2. LiveAreMapped'
    <3> SUFFICES ASSUME NEW k \in Locs, slot'[k] # NIL
                 PROVE  map'[slot'[k].id] = k
      BY DEF LiveAreMapped
    <3>1. CASE k = l
      <4>1. slot'[k] = o
        BY <3>1, <1>3
      <4>2. map'[o.id] = l
        BY <1>1, <1>4
      <4> QED  BY <3>1, <4>1, <4>2, Zenon
    <3>2. CASE k # l
      <4>1. slot'[k] = slot[k]
        BY <3>2, <1>3
      <4>2. slot[k].id \in Ids /\ slot[k].id # o.id
              /\ map[slot[k].id] = k
        BY <4>1 DEF BookInv, StoreInv, StoreType, Orders, MapInv, LiveAreMapped
      <4> QED  BY <4>1, <4>2, <1>4
    <3> QED  BY <3>1, <3>2
  <2>3. MappedAreLive'
    <3> SUFFICES ASSUME NEW x \in Ids, map'[x] # NIL
                 PROVE  slot'[map'[x]] # NIL /\ slot'[map'[x]].id = x
      BY DEF MappedAreLive, Replacing
    <3>1. CASE x = o.id
      <4>1. map'[x] = l /\ slot'[l] = o
        BY <3>1, <1>3, <1>4
      <4> QED  BY <3>1, <4>1, <1>1, Zenon
    <3>2. CASE x # o.id
      <4>1. map'[x] = map[x] /\ map[x] \in Locs
        BY <3>2, <1>4 DEF BookInv, MapInv, MapType
      <4>2. slot[map[x]] # NIL /\ slot[map[x]].id = x
        BY <3>2, <4>1
      <4>3. slot'[map[x]] = slot[map[x]]
        BY <4>1, <4>2, <1>2, <1>3
      <4> QED  BY <4>1, <4>2, <4>3, Zenon
    <3> QED  BY <3>1, <3>2
  <2>4. TakerIsReserved'
    BY DEF TakerIsReserved
  <2>5. RoomLeft'
    BY <1>3, StoreIsBigEnough DEF RoomLeft
  <2> QED  BY <2>1, <2>2, <2>3, <2>4, <2>5 DEF MapInv
<1>6. NotCrossed'
  <2>1. \A s \in Sides : \A p \in index[s] : p \in Int
    BY PricesAreTicks DEF BookInv, StoreInv, StoreType, Prices
  <2>2. o.price \in Int
    BY <1>1, PricesAreTicks DEF Prices
  <2>3. "Bid" \in Sides /\ "Ask" \in Sides
    BY DEF Sides
  <2>4. CASE o.side = "Bid"
    <3>1. index'["Bid"] = index["Bid"] \cup {o.price}
            /\ index'["Ask"] = index["Ask"]
      BY <2>3, <2>4, <1>3
    <3>2. \A bp \in index["Ask"] : o.price < bp
      BY <2>1, <2>2, <2>3, <2>4 DEF Within, Opposite
    <3> QED  BY <3>1, <3>2 DEF NotCrossed, BookInv
  <2>5. CASE o.side = "Ask"
    <3>1. index'["Ask"] = index["Ask"] \cup {o.price}
            /\ index'["Bid"] = index["Bid"]
      BY <2>3, <2>5, <1>3
    <3>2. \A bp \in index["Bid"] : bp < o.price
      BY <2>1, <2>2, <2>3, <2>5 DEF Within, Opposite
    <3> QED  BY <3>1, <3>2 DEF NotCrossed, BookInv
  <2> QED  BY <2>4, <2>5, <1>1 DEF Sides
<1> QED  BY <1>3, <1>5, <1>6 DEF BookInv

\* So does the remainder of either command: nothing is in its reach any more.
LEMMA RestKeeps ==
    ASSUME BookInv, taker # NIL, Crossed, taker.qty > 0, taker.limit # NIL,
           NEW l \in FreeLocs, Rest(l, Remainder(taker.limit)),
           taker' = NIL, OutInv'
    PROVE  BookInv'
<1>1. taker \in Takers /\ taker.id \in Ids /\ taker.side \in Sides
        /\ taker.limit \in Prices /\ taker.qty \in LiveQtys
  BY TakerFields, QtyWidth DEF BookInv, MapInv, MapType, LiveQtys
<1>2. PICK o : o = Remainder(taker.limit)
  OBVIOUS
<1>3. /\ o \in Orders /\ o.id = taker.id
      /\ o.side = taker.side /\ o.price = taker.limit
  BY <1>1, <1>2, TakerFields DEF Remainder, Orders
<1>4. l \in Locs /\ live < MaxOrders
  BY DEF FreeLocs, BookInv, MapInv, RoomLeft
<1>5. \A k \in Locs : slot[k] # NIL => slot[k].id # o.id
  BY <1>3, TakerIsNotLive DEF BookInv
<1>6. \A x \in Ids : map[x] # NIL /\ x # o.id
         => slot[map[x]] # NIL /\ slot[map[x]].id = x
  BY <1>3 DEF BookInv, MapInv, MappedAreLive, Replacing
<1>7. \A bp \in index[Opposite(o.side)] : ~Within(o.side, o.price, bp)
  BY <1>1, <1>3, NothingInReach DEF BookInv, LiveQtys
<1> QED  BY <1>2, <1>3, <1>4, <1>5, <1>6, <1>7, JoinKeeps

LEMMA FinishNewRestsKeeps ==
    ASSUME BookInv, FinishNewRests
    PROVE  BookInv'
<1>1. taker \in Takers /\ taker # NIL /\ taker.limit # NIL /\ taker.qty > 0
  BY DEF FinishNewRests, MayRest, Crossed, BookInv, MapInv, MapType
<1>2. Accepted(taker.id, taker.qty) \in Events
  BY <1>1, TakerFields, QtyWidth DEF Accepted, Events, LiveQtys
<1>3. OutInv'
  BY <1>2, EmitOne DEF FinishNewRests, BookInv
<1> QED  BY <1>1, <1>3, RestKeeps DEF FinishNewRests

LEMMA FinishReplaceRestsKeeps ==
    ASSUME BookInv, FinishReplaceRests
    PROVE  BookInv'
<1>1. taker \in Takers /\ taker # NIL /\ taker.qty > 0
        /\ taker.cmd = "replace"
  BY DEF FinishReplaceRests, Crossed, BookInv, MapInv, MapType
<1>2. taker.limit \in Prices /\ taker.limit # NIL
  BY <1>1, TakerFields, PricesAreTicks, NilIsNoValue DEF Prices
<1>3. Replaced(taker.id, taker.limit, taker.qty) \in Events
  BY <1>1, <1>2, TakerFields, QtyWidth DEF Replaced, Events, LiveQtys, Prices
<1>4. OutInv'
  BY <1>3, EmitOne DEF FinishReplaceRests, BookInv
<1> QED  BY <1>1, <1>2, <1>4, RestKeeps DEF FinishReplaceRests

LEMMA FinishReplaceFilledKeeps ==
    ASSUME BookInv, FinishReplaceFilled
    PROVE  BookInv'
<1>1. taker \in Takers /\ taker # NIL /\ taker.id \in Ids
  BY TakerFields
     DEF FinishReplaceFilled, Crossed, BookInv, MapInv, MapType
<1>2. UNCHANGED <<queue, index, total, slot, live>> /\ taker' = NIL
  BY DEF FinishReplaceFilled
<1>3. \A x \in Ids : map'[x] = IF x = taker.id THEN NIL ELSE map[x]
  BY DEF FinishReplaceFilled, BookInv, MapInv, MapType
<1>4. \A k \in Locs : slot[k] # NIL => slot[k].id # taker.id
  BY <1>1, TakerIsNotLive DEF BookInv
<1>5. StoreInv' /\ NotCrossed'
  BY <1>2 DEF BookInv, StoreInv, StoreType, QueuedAreLive, LiveAreQueued,
              IndexExact, LiveCounted, LiveLocs, NotCrossed
<1>6. MapInv'
  <2>1. MapType'
    BY <1>2 DEF FinishReplaceFilled, BookInv, MapInv, MapType
  <2>2. LiveAreMapped'
    <3> SUFFICES ASSUME NEW k \in Locs, slot[k] # NIL
                 PROVE  map'[slot[k].id] = k
      BY <1>2 DEF LiveAreMapped
    <3>1. slot[k].id \in Ids /\ map[slot[k].id] = k
      BY DEF BookInv, StoreInv, StoreType, Orders, MapInv, LiveAreMapped
    <3> QED  BY <3>1, <1>3, <1>4
  <2>3. MappedAreLive'
    <3> SUFFICES ASSUME NEW x \in Ids, map'[x] # NIL
                 PROVE  slot[map'[x]] # NIL /\ slot[map'[x]].id = x
      BY <1>2 DEF MappedAreLive, Replacing
    <3>1. x # taker.id /\ map'[x] = map[x]
      BY <1>3
    <3> QED  BY <3>1 DEF BookInv, MapInv, MappedAreLive, Replacing
  <2>4. TakerIsReserved' /\ RoomLeft'
    BY <1>2 DEF TakerIsReserved, BookInv, MapInv, RoomLeft
  <2> QED  BY <2>1, <2>2, <2>3, <2>4 DEF MapInv
<1>7. OutInv'
  <2>1. Closed(taker.id, "Filled") \in Events
    BY <1>1 DEF Closed, Events, CloseReasons
  <2> QED  BY <2>1, EmitOne DEF FinishReplaceFilled, BookInv
<1> QED  BY <1>5, <1>6, <1>7 DEF BookInv

----------------------------------------------------------------------------
(* The theorems.                                                           *)

LEMMA NextKeeps ==
    ASSUME BookInv, [Next]_vars
    PROVE  BookInv'
<1>1. CASE NewCommand
  BY <1>1, RejectNewKeeps, StartNewKeeps DEF NewCommand
<1>2. CASE CancelCommand
  BY <1>2, RejectCancelKeeps, CancelKeeps DEF CancelCommand
<1>3. CASE ReplaceCommand
  BY <1>3, RejectReplaceKeeps, ReplaceInPlaceKeeps, StartReplaceKeeps
     DEF ReplaceCommand
<1>4. CASE Fill
  BY <1>4, FillMakerKeeps, FillTakerKeeps DEF Fill
<1>5. CASE Finish
  BY <1>5, FinishNewFilledKeeps, FinishNewRestsKeeps, FinishNewExpiresKeeps,
     FinishReplaceFilledKeeps, FinishReplaceRestsKeeps DEF Finish
<1>6. CASE UNCHANGED vars
  BY <1>6, BookUnchanged DEF vars, book, BookInv, OutInv
<1> QED  BY <1>1, <1>2, <1>3, <1>4, <1>5, <1>6 DEF Next, Command

\* Every reachable state of the book satisfies the invariant.
THEOREM Invariance == Spec => []BookInv
<1>1. Init => BookInv
  BY InitHolds
<1>2. BookInv /\ [Next]_vars => BookInv'
  BY NextKeeps
<1> QED  BY <1>1, <1>2, PTL DEF Spec

\* Type correctness: the store never runs over max_orders, every quantity is
\* a Qty, and every event handed to the sink is a well-formed one.
THEOREM TypeCorrectness == Spec => []TypeOK
<1>1. BookInv => TypeOK
  <2> SUFFICES ASSUME BookInv
               PROVE  TypeOK
    OBVIOUS
  <2>1. live \in Nat
    BY StoreIsBigEnough, FS_CardinalityType, FS_Subset
       DEF BookInv, StoreInv, LiveCounted, LiveLocs
  <2>2. live \in 0 .. MaxOrders
    BY <2>1, StoreIsBigEnough DEF BookInv, MapInv, RoomLeft
  <2> QED  BY <2>2 DEF TypeOK, BookInv, StoreInv, StoreType, MapInv, MapType,
                       OutInv
<1> QED  BY <1>1, Invariance, PTL

\* The book is never crossed, inside a command or between commands.
THEOREM NeverCrossed == Spec => []NotCrossed
<1>1. BookInv => NotCrossed
  BY DEF BookInv
<1> QED  BY <1>1, Invariance, PTL

\* The order map, the slots and the levels describe the same orders.
THEOREM LocationsAgree == Spec => []LocsAgree
<1>1. BookInv => LocsAgree
  BY DEF BookInv, StoreInv, MapInv, LocsAgree
<1> QED  BY <1>1, Invariance, PTL

\* An index names a price exactly when its level holds an order.
THEOREM IndexIsExact == Spec => []IndexExact
<1>1. BookInv => IndexExact
  BY DEF BookInv, StoreInv
<1> QED  BY <1>1, Invariance, PTL

\* The count of live orders is exact, stays within max_orders, and leaves a
\* running command the room to rest its remainder: Store::push, which never
\* fails (internals.hpp:66), finds a place.
THEOREM RoomToRest ==
    Spec => [](LiveExact /\ (taker # NIL => FreeLocs # {}))
<1>1. BookInv => LiveExact
  BY DEF BookInv, StoreInv, MapInv, RoomLeft, LiveCounted, LiveLocs, LiveExact
<1>2. BookInv => (taker # NIL => FreeLocs # {})
  <2> SUFFICES ASSUME BookInv, taker # NIL, FreeLocs = {}
               PROVE  FALSE
    OBVIOUS
  <2>1. LiveLocs = Locs
    BY DEF FreeLocs, LiveLocs
  <2>2. live = Cardinality(Locs) /\ live < MaxOrders
    BY <2>1 DEF BookInv, StoreInv, LiveCounted, MapInv, RoomLeft
  <2>3. Cardinality(Locs) \in Nat
    BY StoreIsBigEnough, FS_CardinalityType
  <2> QED  BY <2>2, <2>3, StoreIsBigEnough
<1> QED  BY <1>1, <1>2, Invariance, PTL

----------------------------------------------------------------------------
(* The loop of cross() and the orders it meets.                            *)

\* An event that is no trade, after the trades of before or after nothing.
LEMMA NoTradeAdded ==
    ASSUME NEW before \in Seq(Events), NEW e, e.ev # "trade",
           evs' = before \o <<e>>
    PROVE  \A i \in Trades' : i \in DOMAIN before /\ evs'[i] = before[i]
<1>1. /\ Len(before) \in Nat /\ DOMAIN before = 1 .. Len(before)
      /\ DOMAIN evs' = 1 .. (Len(before) + 1)
      /\ \A i \in 1 .. Len(before) : evs'[i] = before[i]
      /\ evs'[Len(before) + 1] = e
  OBVIOUS
<1> QED  BY <1>1 DEF Trades

LEMMA NothingTraded ==
    ASSUME Trades' = {}
    PROVE  MakersMetOnce'
BY DEF MakersMetOnce

LEMMA AloneIsNoTrade ==
    ASSUME NEW e, e.ev # "trade", Emit(<<>>, <<e>>)
    PROVE  MakersMetOnce'
<1>1. <<>> \in Seq(Events) /\ evs' = <<>> \o <<e>>
  BY DEF Emit
<1>2. \A i \in Trades' : i \in DOMAIN <<>>
  BY <1>1, NoTradeAdded
<1>3. Trades' = {}
  BY <1>2
<1> QED  BY <1>3, NothingTraded

LEMMA SilenceIsNoTrade ==
    ASSUME Emit(<<>>, <<>>)
    PROVE  MakersMetOnce'
<1>1. evs' = <<>>
  BY DEF Emit
<1>2. Trades' = {}
  BY <1>1 DEF Trades
<1> QED  BY <1>2, NothingTraded

\* The last event of a command.
LEMMA EndIsNoTrade ==
    ASSUME OutInv, MakersMetOnce, NEW e, e.ev # "trade", Emit(evs, <<e>>),
           taker' = NIL
    PROVE  MakersMetOnce'
<1>1. evs \in Seq(Events) /\ evs' = evs \o <<e>>
  BY DEF Emit, OutInv
<1>2. \A i \in Trades' : i \in DOMAIN evs /\ evs'[i] = evs[i]
  BY <1>1, NoTradeAdded
<1>3. \A i \in Trades' : i \in Trades /\ evs'[i] = evs[i]
  BY <1>2 DEF Trades
<1> QED  BY <1>3 DEF MakersMetOnce

\* A turn of the loop trades with an order that is still mapped, so with one
\* that no earlier turn has traded with.
LEMMA TradedOnce ==
    ASSUME OutInv, MakersMetOnce, taker # NIL, taker.qty > 0,
           NEW t, t.ev = "trade", map[t.maker] # NIL,
           NEW c, c.ev # "trade",
           evs' = evs \o <<t>> \/ evs' = evs \o <<t, c>>
    PROVE  /\ \A i, j \in Trades' : evs'[i].maker = evs'[j].maker => i = j
           /\ \A i \in Trades' : \/ evs'[i].maker = t.maker
                                 \/ map[evs'[i].maker] = NIL
<1> DEFINE n == Len(evs)
<1>1. n \in Nat /\ DOMAIN evs = 1 .. n
  BY DEF OutInv
<1>2. /\ \A i \in DOMAIN evs' : i \in 1 .. n \/ i = n + 1
                                  \/ (i = n + 2 /\ evs'[i] = c)
      /\ \A i \in 1 .. n : evs'[i] = evs[i]
      /\ evs'[n + 1] = t
  BY DEF OutInv
<1>3. \A i \in Trades' : (i \in Trades /\ evs'[i] = evs[i] /\ i # n + 1)
                           \/ (i = n + 1 /\ evs'[i] = t)
  BY <1>1, <1>2 DEF Trades
<1>4. \A i \in Trades : map[evs[i].maker] = NIL
  BY DEF MakersMetOnce
<1>5. \A i, j \in Trades : evs[i].maker = evs[j].maker => i = j
  BY DEF MakersMetOnce
<1> HIDE DEF n
<1> QED  BY <1>3, <1>4, <1>5

LEMMA FillMeetsOnce ==
    ASSUME BookInv, MakersMetOnce, Fill
    PROVE  MakersMetOnce'
<1>1. PICK bp \in index[Opposite(taker.side)] : FillMaker(bp) \/ FillTaker(bp)
  BY DEF Fill
<1>2. Opposite(taker.side) \in Sides
  BY DEF Opposite, Sides
<1>3. PICK l \in Locs : l = Head(queue[Opposite(taker.side)][bp])
  BY <1>1, <1>2, HeadIsLive DEF BookInv
<1>4. slot[l] \in Orders /\ slot[l] # NIL
  BY <1>1, <1>2, <1>3, HeadIsLive, NilIsNoRecord DEF BookInv
<1>5. PICK m : m = slot[l].id
  OBVIOUS
<1>6. m \in Ids /\ map[m] = l /\ l # NIL
  BY <1>4, <1>5, StoreIsBigEnough DEF Orders, BookInv, MapInv, LiveAreMapped
<1>7. OutInv /\ taker # NIL /\ taker.qty > 0 /\ taker \in Takers
        /\ map \in [Ids -> Locs \cup {NIL}]
  BY DEF BookInv, Fill, MapInv, MapType
<1>8. PICK c : c = Closed(m, "Filled")
  OBVIOUS
<1>9. c.ev # "trade"
  BY <1>8 DEF Closed
<1>10. CASE FillMaker(bp)
  <2>1. PICK t : t = Trade(m, taker.id, bp, slot[l].qty)
    OBVIOUS
  <2>2. t.ev = "trade" /\ t.maker = m
    BY <2>1 DEF Trade
  <2>3. evs' = evs \o <<t, c>> /\ map' = [map EXCEPT ![m] = NIL]
    BY <1>3, <1>5, <1>8, <1>10, <2>1 DEF FillMaker, Emit
  <2>4. /\ \A i, j \in Trades' : evs'[i].maker = evs'[j].maker => i = j
        /\ \A i \in Trades' : \/ evs'[i].maker = m
                              \/ map[evs'[i].maker] = NIL
    BY <1>6, <1>7, <1>9, <2>2, <2>3, TradedOnce
  <2>5. OutInv'
    BY NextKeeps DEF Next, BookInv
  <2>6. \A i \in Trades' : evs'[i].maker \in Ids
    <3> SUFFICES ASSUME NEW i \in Trades'
                 PROVE  evs'[i].maker \in Ids
      OBVIOUS
    <3>1. evs'[i] \in Events /\ evs'[i].ev = "trade"
      BY <2>5 DEF OutInv, Trades
    <3> QED  BY <3>1 DEF Events
  <2>7. \A i \in Trades' : map'[evs'[i].maker] = NIL
    BY <1>7, <2>3, <2>4, <2>6
  <2> QED  BY <2>4, <2>7 DEF MakersMetOnce
<1>11. CASE FillTaker(bp)
  <2>1. PICK t : t = Trade(m, taker.id, bp, taker.qty)
    OBVIOUS
  <2>2. t.ev = "trade" /\ t.maker = m
    BY <2>1 DEF Trade
  <2>3. evs' = evs \o <<t>>
    BY <1>3, <1>5, <1>11, <2>1 DEF FillTaker, Emit
  <2>4. \A i, j \in Trades' : evs'[i].maker = evs'[j].maker => i = j
    BY <1>6, <1>7, <1>9, <2>2, <2>3, TradedOnce
  <2>5. taker'.qty = 0
    BY <1>7, <1>11 DEF FillTaker, Takers
  <2> QED  BY <2>4, <2>5 DEF MakersMetOnce
<1> QED  BY <1>1, <1>10, <1>11

LEMMA NextMeetsOnce ==
    ASSUME BookInv, MakersMetOnce, [Next]_vars
    PROVE  MakersMetOnce'
<1>0. OutInv
  BY DEF BookInv
<1>1. CASE NewCommand
  <2> PICK id \in Ids, side \in Sides, limit \in CmdPrices \cup {NIL},
           qty \in CmdQtys, tif \in Tifs :
              \/ RejectNew(id, side, limit, qty, tif)
              \/ StartNew(id, side, limit, qty, tif)
    BY <1>1 DEF NewCommand
  <2>1. CASE RejectNew(id, side, limit, qty, tif)
    <3>1. PICK e : /\ e = Rejected(id, NewFault(id, side, limit, qty, tif))
                   /\ Emit(<<>>, <<e>>)
      BY <2>1 DEF RejectNew
    <3>2. e.ev # "trade"
      BY <3>1 DEF Rejected
    <3> QED  BY <3>1, <3>2, AloneIsNoTrade
  <2>2. CASE StartNew(id, side, limit, qty, tif)
    BY <2>2, SilenceIsNoTrade DEF StartNew
  <2> QED  BY <2>1, <2>2
<1>2. CASE CancelCommand
  <2> PICK id \in Ids : RejectCancel(id) \/ Cancel(id)
    BY <1>2 DEF CancelCommand
  <2>1. PICK e : e.ev # "trade" /\ Emit(<<>>, <<e>>)
    BY DEF RejectCancel, Cancel, Rejected, Closed
  <2> QED  BY <2>1, AloneIsNoTrade
<1>3. CASE ReplaceCommand
  <2> PICK id \in Ids, price \in CmdPrices, qty \in CmdQtys :
              \/ RejectReplace(id, price, qty)
              \/ ReplaceInPlace(id, price, qty)
              \/ StartReplace(id, price, qty)
    BY <1>3 DEF ReplaceCommand
  <2>1. CASE RejectReplace(id, price, qty)
    <3>1. PICK e : /\ e = Rejected(id, ReplaceFault(id, price, qty))
                   /\ Emit(<<>>, <<e>>)
      BY <2>1 DEF RejectReplace
    <3>2. e.ev # "trade"
      BY <3>1 DEF Rejected
    <3> QED  BY <3>1, <3>2, AloneIsNoTrade
  <2>2. CASE ReplaceInPlace(id, price, qty)
    <3>1. PICK e : e = Replaced(id, price, qty) /\ Emit(<<>>, <<e>>)
      BY <2>2 DEF ReplaceInPlace
    <3>2. e.ev # "trade"
      BY <3>1 DEF Replaced
    <3> QED  BY <3>1, <3>2, AloneIsNoTrade
  <2>3. CASE StartReplace(id, price, qty)
    BY <2>3, SilenceIsNoTrade DEF StartReplace
  <2> QED  BY <2>1, <2>2, <2>3
<1>4. CASE Fill
  BY <1>4, FillMeetsOnce
<1>5. CASE Finish
  <2>1. taker' = NIL
    BY <1>5 DEF Finish, FinishNewFilled, FinishNewRests, FinishNewExpires,
               FinishReplaceFilled, FinishReplaceRests
  <2>2. \E e : e.ev # "trade" /\ Emit(evs, <<e>>)
    BY <1>5 DEF Finish, FinishNewFilled, FinishNewRests, FinishNewExpires,
               FinishReplaceFilled, FinishReplaceRests, Closed, Accepted, Replaced
  <2> QED  BY <1>0, <2>1, <2>2, EndIsNoTrade
<1>6. CASE UNCHANGED vars
  BY <1>6 DEF vars, MakersMetOnce, Trades
<1> QED  BY <1>1, <1>2, <1>3, <1>4, <1>5, <1>6 DEF Next, Command

\* No turn of cross() meets an order that an earlier turn of the same command
\* has traded with, however many orders and levels it sweeps: the loop turns
\* at most once for each order opposite.
THEOREM MeetsMakersOnce == Spec => []MakersMetOnce
<1>1. Init => MakersMetOnce
  BY DEF Init, MakersMetOnce, Trades
<1>2. BookInv /\ MakersMetOnce /\ [Next]_vars => MakersMetOnce'
  BY NextMeetsOnce
<1> QED  BY <1>1, <1>2, Invariance, PTL DEF Spec

----------------------------------------------------------------------------
(* Time priority.                                                          *)

\* What a step may do to a level: nothing, take one order out, or add a free
\* location at the tail.
LevelStep(s, p) ==
    \/ queue'[s][p] = queue[s][p]
    \/ \E i \in DOMAIN queue[s][p] :
          /\ queue'[s][p] \in Seq(Locs)
          /\ Drops(queue[s][p], queue'[s][p], i)
    \/ \E l \in FreeLocs : queue'[s][p] = Append(queue[s][p], l)

LEMMA LeavesIsLevelStep ==
    ASSUME StoreInv, NEW l \in Locs, slot[l] # NIL, NEW i, NEW q2,
           Leaves(l, i, q2)
    PROVE  \A s \in Sides, p \in Prices : LevelStep(s, p)
<1> SUFFICES ASSUME NEW s \in Sides, NEW p \in Prices
             PROVE  LevelStep(s, p)
  OBVIOUS
<1> DEFINE s0 == slot[l].side
           p0 == slot[l].price
<1>1. s0 \in Sides /\ p0 \in Prices
  BY DEF StoreInv, StoreType, Orders
<1>2. queue'[s][p] = IF s = s0 /\ p = p0 THEN q2 ELSE queue[s][p]
  BY <1>1 DEF Leaves, LeavesLevel, StoreInv, StoreType
<1>3. /\ i \in DOMAIN queue[s0][p0]
      /\ q2 \in Seq(Locs) /\ Drops(queue[s0][p0], q2, i)
  BY Zenon DEF Leaves, LeavesLevel
<1>4. CASE s = s0 /\ p = p0
  <2> HIDE DEF s0, p0
  <2> QED  BY <1>2, <1>3, <1>4 DEF LevelStep
<1>5. CASE ~(s = s0 /\ p = p0)
  BY <1>2, <1>5 DEF LevelStep
<1> QED  BY <1>4, <1>5

LEMMA RestIsLevelStep ==
    ASSUME StoreInv, NEW o, o.side \in Sides, o.price \in Prices,
           NEW l \in FreeLocs, Rest(l, o)
    PROVE  \A s \in Sides, p \in Prices : LevelStep(s, p)
<1> SUFFICES ASSUME NEW s \in Sides, NEW p \in Prices
             PROVE  LevelStep(s, p)
  OBVIOUS
<1>1. queue'[s][p] = IF s = o.side /\ p = o.price THEN Append(queue[s][p], l)
                     ELSE queue[s][p]
  BY DEF Rest, Joined, StoreInv, StoreType
<1> QED  BY <1>1 DEF LevelStep

LEMMA NextIsLevelStep ==
    ASSUME BookInv, [Next]_vars
    PROVE  \A s \in Sides, p \in Prices : LevelStep(s, p)
<1>1. CASE UNCHANGED queue
  BY <1>1 DEF LevelStep
<1>2. ASSUME NEW id \in Ids, taker = NIL, map[id] # NIL, Unlink(map[id])
      PROVE  \A s \in Sides, p \in Prices : LevelStep(s, p)
  <2>1. map[id] \in Locs /\ slot[map[id]] # NIL
    BY <1>2, EntryIsLive DEF BookInv
  <2>2. PICK i, q2 : Leaves(map[id], i, q2)
    BY <1>2, <2>1, UnlinkLeaves DEF BookInv
  <2> QED  BY <2>1, <2>2, LeavesIsLevelStep DEF BookInv
<1>3. ASSUME NEW bp \in index[Opposite(taker.side)], FillMaker(bp)
      PROVE  \A s \in Sides, p \in Prices : LevelStep(s, p)
  <2> DEFINE q == queue[Opposite(taker.side)][bp]
  <2>1. Head(q) \in Locs /\ slot[Head(q)] # NIL
    BY HeadIsLive, NilIsNoRecord DEF BookInv, Opposite, Sides
  <2>2. Leaves(Head(q), 1, Tail(q))
    BY <1>3, FillMakerLeaves DEF BookInv
  <2> HIDE DEF q
  <2> QED  BY <2>1, <2>2, LeavesIsLevelStep DEF BookInv
<1>4. ASSUME NEW l \in FreeLocs, taker # NIL,
             taker.limit # NIL, Rest(l, Remainder(taker.limit))
      PROVE  \A s \in Sides, p \in Prices : LevelStep(s, p)
  <2>1. /\ Remainder(taker.limit).side \in Sides
        /\ Remainder(taker.limit).price \in Prices
    BY <1>4, TakerFields DEF BookInv, MapInv, MapType, Remainder
  <2> QED  BY <1>4, <2>1, RestIsLevelStep DEF BookInv
<1>5. CASE NewCommand
  BY <1>1, <1>5 DEF NewCommand, RejectNew, StartNew, book
<1>6. CASE CancelCommand
  BY <1>1, <1>2, <1>6 DEF CancelCommand, RejectCancel, Cancel, book
<1>7. CASE ReplaceCommand
  <2> PICK id \in Ids, price \in CmdPrices, qty \in CmdQtys :
              \/ RejectReplace(id, price, qty)
              \/ ReplaceInPlace(id, price, qty)
              \/ StartReplace(id, price, qty)
    BY <1>7 DEF ReplaceCommand
  <2>1. CASE RejectReplace(id, price, qty)
    BY <1>1, <2>1 DEF RejectReplace, book
  <2>2. CASE ReplaceInPlace(id, price, qty)
    BY <1>1, <2>2 DEF ReplaceInPlace
  <2>3. CASE StartReplace(id, price, qty)
    BY <1>2, <2>3, ReplacePasses DEF StartReplace
  <2> QED  BY <2>1, <2>2, <2>3
<1>8. CASE Fill
  <2> PICK bp \in index[Opposite(taker.side)] : FillMaker(bp) \/ FillTaker(bp)
    BY <1>8 DEF Fill
  <2>1. CASE FillMaker(bp)
    BY <1>3, <2>1
  <2>2. CASE FillTaker(bp)
    BY <1>1, <2>2 DEF FillTaker
  <2> QED  BY <2>1, <2>2
<1>9. CASE Finish
  <2>1. CASE FinishNewFilled \/ FinishNewExpires \/ FinishReplaceFilled
    BY <1>1, <2>1
       DEF FinishNewFilled, FinishNewExpires, FinishReplaceFilled, book
  <2>2. CASE FinishNewRests
    BY <1>4, <2>2 DEF FinishNewRests, MayRest, Crossed
  <2>3. CASE FinishReplaceRests
    <3>1. taker # NIL /\ taker.limit # NIL
      BY <2>3, TakerFields, PricesAreTicks, NilIsNoValue
         DEF FinishReplaceRests, Crossed, BookInv, MapInv, MapType, Prices
    <3> QED  BY <1>4, <2>3, <3>1 DEF FinishReplaceRests
  <2> QED  BY <1>9, <2>1, <2>2, <2>3 DEF Finish
<1>10. CASE UNCHANGED vars
  BY <1>1, <1>10 DEF vars
<1> QED  BY <1>5, <1>6, <1>7, <1>8, <1>9, <1>10 DEF Next, Command

\* An element of a sequence without duplicates is at the position it is at.
LEMMA PositionOf ==
    ASSUME NEW q, \A a, b \in DOMAIN q : q[a] = q[b] => a = b,
           NEW a \in DOMAIN q
    PROVE  Position(q, q[a]) = a
BY DEF Position

\* A step keeps the order of those that stay, and a newcomer joins behind.
LEMMA LevelStepKeepsFifo ==
    ASSUME StoreInv, NEW s \in Sides, NEW p \in Prices, LevelStep(s, p),
           NEW i \in DOMAIN queue'[s][p], NEW j \in DOMAIN queue'[s][p],
           i < j, queue'[s][p][j] \in ToSet(queue[s][p])
    PROVE  /\ queue'[s][p][i] \in ToSet(queue[s][p])
           /\ Position(queue[s][p], queue'[s][p][i])
                < Position(queue[s][p], queue'[s][p][j])
<1> DEFINE old == queue[s][p]
           new == queue'[s][p]
<1>1. old \in Seq(Locs) /\ Len(old) \in Nat /\ DOMAIN old = 1 .. Len(old)
  BY DEF StoreInv, StoreType
<1>2. \A a, b \in DOMAIN old : old[a] = old[b] => a = b
  BY DEF StoreInv, QueuedAreLive
<1>3. \A a \in DOMAIN old : Position(old, old[a]) = a
  <2> HIDE DEF old
  <2> QED  BY <1>2, PositionOf
\* It is enough to find where the two were.
<1>4. SUFFICES \E a, b \in DOMAIN old : a < b /\ new[i] = old[a]
                                             /\ new[j] = old[b]
  <2> PICK a \in DOMAIN old, b \in DOMAIN old :
              a < b /\ new[i] = old[a] /\ new[j] = old[b]
    BY <1>4
  <2>1. new[i] \in ToSet(old)
    BY DEF ToSet
  <2>2. Position(old, new[i]) = a /\ Position(old, new[j]) = b
    BY <1>3
  <2> QED  BY <2>1, <2>2
<1>5. CASE new = old
  BY <1>1, <1>5
<1>6. ASSUME NEW k \in DOMAIN old, new \in Seq(Locs), Drops(old, new, k)
      PROVE  \E a, b \in DOMAIN old : a < b /\ new[i] = old[a]
                                            /\ new[j] = old[b]
  <2>1. i \in 1 .. (Len(old) - 1) /\ j \in 1 .. (Len(old) - 1)
    <3>1. Len(new) = Len(old) - 1
      BY <1>6, Zenon DEF Drops
    <3>2. DOMAIN new = 1 .. Len(new)
      BY <1>6
    <3> QED  BY <3>1, <3>2
  <2>2. /\ new[i] = old[IF i < k THEN i ELSE i + 1]
        /\ new[j] = old[IF j < k THEN j ELSE j + 1]
    BY <1>6, <2>1 DEF Drops
  <2>3. /\ (IF i < k THEN i ELSE i + 1) \in 1 .. Len(old)
        /\ (IF j < k THEN j ELSE j + 1) \in 1 .. Len(old)
        /\ (IF i < k THEN i ELSE i + 1) < (IF j < k THEN j ELSE j + 1)
    BY <1>1, <2>1
  <2> HIDE DEF old, new
  <2> QED  BY <1>1, <2>2, <2>3
<1>7. ASSUME NEW l \in FreeLocs, new = Append(old, l)
      PROVE  \E a, b \in DOMAIN old : a < b /\ new[i] = old[a]
                                            /\ new[j] = old[b]
  <2>1. \A a \in DOMAIN old : old[a] # l
    BY <1>7 DEF StoreInv, QueuedAreLive, FreeLocs
  <2>2. /\ DOMAIN new = 1 .. (Len(old) + 1) /\ new[Len(old) + 1] = l
        /\ \A a \in 1 .. Len(old) : new[a] = old[a]
    BY <1>1, <1>7, AppendAdds DEF FreeLocs
  <2>3. new[j] # l
    BY <2>1 DEF ToSet
  <2>4. j \in 1 .. Len(old) /\ i \in 1 .. Len(old)
    BY <2>2, <2>3, <1>1, SMTT(30)
  <2> QED  BY <2>2, <2>4, <1>1
<1> QED  BY <1>5, <1>6, <1>7 DEF LevelStep

\* Time priority: no step, of any command, lets an order overtake another of
\* its level or join a level ahead of one that was there.
THEOREM TimePriority == Spec => FifoPreserved
<1>1. BookInv /\ [Next]_vars => FifoKept
  <2> SUFFICES ASSUME BookInv, [Next]_vars
               PROVE  FifoKept
    OBVIOUS
  <2>1. \A s \in Sides, p \in Prices : LevelStep(s, p)
    BY NextIsLevelStep
  <2> QED  BY <2>1, LevelStepKeepsFifo DEF FifoKept, BookInv
<1>2. BookInv /\ [Next]_vars => [FifoKept]_vars
  BY <1>1
<1> QED  BY <1>2, Invariance, PTL DEF Spec, FifoPreserved

----------------------------------------------------------------------------
(* Post-only.                                                              *)

\* A new post-only order has no level in reach.
PostOnlyInv ==
    taker # NIL /\ taker.cmd = "new" /\ taker.tif = "PostOnly"
        /\ taker.limit # NIL
      => \A bp \in index[Opposite(taker.side)] :
            ~Within(taker.side, taker.limit, bp)

\* The check against the best opposite price speaks for every level: none is
\* within the limit if the best is not.
LEMMA BestSpeaksForAll ==
    ASSUME StoreInv, NEW side \in Sides, NEW price \in Prices,
           ~WouldCross(side, price)
    PROVE  \A bp \in index[Opposite(side)] : ~Within(side, price, bp)
<1> DEFINE opp == Opposite(side)
<1> SUFFICES ASSUME NEW bp \in index[opp], Within(side, price, bp)
             PROVE  FALSE
  OBVIOUS
<1>1. opp \in Sides /\ (side = "Bid" <=> opp = "Ask")
  BY DEF Opposite, Sides
<1>2. PICK best \in index[opp] : IsBest(opp, best)
  BY <1>1, BestExists DEF StoreInv, StoreType
<1>3. bp \in Int /\ best \in Int /\ price \in Int
  BY <1>1, PricesAreTicks DEF StoreInv, StoreType, Prices
<1>4. IF side = "Bid" THEN best <= bp ELSE bp <= best
  BY <1>1, <1>2 DEF IsBest, Sides
<1>5. Within(side, price, best)
  BY <1>3, <1>4 DEF Within
<1> QED  BY <1>2, <1>5 DEF WouldCross

LEMMA StartNewPostsOnly ==
    ASSUME BookInv, NEW id \in Ids, NEW side \in Sides,
           NEW limit \in CmdPrices \cup {NIL}, NEW qty \in CmdQtys,
           NEW tif \in Tifs, StartNew(id, side, limit, qty, tif)
    PROVE  PostOnlyInv'
<1> SUFFICES ASSUME limit # NIL, tif = "PostOnly"
             PROVE  \A bp \in index'[Opposite(side)] : ~Within(side, limit, bp)
  BY DEF StartNew, PostOnlyInv
<1>1. NewFault(id, side, limit, qty, tif) = NIL /\ index' = index
  BY DEF StartNew, book
<1>2. limit \in Prices /\ ~WouldCross(side, limit)
  BY <1>1, NilIsNoValue DEF NewFault, RejectReasons, Prices
<1> QED  BY <1>1, <1>2, BestSpeaksForAll DEF BookInv

LEMMA NextPostsOnly ==
    ASSUME BookInv, PostOnlyInv, [Next]_vars
    PROVE  PostOnlyInv'
<1>1. CASE NewCommand
  <2>1. ASSUME NEW id, NEW side, NEW limit, NEW qty, NEW tif,
               RejectNew(id, side, limit, qty, tif)
        PROVE  PostOnlyInv'
    BY <2>1 DEF RejectNew, PostOnlyInv
  <2> QED  BY <1>1, <2>1, StartNewPostsOnly DEF NewCommand
<1>2. CASE CancelCommand
  BY <1>2 DEF CancelCommand, RejectCancel, Cancel, PostOnlyInv
<1>3. CASE ReplaceCommand
  BY <1>3 DEF ReplaceCommand, RejectReplace, ReplaceInPlace, StartReplace,
              PostOnlyInv
\* A fill is out of the question for the order, and anyone else's changes
\* nothing of this.
<1>4. CASE Fill
  <2>1. PICK bp \in index[Opposite(taker.side)] :
                Marketable(bp) /\ (FillMaker(bp) \/ FillTaker(bp))
    BY <1>4 DEF Fill
  <2>2. taker \in Takers /\ taker # NIL
    BY <1>4 DEF Fill, BookInv, MapInv, MapType
  <2>3. ~(taker.cmd = "new" /\ taker.tif = "PostOnly" /\ taker.limit # NIL)
    BY <2>1, <2>2 DEF PostOnlyInv, Marketable
  <2>4. PICK r : taker' = [taker EXCEPT !.qty = r]
    BY <2>1 DEF FillMaker, FillTaker
  <2>5. /\ taker'.cmd = taker.cmd /\ taker'.tif = taker.tif
        /\ taker'.limit = taker.limit
    BY <2>2, <2>4 DEF Takers
  <2> QED  BY <2>3, <2>5 DEF PostOnlyInv
<1>5. CASE Finish
  BY <1>5 DEF Finish, FinishNewFilled, FinishNewRests, FinishNewExpires,
              FinishReplaceFilled, FinishReplaceRests, PostOnlyInv
<1>6. CASE UNCHANGED vars
  BY <1>6 DEF vars, PostOnlyInv
<1> QED  BY <1>1, <1>2, <1>3, <1>4, <1>5, <1>6 DEF Next, Command

\* A new post-only order never takes: while it crosses, no live order on the
\* other side is within its limit.
THEOREM PostOnlyPosts == Spec => []PostOnlyNeverTakes
<1>1. Init => PostOnlyInv
  BY DEF Init, PostOnlyInv
<1>2. BookInv /\ PostOnlyInv /\ [Next]_vars => PostOnlyInv'
  BY NextPostsOnly
<1>3. BookInv /\ PostOnlyInv => PostOnlyNeverTakes
  <2> SUFFICES ASSUME BookInv, PostOnlyInv, taker # NIL, taker.cmd = "new",
                      taker.tif = "PostOnly", taker.limit # NIL
               PROVE  Offered(taker.side, taker.limit) = 0
    BY DEF PostOnlyNeverTakes
  <2>1. ASSUME NEW l \in Locs, slot[l] # NIL,
               slot[l].side = Opposite(taker.side)
        PROVE  ~Within(taker.side, taker.limit, slot[l].price)
    <3>1. slot[l].side \in Sides /\ slot[l].price \in Prices
      BY <2>1 DEF BookInv, StoreInv, StoreType, Orders
    <3>2. queue[slot[l].side][slot[l].price] # <<>>
      BY <2>1 DEF BookInv, StoreInv, LiveAreQueued
    <3>3. slot[l].price \in index[slot[l].side]
      BY <3>1, <3>2 DEF BookInv, StoreInv, IndexExact
    <3> QED  BY <2>1, <3>3 DEF PostOnlyInv
  <2>2. InReach(taker.side, taker.limit) = {}
    BY <2>1 DEF InReach
  <2> QED  BY <2>2, SumEmpty DEF Offered
<1> QED  BY <1>1, <1>2, <1>3, Invariance, PTL DEF Spec

----------------------------------------------------------------------------
(* Level totals.                                                           *)

\* Every step is one of four to a level: nothing, an order leaves, one comes
\* to rest, or one changes its quantity.
LEMMA NextTotals ==
    ASSUME BookInv, TotalsExact, [Next]_vars
    PROVE  TotalsExact'
<1>0. BookInv'
  BY NextKeeps
<1>1. CASE UNCHANGED <<total, slot>>
  <2>1. \A s \in Sides, p \in Prices : AtLevel(s, p)' = AtLevel(s, p)
    BY <1>1 DEF AtLevel
  <2>2. QtyAt' = QtyAt
    BY <1>1 DEF QtyAt
  <2>3. \A s \in Sides, p \in Prices : LevelSum(s, p)' = LevelSum(s, p)
    BY <2>1, <2>2 DEF LevelSum
  <2> QED  BY <1>1, <2>3 DEF TotalsExact
<1>2. ASSUME NEW l \in Locs, slot[l] # NIL, NEW i, NEW q2, Leaves(l, i, q2)
      PROVE  TotalsExact'
  <2>1. \A k \in Locs : slot'[k] = IF k = l THEN NIL ELSE slot[k]
    BY <1>2 DEF Leaves, LeavesLevel, BookInv, StoreInv, StoreType
  <2> QED  BY <1>0, <1>2, <2>1, LeavesTotals DEF BookInv, Leaves
<1>3. ASSUME NEW l \in FreeLocs, taker # NIL, Crossed, taker.qty > 0,
             taker.limit # NIL, Rest(l, Remainder(taker.limit))
      PROVE  TotalsExact'
  <2>1. PICK o \in Orders : o = Remainder(taker.limit)
    BY <1>3, TakerFields, QtyWidth
       DEF Remainder, Orders, LiveQtys, BookInv, MapInv, MapType
  <2>2. Rest(l, o) /\ l \in Locs
    BY <1>3, <2>1 DEF FreeLocs
  <2>3. \A k \in Locs : slot'[k] = IF k = l THEN o ELSE slot[k]
    BY <2>2 DEF Rest, BookInv, StoreInv, StoreType
  <2> QED  BY <1>0, <2>2, <2>3, RestTotals DEF BookInv
<1>4. CASE NewCommand
  BY <1>1, <1>4 DEF NewCommand, RejectNew, StartNew, book
<1>5. CASE CancelCommand
  <2> PICK id \in Ids : RejectCancel(id) \/ Cancel(id)
    BY <1>5 DEF CancelCommand
  <2>1. CASE RejectCancel(id)
    BY <1>1, <2>1 DEF RejectCancel, book
  <2>2. CASE Cancel(id)
    <3>1. map[id] \in Locs /\ slot[map[id]] # NIL
      BY <2>2, EntryIsLive DEF Cancel, BookInv
    <3>2. PICK l \in Locs : l = map[id]
      BY <3>1
    <3>3. slot[l] # NIL /\ Unlink(l)
      BY <2>2, <3>1, <3>2 DEF Cancel
    <3> QED  BY <1>2, <3>3, UnlinkLeaves DEF BookInv
  <2> QED  BY <2>1, <2>2
<1>6. CASE ReplaceCommand
  <2> PICK id \in Ids, price \in CmdPrices, qty \in CmdQtys :
              \/ RejectReplace(id, price, qty)
              \/ ReplaceInPlace(id, price, qty)
              \/ StartReplace(id, price, qty)
    BY <1>6 DEF ReplaceCommand
  <2>1. CASE RejectReplace(id, price, qty)
    BY <1>1, <2>1 DEF RejectReplace, book
  <2>2. CASE ReplaceInPlace(id, price, qty)
    <3>1. map[id] # NIL /\ qty \in LiveQtys
      BY <2>2, ReplacePasses DEF ReplaceInPlace
    <3>2. map[id] \in Locs /\ slot[map[id]] # NIL
      BY <2>2, <3>1, EntryIsLive DEF ReplaceInPlace, BookInv
    <3>3. PICK l \in Locs : l = map[id]
      BY <3>2
    <3>4. /\ slot' = [slot EXCEPT ![l] = [slot[l] EXCEPT !.qty = qty]]
          /\ total' = TotalWith(slot[l].side, slot[l].price, qty - slot[l].qty)
      BY <2>2, <3>3 DEF ReplaceInPlace, KeepsPriority
    <3> QED  BY <1>0, <3>1, <3>2, <3>3, <3>4, ResizeTotals DEF BookInv
  <2>3. CASE StartReplace(id, price, qty)
    <3>1. map[id] \in Locs /\ slot[map[id]] # NIL
      BY <2>3, ReplacePasses, EntryIsLive DEF StartReplace, BookInv
    <3>2. PICK l \in Locs : l = map[id]
      BY <3>1
    <3>3. slot[l] # NIL /\ Unlink(l)
      BY <2>3, <3>1, <3>2 DEF StartReplace
    <3> QED  BY <1>2, <3>3, UnlinkLeaves DEF BookInv
  <2> QED  BY <2>1, <2>2, <2>3
<1>7. CASE Fill
  <2>1. PICK bp \in index[Opposite(taker.side)] : FillMaker(bp) \/ FillTaker(bp)
    BY <1>7 DEF Fill
  <2>2. taker \in Takers /\ taker.qty > 0
    BY <1>7 DEF Fill, BookInv, MapInv, MapType
  <2>3. Opposite(taker.side) \in Sides
    BY DEF Opposite, Sides
  <2>4. PICK l \in Locs : l = Head(queue[Opposite(taker.side)][bp])
    BY <2>3, HeadIsLive DEF BookInv
  <2>5. /\ slot[l] \in Orders /\ slot[l] # NIL
        /\ slot[l].side = Opposite(taker.side) /\ slot[l].price = bp
    BY <2>3, <2>4, HeadIsLive, NilIsNoRecord DEF BookInv
  <2>6. CASE FillMaker(bp)
    <3>1. Leaves(l, 1, Tail(queue[Opposite(taker.side)][bp]))
      BY <2>4, <2>6, FillMakerLeaves DEF BookInv
    <3> QED  BY <1>2, <2>5, <3>1
  <2>7. CASE FillTaker(bp)
    <3>0. slot[l].qty > taker.qty
      BY <2>4, <2>7 DEF FillTaker
    <3>5. taker.qty \in 0 .. (QtyMod - 1)
      BY <2>2, TakerFields
    <3>6. slot[l].qty \in 1 .. (QtyMod - 1)
      BY <2>5 DEF Orders, LiveQtys
    <3>1. PICK r \in LiveQtys : r = slot[l].qty - taker.qty
      BY <3>0, <3>5, <3>6, QtyWidth DEF LiveQtys
    <3>2. -taker.qty = r - slot[l].qty
      BY <3>1, <3>5, <3>6, QtyWidth
    <3>3. total' = TotalWith(slot[l].side, slot[l].price, r - slot[l].qty)
      BY <2>4, <2>5, <2>7, <3>2 DEF FillTaker
    <3>4. slot' = [slot EXCEPT ![l] = [slot[l] EXCEPT !.qty = r]]
      BY <2>4, <2>7, <3>1 DEF FillTaker
    <3> QED  BY <1>0, <2>5, <3>3, <3>4, ResizeTotals DEF BookInv
  <2> QED  BY <2>1, <2>6, <2>7
<1>8. CASE Finish
  <2>1. CASE FinishNewFilled \/ FinishNewExpires \/ FinishReplaceFilled
    BY <1>1, <2>1
       DEF FinishNewFilled, FinishNewExpires, FinishReplaceFilled, book
  <2>2. CASE FinishNewRests
    BY <1>3, <2>2 DEF FinishNewRests, MayRest, Crossed
  <2>3. CASE FinishReplaceRests
    <3>1. taker # NIL /\ taker.limit # NIL
      BY <2>3, TakerFields, PricesAreTicks, NilIsNoValue
         DEF FinishReplaceRests, Crossed, BookInv, MapInv, MapType, Prices
    <3> QED  BY <1>3, <2>3, <3>1 DEF FinishReplaceRests
  <2> QED  BY <1>8, <2>1, <2>2, <2>3 DEF Finish
<1>9. CASE UNCHANGED vars
  BY <1>1, <1>9 DEF vars
<1> QED  BY <1>4, <1>5, <1>6, <1>7, <1>8, <1>9 DEF Next, Command

LEMMA EmptyTotals ==
    ASSUME EmptyBook
    PROVE  TotalsExact
<1> SUFFICES ASSUME NEW s \in Sides, NEW p \in Prices
             PROVE  total[s][p] = LevelSum(s, p) % QtyMod
  BY DEF TotalsExact
<1>1. AtLevel(s, p) = {}
  BY DEF EmptyBook, AtLevel
<1>2. LevelSum(s, p) = 0
  BY <1>1, SumEmpty DEF LevelSum
<1>3. 0 % QtyMod = 0
  BY QtyWidth, ModLeast
<1> QED  BY <1>2, <1>3 DEF EmptyBook

LEMMA InitTotals ==
    ASSUME Init
    PROVE  TotalsExact
<1>1. EmptyBook
  BY DEF Init, EmptyBook
<1> QED  BY <1>1, EmptyTotals

LEMMA TotalsInvariant == Spec => []TotalsExact
<1>1. Init => TotalsExact
  BY InitTotals
<1>2. BookInv /\ TotalsExact /\ [Next]_vars => TotalsExact'
  BY NextTotals
<1> QED  BY <1>1, <1>2, Invariance, PTL DEF Spec

\* Level totals are exact: whatever mix of fills, cancels and replaces the
\* orders of a level went through, and however often its total wrapped, it is
\* the sum of what they have left, as a Qty.
THEOREM TotalsAreExact == Spec => []TotalsMatch
<1>1. BookInv /\ TotalsExact => TotalsMatch
  BY StoreHasLevels, LevelsAddUp DEF BookInv
<1> QED  BY <1>1, TotalsInvariant, Invariance, PTL

----------------------------------------------------------------------------
(* Fill or kill.                                                           *)

\* The check lets an order in only if the book really offers what it wants.
LEMMA StartNewIsFillable ==
    ASSUME BookInv, TotalsExact, NEW id \in Ids, NEW side \in Sides,
           NEW limit \in CmdPrices \cup {NIL}, NEW qty \in CmdQtys,
           NEW tif \in Tifs, StartNew(id, side, limit, qty, tif)
    PROVE  FokNeverStarves'
<1> SUFFICES ASSUME limit # NIL, tif = "Fok"
             PROVE  qty <= Offered(side, limit)'
  BY DEF StartNew, FokNeverStarves
<1>1. NewFault(id, side, limit, qty, tif) = NIL /\ slot' = slot
  BY DEF StartNew, book
<1>2. limit \in Prices /\ ~(Fillable(side, limit) < qty)
  BY <1>1, NilIsNoValue DEF NewFault, RejectReasons, Prices
<1>3. qty <= Offered(side, limit)
  <2>1. /\ Fillable(side, limit) \in Nat /\ Offered(side, limit) \in Nat
        /\ Fillable(side, limit) <= Offered(side, limit)
    BY <1>2, FillableBounds DEF BookInv
  <2>2. qty \in Nat
    BY QtyWidth
  <2> QED  BY <1>2, <2>1, <2>2
<1>4. Offered(side, limit)' = Offered(side, limit)
  BY <1>1 DEF Offered, InReach, QtyAt
<1> QED  BY <1>3, <1>4

\* A fill takes as much from what is wanted as from what is on offer.
LEMMA FillFeedsFok ==
    ASSUME BookInv, FokNeverStarves, Fill
    PROVE  FokNeverStarves'
<1>1. PICK bp \in index[Opposite(taker.side)] :
              Marketable(bp) /\ (FillMaker(bp) \/ FillTaker(bp))
  BY DEF Fill
<1>2. taker \in Takers /\ taker # NIL /\ taker.qty \in Nat
  BY TakerFields DEF Fill, BookInv, MapInv, MapType
<1>3. PICK r : taker' = [taker EXCEPT !.qty = r]
  BY <1>1 DEF FillMaker, FillTaker
<1>4. /\ taker'.cmd = taker.cmd /\ taker'.tif = taker.tif
      /\ taker'.limit = taker.limit /\ taker'.side = taker.side
      /\ taker'.qty = r
  BY <1>2, <1>3 DEF Takers
<1>5. PICK side \in Sides, limit \in Prices \cup {NIL} :
              side = taker.side /\ limit = taker.limit
  BY <1>2, TakerFields
<1> SUFFICES ASSUME taker.cmd = "new", taker.tif = "Fok", limit # NIL
             PROVE  r <= Offered(side, limit)'
  BY <1>4, <1>5 DEF FokNeverStarves
<1>6. taker.qty <= Offered(side, limit)
  BY <1>2, <1>5 DEF FokNeverStarves
<1>7. /\ Opposite(side) \in Sides
      /\ StoreInv /\ StoreInv'
  BY NextKeeps DEF BookInv, Next, Opposite, Sides
<1>8. CASE FillTaker(bp)
  <2>1. r = 0
    BY <1>2, <1>3, <1>4, <1>8 DEF FillTaker, Takers
  <2>2. Offered(side, limit)' \in Nat
    <3>1. /\ IsFiniteSet(InReach(side, limit)')
          /\ \A l \in InReach(side, limit)' : /\ QtyAt'[l] \in Nat
                                              /\ QtyAt'[l] <= QtyAt'[l]
      <4>1. IsFiniteSet(Locs) /\ \A l \in Locs : QtyAt'[l] \in Nat
        BY <1>7, QtyFactsAfter
      <4> QED  BY <4>1, FS_Subset DEF InReach
    <3> QED  BY <3>1, SumMonotone DEF Offered
  <2> QED  BY <2>1, <2>2
<1>9. CASE FillMaker(bp)
  <2>1. PICK l \in Locs : l = Head(queue[Opposite(side)][bp])
    BY <1>1, <1>5, <1>7, HeadIsLive
  <2>2. /\ slot[l] \in Orders /\ slot[l] # NIL
        /\ slot[l].side = Opposite(side) /\ slot[l].price = bp
    BY <1>1, <1>5, <1>7, <2>1, HeadIsLive, NilIsNoRecord
  <2>3. r = taker.qty - slot[l].qty /\ slot[l].qty \in Nat
    <3>1. slot[l].qty \in Nat
      BY <2>2, QtyWidth DEF Orders, LiveQtys
    <3>2. taker' = [taker EXCEPT !.qty = taker.qty - slot[l].qty]
      BY <1>5, <1>9, <2>1 DEF FillMaker
    <3>3. taker'.qty = taker.qty - slot[l].qty
      BY <1>2, <3>2 DEF Takers
    <3> QED  BY <1>4, <3>1, <3>3
  <2>4. \A k \in Locs : slot'[k] = IF k = l THEN NIL ELSE slot[k]
    BY <1>5, <1>9, <2>1 DEF FillMaker, BookInv, StoreInv, StoreType
  <2>5. InReach(side, limit)' = InReach(side, limit) \ {l}
          /\ l \in InReach(side, limit)
    BY <1>1, <1>5, <2>2, <2>4 DEF InReach, Marketable
  <2> DEFINE A == InReach(side, limit)
  <2>6. /\ IsFiniteSet(A) /\ A \subseteq Locs /\ l \in A
        /\ \A x \in A : QtyAt[x] \in Int
        /\ QtyAt[l] = slot[l].qty
    BY <1>7, <2>2, <2>5, QtyFacts, FS_Subset DEF InReach
  <2>7. SumFunctionOnSet(QtyAt, A) = QtyAt[l] + SumFunctionOnSet(QtyAt, A \ {l})
    <3> HIDE DEF A
    <3> QED  BY <2>6, SumRemove
  <2>8. SumFunctionOnSet(QtyAt', A \ {l}) = SumFunctionOnSet(QtyAt, A \ {l})
    <3>1. IsFiniteSet(A \ {l})
      BY <2>6, FS_Subset
    <3>2. \A x \in A \ {l} : QtyAt'[x] = QtyAt[x]
      BY <2>4, <2>6 DEF QtyAt
    <3> HIDE DEF A
    <3> QED  BY <3>1, <3>2, SumSame
  <2>9. /\ Offered(side, limit) = SumFunctionOnSet(QtyAt, A)
        /\ Offered(side, limit)' = SumFunctionOnSet(QtyAt', A \ {l})
    BY <2>5 DEF Offered
  <2>10. SumFunctionOnSet(QtyAt, A \ {l}) \in Int
    <3>1. IsFiniteSet(A \ {l}) /\ \A x \in A \ {l} : QtyAt[x] \in Int
      BY <2>6, FS_Subset
    <3> HIDE DEF A
    <3> QED  BY <3>1, SumInt
  <2> HIDE DEF A
  <2> QED  BY <1>2, <1>6, <2>3, <2>6, <2>7, <2>8, <2>9, <2>10
<1> QED  BY <1>1, <1>8, <1>9

LEMMA NextFeedsFok ==
    ASSUME BookInv, TotalsExact, FokNeverStarves, [Next]_vars
    PROVE  FokNeverStarves'
<1>1. CASE NewCommand
  <2>1. ASSUME NEW id, NEW side, NEW limit, NEW qty, NEW tif,
               RejectNew(id, side, limit, qty, tif)
        PROVE  FokNeverStarves'
    BY <2>1 DEF RejectNew, FokNeverStarves
  <2> QED  BY <1>1, <2>1, StartNewIsFillable DEF NewCommand
<1>2. CASE CancelCommand
  BY <1>2 DEF CancelCommand, RejectCancel, Cancel, FokNeverStarves
<1>3. CASE ReplaceCommand
  BY <1>3 DEF ReplaceCommand, RejectReplace, ReplaceInPlace, StartReplace,
              FokNeverStarves
<1>4. CASE Fill
  BY <1>4, FillFeedsFok
<1>5. CASE Finish
  BY <1>5 DEF Finish, FinishNewFilled, FinishNewRests, FinishNewExpires,
              FinishReplaceFilled, FinishReplaceRests, FokNeverStarves
<1>6. CASE UNCHANGED vars
  BY <1>6 DEF vars, FokNeverStarves, Offered, InReach, QtyAt
<1> QED  BY <1>1, <1>2, <1>3, <1>4, <1>5, <1>6 DEF Next, Command

\* A fill-or-kill order that is let in is filled to the end: at every step of
\* its cross the book offers what it still wants.  fillable() may err, since
\* it adds totals that have wrapped, but only to the low side.
THEOREM FokFills == Spec => []FokNeverStarves
<1>1. Init => FokNeverStarves
  BY DEF Init, FokNeverStarves
<1>2. BookInv /\ TotalsExact /\ FokNeverStarves /\ [Next]_vars
        => FokNeverStarves'
  BY NextFeedsFok
<1> QED  BY <1>1, <1>2, Invariance, TotalsInvariant, PTL DEF Spec

\* What a side offers fits a Qty.
NothingWraps ==
    \A side \in Sides, limit \in Prices : Offered(side, limit) < QtyMod

\* A fill-or-kill order is refused only when the book is short of what it
\* wants, on two conditions that the code does not enforce: that every price
\* is in the range fillable() adds up, and that what is on offer fits a Qty.
\* A ladder meets the first by its own bounds, a tree only up to INT64_MAX / 2.
THEOREM FokIsFair ==
    ASSUME Prices \subseteq LowEnd .. HighEnd
    PROVE  Spec => [](NothingWraps => FokRefusedOnlyWhenShort)
<1>1. BookInv /\ TotalsExact => (NothingWraps => FokRefusedOnlyWhenShort)
  <2> SUFFICES ASSUME BookInv, TotalsExact, NothingWraps,
                      NEW id \in Ids, NEW side \in Sides, NEW limit \in Prices,
                      NEW qty \in CmdQtys,
                      NewFault(id, side, limit, qty, "Fok") = "FokCannotFill"
               PROVE  Offered(side, limit) < qty
    BY DEF FokRefusedOnlyWhenShort
  <2>1. Fillable(side, limit) < qty
    BY NilIsNoValue DEF NewFault, RejectReasons
  <2>2. Fillable(side, limit) = Offered(side, limit)
    BY FillableBounds DEF BookInv, NothingWraps
  <2> QED  BY <2>1, <2>2
<1> QED  BY <1>1, Invariance, TotalsInvariant, PTL

\* The range of a ladder is the range of its prices.
LEMMA LadderReachesAll ==
    ASSUME IndexKind = "Ladder"
    PROVE  Prices \subseteq LowEnd .. HighEnd
BY DEF Prices, PriceOK, LowEnd, HighEnd

----------------------------------------------------------------------------
(* A book whose quantities fit.                                            *)

\* No command asks for more than K, and max_orders orders of K fit a Qty.
QtysFit(K) ==
    /\ K \in Nat /\ \A q \in CmdQtys : q <= K
    /\ K * MaxOrders < QtyMod

\* No order has more than K left.
UpTo(K) ==
    /\ \A l \in Locs : slot[l] # NIL => slot[l].qty <= K
    /\ taker # NIL => taker.qty <= K

LEMMA UpToFits ==
    ASSUME BookInv, NEW K, QtysFit(K), UpTo(K)
    PROVE  NothingWraps
<1> SUFFICES ASSUME NEW side \in Sides, NEW limit \in Prices
             PROVE  Offered(side, limit) < QtyMod
  BY DEF NothingWraps
<1>1. PICK S : S = InReach(side, limit)
  OBVIOUS
<1>2. S \subseteq LiveLocs /\ LiveLocs \subseteq Locs
  BY <1>1 DEF InReach, LiveLocs
<1>3. IsFiniteSet(Locs) /\ MaxOrders \in Nat
  BY StoreIsBigEnough
<1>4. /\ IsFiniteSet(S) /\ IsFiniteSet(LiveLocs)
      /\ Cardinality(S) \in Nat /\ Cardinality(LiveLocs) \in Nat
      /\ Cardinality(S) <= Cardinality(LiveLocs)
  <2>1. IsFiniteSet(LiveLocs)
    BY <1>2, <1>3, FS_Subset
  <2>2. IsFiniteSet(S) /\ Cardinality(S) <= Cardinality(LiveLocs)
    BY <1>2, <2>1, FS_Subset
  <2> QED  BY <2>1, <2>2, FS_CardinalityType
<1>5. Cardinality(LiveLocs) <= MaxOrders
  BY DEF BookInv, StoreInv, LiveCounted, MapInv, RoomLeft
<1>6. PICK n \in Nat : n = Cardinality(S) /\ n <= MaxOrders
  BY <1>3, <1>4, <1>5
<1>7. \A l \in S : QtyAt[l] \in Nat /\ QtyAt[l] <= K
  <2> TAKE l \in S
  <2>1. l \in Locs /\ slot[l] # NIL
    BY <1>2 DEF LiveLocs
  <2> QED  BY <2>1, QtyFacts DEF UpTo, BookInv
<1>8. K \in Nat /\ K * MaxOrders < QtyMod
  BY DEF QtysFit
<1>9. SumFunctionOnSet(QtyAt, S) <= K * n
  BY <1>4, <1>6, <1>7, <1>8, SumAtMost
<1>10. K * n <= K * MaxOrders
  BY <1>3, <1>6, <1>8, TimesMonotone
<1>11. SumFunctionOnSet(QtyAt, S) \in Int
  BY <1>4, <1>7, SumInt
<1>12. K * n \in Int /\ K * MaxOrders \in Int /\ QtyMod \in Int
  BY <1>3, <1>8, QtyWidth
<1> QED  BY <1>1, <1>8, <1>9, <1>10, <1>11, <1>12 DEF Offered

LEMMA RestUpTo ==
    ASSUME BookInv, NEW K, UpTo(K), NEW l \in Locs, NEW o \in Orders,
           Rest(l, o), o.qty <= K
    PROVE  \A k \in Locs : slot'[k] # NIL => slot'[k].qty <= K
<1>1. \A k \in Locs : slot'[k] = IF k = l THEN o ELSE slot[k]
  BY DEF Rest, BookInv, StoreInv, StoreType
<1> QED  BY <1>1 DEF UpTo

LEMMA LeavesUpTo ==
    ASSUME BookInv, NEW K, UpTo(K), NEW l \in Locs, NEW i, NEW q2,
           Leaves(l, i, q2)
    PROVE  \A k \in Locs : slot'[k] # NIL => slot'[k].qty <= K
<1>1. \A k \in Locs : slot'[k] = IF k = l THEN NIL ELSE slot[k]
  BY DEF Leaves, LeavesLevel, BookInv, StoreInv, StoreType
<1> QED  BY <1>1 DEF UpTo

LEMMA ResizeUpTo ==
    ASSUME BookInv, NEW K, UpTo(K), NEW l \in Locs, slot[l] # NIL, NEW r,
           r <= K, slot' = [slot EXCEPT ![l] = [slot[l] EXCEPT !.qty = r]]
    PROVE  \A k \in Locs : slot'[k] # NIL => slot'[k].qty <= K
<1>1. slot[l] \in Orders /\ slot \in [Locs -> Orders \cup {NIL}]
  BY DEF BookInv, StoreInv, StoreType
<1>2. PICK x : x = [slot[l] EXCEPT !.qty = r]
  OBVIOUS
<1>3. x.qty = r
  BY <1>1, <1>2 DEF Orders
<1>4. \A k \in Locs : slot'[k] = IF k = l THEN x ELSE slot[k]
  BY <1>1, <1>2
<1> QED  BY <1>3, <1>4 DEF UpTo

LEMMA NextUpTo ==
    ASSUME BookInv, NEW K, QtysFit(K), UpTo(K), [Next]_vars
    PROVE  UpTo(K)'
<1> DEFINE SlotsUpTo == \A k \in Locs : slot'[k] # NIL => slot'[k].qty <= K
<1>1. UNCHANGED slot => SlotsUpTo
  BY DEF UpTo
<1>2. SlotsUpTo /\ (taker' # NIL => taker'.qty <= K) => UpTo(K)'
  BY DEF UpTo
<1> HIDE DEF SlotsUpTo
<1>3. ASSUME NEW l \in FreeLocs, taker # NIL, Crossed, taker.qty > 0,
             taker.limit # NIL, Rest(l, Remainder(taker.limit))
      PROVE  SlotsUpTo
  <2>1. PICK o \in Orders : o = Remainder(taker.limit)
    BY <1>3, TakerFields, QtyWidth
       DEF Remainder, Orders, LiveQtys, BookInv, MapInv, MapType
  <2>2. Rest(l, o) /\ l \in Locs /\ o.qty <= K
    BY <1>3, <2>1 DEF FreeLocs, Remainder, UpTo
  <2> QED  BY <2>2, RestUpTo DEF SlotsUpTo
<1>4. CASE NewCommand
  <2> PICK id \in Ids, side \in Sides, limit \in CmdPrices \cup {NIL},
           qty \in CmdQtys, tif \in Tifs :
              \/ RejectNew(id, side, limit, qty, tif)
              \/ StartNew(id, side, limit, qty, tif)
    BY <1>4 DEF NewCommand
  <2>1. CASE RejectNew(id, side, limit, qty, tif)
    BY <1>1, <1>2, <2>1 DEF RejectNew, book
  <2>2. CASE StartNew(id, side, limit, qty, tif)
    <3>1. taker'.qty = qty /\ slot' = slot
      BY <2>2 DEF StartNew, book
    <3> QED  BY <1>1, <1>2, <3>1 DEF QtysFit
  <2> QED  BY <2>1, <2>2
<1>5. CASE CancelCommand
  <2> PICK id \in Ids : RejectCancel(id) \/ Cancel(id)
    BY <1>5 DEF CancelCommand
  <2>1. CASE RejectCancel(id)
    BY <1>1, <1>2, <2>1 DEF RejectCancel, book
  <2>2. CASE Cancel(id)
    <3>1. PICK l \in Locs : l = map[id] /\ slot[l] # NIL
      BY <2>2, EntryIsLive DEF Cancel, BookInv
    <3>2. Unlink(l) /\ taker' = NIL
      BY <2>2, <3>1 DEF Cancel
    <3>3. PICK i, q2 : Leaves(l, i, q2)
      BY <3>1, <3>2, UnlinkLeaves DEF BookInv
    <3>4. SlotsUpTo
      BY <3>3, LeavesUpTo DEF SlotsUpTo
    <3> QED  BY <1>2, <3>2, <3>4
  <2> QED  BY <2>1, <2>2
<1>6. CASE ReplaceCommand
  <2> PICK id \in Ids, price \in CmdPrices, qty \in CmdQtys :
              \/ RejectReplace(id, price, qty)
              \/ ReplaceInPlace(id, price, qty)
              \/ StartReplace(id, price, qty)
    BY <1>6 DEF ReplaceCommand
  <2>0. qty <= K
    BY DEF QtysFit
  <2>1. CASE RejectReplace(id, price, qty)
    BY <1>1, <1>2, <2>1 DEF RejectReplace, book
  <2>2. CASE ReplaceInPlace(id, price, qty)
    <3>1. PICK l \in Locs : l = map[id] /\ slot[l] # NIL
      BY <2>2, ReplacePasses, EntryIsLive DEF ReplaceInPlace, BookInv
    <3>2. slot' = [slot EXCEPT ![l] = [slot[l] EXCEPT !.qty = qty]] /\ taker' = NIL
      BY <2>2, <3>1 DEF ReplaceInPlace
    <3>3. SlotsUpTo
      BY <2>0, <3>1, <3>2, ResizeUpTo DEF SlotsUpTo
    <3> QED  BY <1>2, <3>2, <3>3
  <2>3. CASE StartReplace(id, price, qty)
    <3>1. PICK l \in Locs : l = map[id] /\ slot[l] # NIL
      BY <2>3, ReplacePasses, EntryIsLive DEF StartReplace, BookInv
    <3>2. Unlink(l) /\ taker'.qty = qty
      BY <2>3, <3>1 DEF StartReplace
    <3>3. PICK i, q2 : Leaves(l, i, q2)
      BY <3>1, <3>2, UnlinkLeaves DEF BookInv
    <3>4. SlotsUpTo
      BY <3>3, LeavesUpTo DEF SlotsUpTo
    <3> QED  BY <1>2, <2>0, <3>2, <3>4
  <2> QED  BY <2>1, <2>2, <2>3
<1>7. CASE Fill
  <2>1. PICK bp \in index[Opposite(taker.side)] : FillMaker(bp) \/ FillTaker(bp)
    BY <1>7 DEF Fill
  <2>2. taker \in Takers /\ taker.qty > 0 /\ taker.qty <= K
    BY <1>7 DEF Fill, BookInv, MapInv, MapType, UpTo
  <2>3. Opposite(taker.side) \in Sides
    BY DEF Opposite, Sides
  <2>4. PICK l \in Locs : l = Head(queue[Opposite(taker.side)][bp])
    BY <2>3, HeadIsLive DEF BookInv
  <2>5. slot[l] \in Orders /\ slot[l] # NIL
    BY <2>3, <2>4, HeadIsLive, NilIsNoRecord DEF BookInv
  <2>6. PICK m : m = slot[l].qty
    OBVIOUS
  <2>7. /\ m \in Nat /\ m <= K /\ K \in Nat /\ taker.qty \in Nat
    BY <2>2, <2>5, <2>6, TakerFields, QtyWidth
       DEF Orders, LiveQtys, UpTo, QtysFit
  <2>8. CASE FillMaker(bp)
    <3>1. Leaves(l, 1, Tail(queue[Opposite(taker.side)][bp]))
      BY <2>4, <2>8, FillMakerLeaves DEF BookInv
    <3>2. SlotsUpTo
      BY <3>1, LeavesUpTo DEF SlotsUpTo
    <3>3. taker' = [taker EXCEPT !.qty = taker.qty - m]
      BY <2>4, <2>6, <2>8 DEF FillMaker
    <3>4. PICK r : r = taker.qty - m
      OBVIOUS
    <3>5. taker' = [taker EXCEPT !.qty = r] /\ r <= K
      BY <2>2, <2>7, <3>3, <3>4
    <3>6. taker'.qty = r
      BY <2>2, <3>5 DEF Takers
    <3> QED  BY <1>2, <3>2, <3>5, <3>6
  <2>9. CASE FillTaker(bp)
    <3>1. PICK r : r = m - taker.qty
      OBVIOUS
    <3>2. r <= K /\ 0 <= K
      BY <2>7, <3>1
    <3>3. slot' = [slot EXCEPT ![l] = [slot[l] EXCEPT !.qty = r]]
      BY <2>4, <2>6, <2>9, <3>1 DEF FillTaker
    <3>4. SlotsUpTo
      BY <2>5, <3>2, <3>3, ResizeUpTo DEF SlotsUpTo
    <3>5. taker' = [taker EXCEPT !.qty = 0]
      BY <2>9 DEF FillTaker
    <3>6. taker'.qty = 0
      BY <2>2, <3>5 DEF Takers
    <3> QED  BY <1>2, <3>2, <3>4, <3>6
  <2> QED  BY <2>1, <2>8, <2>9
<1>8. CASE Finish
  <2>0. taker' = NIL
    BY <1>8 DEF Finish, FinishNewFilled, FinishNewRests, FinishNewExpires,
               FinishReplaceFilled, FinishReplaceRests
  <2>1. CASE FinishNewFilled \/ FinishNewExpires \/ FinishReplaceFilled
    BY <1>1, <1>2, <2>0, <2>1
       DEF FinishNewFilled, FinishNewExpires, FinishReplaceFilled, book
  <2>2. CASE FinishNewRests
    BY <1>2, <1>3, <2>0, <2>2 DEF FinishNewRests, MayRest, Crossed
  <2>3. CASE FinishReplaceRests
    <3>1. taker # NIL /\ taker.limit # NIL
      BY <2>3, TakerFields, PricesAreTicks, NilIsNoValue
         DEF FinishReplaceRests, Crossed, BookInv, MapInv, MapType, Prices
    <3> QED  BY <1>2, <1>3, <2>0, <2>3, <3>1 DEF FinishReplaceRests
  <2> QED  BY <1>8, <2>1, <2>2, <2>3 DEF Finish
<1>9. CASE UNCHANGED vars
  BY <1>9 DEF vars, UpTo
<1> QED  BY <1>4, <1>5, <1>6, <1>7, <1>8, <1>9 DEF Next, Command

\* While no command asks for more than K, and max_orders orders of K fit a
\* Qty, no sum of quantities wraps: the condition of FokIsFair, from numbers
\* an operator knows.
THEOREM SmallBookNeverWraps ==
    ASSUME NEW K, QtysFit(K)
    PROVE  Spec => []NothingWraps
<1>1. Init => UpTo(K)
  BY DEF Init, UpTo
<1>2. BookInv /\ UpTo(K) /\ [Next]_vars => UpTo(K)'
  BY NextUpTo
<1>3. BookInv /\ UpTo(K) => NothingWraps
  BY UpToFits
<1> QED  BY <1>1, <1>2, <1>3, Invariance, PTL DEF Spec
============================================================================
