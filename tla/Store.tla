-------------------------------- MODULE Store --------------------------------
(***************************************************************************)
(* The order store (Store, include/matcher/detail/internals.hpp): the FIFO *)
(* of a price level is a doubly linked list of chunks, each with a few     *)
(* slots that are filled from the front and die in any order.  A chunk     *)
(* goes back to the free list when its last live slot dies.                *)
(*                                                                         *)
(* A slot is the quantity it holds, 0 when it is dead; the id and the tif  *)
(* stored with it travel with the quantity.  A level is a price of a side. *)
(* The book gives push() room: it refuses new orders at max_orders.        *)
(***************************************************************************)
EXTENDS Integers, Sequences, FiniteSets

CONSTANTS
    Levels,      \* the levels of both price indexes
    Qtys,        \* the quantities orders rest with
    MaxOrders,   \* the capacity of the vector of chunks
    ChunkSlots,  \* CHUNK_SLOTS
    NIL          \* no chunk

ASSUME StoreShape == MaxOrders \in Nat \ {0} /\ ChunkSlots \in Nat \ {0}
ASSUME QtysArePositive == Qtys \subseteq Nat \ {0}
ASSUME NilIsNoChunk == NIL \notin Nat

Lists == INSTANCE SequencesExt

VARIABLES
    chunks,     \* [ChunkIds -> Chunks]: price and side are one level
    used,       \* chunks[0, used) have been handed out
    freeChunk,  \* the head of the free list, linked through next
    live,       \* the number of live orders
    levels,     \* [Levels -> [head, tail : chunk or NIL]]
    fifo        \* [Levels -> Seq([loc, qty])]: the orders the calls so far
                \* have put in each level and not taken out, oldest first

vars == <<chunks, used, freeChunk, live, levels, fifo>>

\* One more than the vector has room for, so that running over shows.
ChunkIds == 0 .. MaxOrders
SlotIds == 0 .. (ChunkSlots - 1)
MaybeChunk == ChunkIds \cup {NIL}
Locs == ChunkIds \X SlotIds
Chunks ==
    [level : Levels \cup {NIL}, prev : MaybeChunk, next : MaybeChunk,
     head : 0 .. ChunkSlots, tail : 0 .. ChunkSlots, live : 0 .. ChunkSlots,
     s : [SlotIds -> Nat]]

----------------------------------------------------------------------------
(* Chunks.                                                                 *)

\* The chunk alloc_chunk() hands out.
NewChunk == IF freeChunk # NIL THEN freeChunk ELSE used

\* A chunk just handed out for a level, behind chunk p: its slots are as they
\* were left.  The first form is a mutant: so is its cursor.
ClearedButHead(c, l, p) ==
    [chunks[c] EXCEPT !.level = l, !.prev = p, !.next = NIL,
                      !.tail = 0, !.live = 0]

Cleared(c, l, p) ==
    [chunks[c] EXCEPT !.level = l, !.prev = p, !.next = NIL,
                      !.head = 0, !.tail = 0, !.live = 0]

\* Slot i of a chunk takes an order; the tail moves past it.
Filled(ch, i, q) ==
    [ch EXCEPT !.s[i] = q, !.tail = i + 1, !.live = @ + 1]

\* Chunk c, whose state is now ch, leaves level l (drop_chunk) and becomes the
\* head of the free list.
Relink(l, c, ch) ==
    [b \in ChunkIds |->
       IF b = c THEN [ch EXCEPT !.next = freeChunk]
       ELSE IF b = ch.prev THEN [chunks[b] EXCEPT !.next = ch.next]
       ELSE IF b = ch.next THEN [chunks[b] EXCEPT !.prev = ch.prev]
       ELSE chunks[b]]

\* The list of level l without chunk c.  The first form is a mutant: the tail
\* still names a chunk that is free.
HeadMoved(l, ch) ==
    [levels EXCEPT ![l].head = IF ch.prev = NIL THEN ch.next ELSE @]

EndsMoved(l, ch) ==
    [levels EXCEPT ![l].head = IF ch.prev = NIL THEN ch.next ELSE @,
                   ![l].tail = IF ch.next = NIL THEN ch.prev ELSE @]

\* The free list after chunk c is dropped.  The first form is a mutant: the
\* chunk is lost.
FreeListKept(c) == freeChunk
FreeListWith(c) == c

\* An order of chunk c died and the chunk is now ch: if it was the last, the
\* chunk is dropped from its level.
Bury(c, ch) ==
    /\ live' = live - 1
    /\ IF ch.live = 0
       THEN /\ chunks' = Relink(ch.level, c, ch)
            /\ levels' = EndsMoved(ch.level, ch)
            /\ freeChunk' = FreeListWith(c)
       ELSE /\ chunks' = [chunks EXCEPT ![c] = ch]
            /\ UNCHANGED <<levels, freeChunk>>
    /\ UNCHANGED used

----------------------------------------------------------------------------

\* The tail chunk of level l has no slot left, or there is none.
NeedsChunk(l) ==
    levels[l].tail = NIL \/ chunks[levels[l].tail].tail = ChunkSlots

\* push(): an order of quantity q joins the tail of level l.
Push(l, q) ==
    /\ live < MaxOrders
    /\ live' = live + 1
    /\ IF NeedsChunk(l)
       THEN LET c == NewChunk
                p == levels[l].tail
            IN  /\ freeChunk' = IF freeChunk # NIL THEN chunks[c].next
                                ELSE NIL
                /\ used' = IF freeChunk # NIL THEN used ELSE used + 1
                /\ chunks' = [b \in ChunkIds |->
                                IF b = c THEN Filled(Cleared(c, l, p), 0, q)
                                ELSE IF b = p THEN [chunks[b] EXCEPT !.next = c]
                                ELSE chunks[b]]
                /\ levels' = [levels EXCEPT
                                ![l].head = IF p = NIL THEN c ELSE @,
                                ![l].tail = c]
                /\ fifo' = [fifo EXCEPT
                              ![l] = Append(@, [loc |-> <<c, 0>>, qty |-> q])]
       ELSE LET c == levels[l].tail
                i == chunks[c].tail
            IN  /\ chunks' = [chunks EXCEPT ![c] = Filled(@, i, q)]
                /\ fifo' = [fifo EXCEPT
                              ![l] = Append(@, [loc |-> <<c, i>>, qty |-> q])]
                /\ UNCHANGED <<used, freeChunk, levels>>

\* Slot i of a chunk dies.
Killed(ch, i) == [ch EXCEPT !.s[i] = 0, !.live = @ - 1]

\* unlink(): the n-th order of level l is cancelled or replaced.
Unlink(l, n) ==
    LET loc == fifo[l][n].loc
    IN  /\ Bury(loc[1], Killed(chunks[loc[1]], loc[2]))
        /\ fifo' = [fifo EXCEPT ![l] = Lists!RemoveAt(@, n)]

\* The cursor of a chunk: its first slot that is not dead.  The first form is a
\* mutant: the cursor is not advanced.
AtCursor(ch) == ch.head

FirstLive(ch) ==
    CHOOSE i \in SlotIds : /\ ch.head <= i /\ ch.s[i] # 0
                           /\ \A j \in SlotIds :
                                 ch.head <= j /\ j < i => ch.s[j] = 0

\* front(): the location of the oldest order of a level that is not empty.
Front(l) == <<levels[l].head, FirstLive(chunks[levels[l].head])>>

\* cross() fills the oldest order of level l by q: front() moves the cursor,
\* and the slot dies if nothing is left.
FillFront(l, q) ==
    /\ levels[l].head # NIL
    /\ LET c == levels[l].head
           i == FirstLive(chunks[c])
           ch == [chunks[c] EXCEPT !.head = i]
       IN  /\ q <= ch.s[i]
           /\ IF q = ch.s[i]
              THEN /\ Bury(c, Killed(ch, i))
                   /\ fifo' = [fifo EXCEPT ![l] = Tail(@)]
              ELSE /\ chunks' = [chunks EXCEPT ![c] =
                                   [ch EXCEPT !.s[i] = @ - q]]
                   /\ fifo' = [fifo EXCEPT ![l][1].qty = @ - q]
                   /\ UNCHANGED <<used, freeChunk, live, levels>>

\* replace() gives an order that keeps its place a smaller quantity.
Shrink(l, n, q) ==
    LET loc == fifo[l][n].loc
    IN  /\ q < fifo[l][n].qty
        /\ chunks' = [chunks EXCEPT ![loc[1]].s[loc[2]] = q]
        /\ fifo' = [fifo EXCEPT ![l][n].qty = q]
        /\ UNCHANGED <<used, freeChunk, live, levels>>

Blank == [level |-> NIL, prev |-> NIL, next |-> NIL,
          head |-> 0, tail |-> 0, live |-> 0, s |-> [i \in SlotIds |-> 0]]

Init ==
    /\ chunks = [c \in ChunkIds |-> Blank]
    /\ used = 0
    /\ freeChunk = NIL
    /\ live = 0
    /\ levels = [l \in Levels |-> [head |-> NIL, tail |-> NIL]]
    /\ fifo = [l \in Levels |-> <<>>]

Next ==
    \E l \in Levels :
       \/ \E q \in Qtys : Push(l, q) \/ FillFront(l, q)
       \/ \E n \in DOMAIN fifo[l] :
             Unlink(l, n) \/ \E q \in Qtys : Shrink(l, n, q)

Spec == Init /\ [][Next]_vars

----------------------------------------------------------------------------

\* What visit says of the chunks from c on, one after the other; no list is
\* longer than the number of chunks.
Visits(c, visit) ==
    LET from[n \in 0 .. (MaxOrders + 1)] ==
          [b \in MaybeChunk |->
             IF n = 0 \/ b = NIL THEN <<>>
             ELSE visit[b] \o from[n - 1][chunks[b].next]]
    IN  from[MaxOrders + 1][c]

\* The chunks that follow one another from c on.
Chain(c) == Visits(c, [b \in ChunkIds |-> <<b>>])

\* The live orders of chunk c, and for_each(): those of level l, in its order.
Lives(ch) == {i \in SlotIds : ch.head <= i /\ i < ch.tail /\ ch.s[i] # 0}

ListChunk(c) ==
    LET lives == Lives(chunks[c])
        Nth(k) == CHOOSE i \in lives : Cardinality({j \in lives : j <= i}) = k
    IN  [k \in 1 .. Cardinality(lives) |->
           [loc |-> <<c, Nth(k)>>, qty |-> chunks[c].s[Nth(k)]]]

ForEach(l) == Visits(levels[l].head, [b \in ChunkIds |-> ListChunk(b)])

TypeOK ==
    /\ chunks \in [ChunkIds -> Chunks]
    /\ used \in 0 .. MaxOrders
    /\ freeChunk \in MaybeChunk
    /\ live \in 0 .. MaxOrders
    /\ levels \in [Levels -> [head : MaybeChunk, tail : MaybeChunk]]
    /\ DOMAIN fifo = Levels

\* for_each() visits the orders of a level in the order they joined it, every
\* one, at the location and with the quantity the book knows, whichever slots
\* around them have died and whichever chunks have been dropped and reused.
ListsWhatWasPushed == \A l \in Levels : ForEach(l) = fifo[l]

\* front() finds the oldest order, and stops before the tail of its chunk.
FrontIsOldest ==
    \A l \in Levels : fifo[l] # <<>> =>
       /\ levels[l].head # NIL
       /\ Front(l) = fifo[l][1].loc
       /\ Front(l)[2] < chunks[Front(l)[1]].tail

\* "Never fails: chunks in use <= live orders <= max_orders"
\* (internals.hpp:66).  A chunk that was handed out is in one level or on the
\* free list, so the vector of chunks never has to grow and move the slots that
\* the book holds references to.
ChunksAreBounded ==
    LET inUse == UNION {Lists!ToSet(Chain(levels[l].head)) : l \in Levels}
        free == Lists!ToSet(Chain(freeChunk))
    IN  /\ inUse \cap free = {}
        /\ inUse \cup free = 0 .. (used - 1)
        /\ Cardinality(inUse) <= live
        /\ used <= MaxOrders

\* Each level's list can be walked from both ends: the tail is its last chunk,
\* prev undoes next, and every chunk carries its level.
ListsAreLinked ==
    \A l \in Levels :
       LET chain == Chain(levels[l].head)
       IN  /\ levels[l].tail = IF chain = <<>> THEN NIL
                               ELSE chain[Len(chain)]
           /\ \A k \in DOMAIN chain :
                 /\ chunks[chain[k]].level = l
                 /\ chunks[chain[k]].prev = IF k = 1 THEN NIL
                                            ELSE chain[k - 1]
============================================================================
