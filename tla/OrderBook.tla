----------------------------- MODULE OrderBook -----------------------------
(***************************************************************************)
(* The single-writer price-time book of include/matcher/book.hpp: its      *)
(* order store, its id map, its two price indexes, and the command loop    *)
(* that crosses an incoming order against the opposite side.               *)
(*                                                                         *)
(* A command that matches runs in several steps.  `taker` is NIL between   *)
(* commands; while a command crosses, it holds the locals of new_order()   *)
(* or replace(), and each iteration of the loop in cross() is one step.    *)
(* The calls to the sink are part of the steps that make them; a sink only *)
(* receives events, it does not read the book back.                        *)
(*                                                                         *)
(* The store is kept at the level the book sees: a location is live or     *)
(* dead, and a level is the FIFO of its live locations.  A slot that holds *)
(* NIL is one whose qty is 0.  Store, OrderMap and the two price indexes   *)
(* have data structures of their own that this module does not open.       *)
(***************************************************************************)
EXTENDS BookTypes, SequencesExt

CONSTANTS
    Locs,        \* chunk << 3 | slot: where an order can be stored
    IndexKind,   \* "Ladder" or "Tree"
    PriceMin,    \* BookConfig::price_min
    PriceMax,    \* BookConfig::price_max
    PriceLimit,  \* INT64_MAX
    MaxOrders,   \* BookConfig::max_orders
    SeqModulus   \* one more than the largest sequence number

ASSUME KindIsKnown == IndexKind \in {"Ladder", "Tree"}
ASSUME RangeIsGiven == PriceMin \in Int /\ PriceMax \in Int /\ PriceLimit \in Nat
ASSUME PricesFit == CmdPrices \subseteq -(PriceLimit + 1) .. PriceLimit
ASSUME StoreIsBigEnough ==
    /\ IsFiniteSet(Locs) /\ NIL \notin Locs
    /\ MaxOrders \in Nat /\ MaxOrders <= Cardinality(Locs)
ASSUME SeqWidth == SeqModulus \in Nat \ {0}

VARIABLES
    queue,   \* [Sides -> [Prices -> Seq(Locs)]]: live locations, oldest first
    index,   \* [Sides -> SUBSET Prices]: occupancy bits or keys of std::map
    total,   \* [Sides -> [Prices -> Qty]]: Level::total; a tree discards that of
             \* an erased level, which TotalsMatch shows to be 0
    slot,    \* [Locs -> Orders \cup {NIL}]: the order stored at a location
    map,     \* [Ids -> Locs \cup {NIL}]: the OrderMap
    live,    \* Store::live
    taker,   \* the order that is crossing, or NIL between commands
    evs,     \* the events of the current (or last) command, in emission order
    seq      \* seq_, the sequence number of the last event

book == <<queue, index, total, slot, map, live>>
vars == <<queue, index, total, slot, map, live, taker, evs, seq>>

----------------------------------------------------------------------------
(* Prices and the index.                                                   *)

PriceOK(p) == IF IndexKind = "Tree" THEN p > 0 ELSE p \in PriceMin .. PriceMax

\* The prices a level can have.
Prices == {p \in CmdPrices : PriceOK(p)}

Orders == [id : Ids, side : Sides, price : Prices, qty : LiveQtys, tif : Tifs]

\* A replacing order always has a limit.
Takers ==
    [cmd : {"new"}, id : Ids, side : Sides, limit : Prices \cup {NIL},
     qty : 0 .. (QtyMod - 1), tif : Tifs]
      \cup [cmd : {"replace"}, id : Ids, side : Sides, limit : Prices,
            qty : 0 .. (QtyMod - 1), tif : Tifs]

ASSUME NilIsNoRecord == NIL \notin Orders \cup Takers

\* best_price(): the highest bid, the lowest ask.
IsBest(side, p) ==
    /\ p \in index[side]
    /\ \A q \in index[side] : IF side = "Bid" THEN q <= p ELSE p <= q

\* Mutant of Within: the bound itself is out of reach.
StrictlyWithin(side, limit, bp) ==
    limit # NIL => IF side = "Bid" THEN bp < limit ELSE bp > limit

\* The bound check of cross(); NIL is a market order, which has no bound.
Within(side, limit, bp) ==
    limit # NIL => IF side = "Bid" THEN bp <= limit ELSE bp >= limit

\* Mutant of WouldCross: an order at the best opposite price may still post.
WouldCrossDeeper(side, price) ==
    \E bp \in index[Opposite(side)] :
        /\ IsBest(Opposite(side), bp)
        /\ IF side = "Bid" THEN price > bp ELSE price < bp

\* would_cross(): the best opposite price is within the order's own.
WouldCross(side, price) ==
    \E bp \in index[Opposite(side)] :
        IsBest(Opposite(side), bp) /\ Within(side, price, bp)

\* The half-range bounds fillable() uses where a tree has no range of its own.
LowEnd == IF IndexKind = "Tree" THEN -((PriceLimit + 1) \div 2) ELSE PriceMin
HighEnd == IF IndexKind = "Tree" THEN PriceLimit \div 2 ELSE PriceMax

\* Mutant of Fillable: only the best level counts.
FillableAtBest(side, price) ==
    SumFunctionOnSet(total[Opposite(side)],
                     {p \in index[Opposite(side)] :
                        IsBest(Opposite(side), p) /\ Within(side, price, p)})

\* fillable(): the level totals of the opposite side from its best price to
\* the limit, summed in a Qty.
Fillable(side, price) ==
    LET reach == IF side = "Bid" THEN LowEnd .. price ELSE price .. HighEnd
    IN  SumFunctionOnSet(total[Opposite(side)],
                         index[Opposite(side)] \cap reach) % QtyMod

----------------------------------------------------------------------------
(* The order store and the levels.                                         *)

FreeLocs == {l \in Locs : slot[l] = NIL}

\* Mutants of TotalWith: arithmetic that saturates instead of wrapping, at both
\* ends or only when something is added, and a total wider than a Qty.
TotalClamped(side, p, d) ==
    [total EXCEPT ![side][p] = IF @ + d < 0 THEN 0
                               ELSE IF @ + d < QtyMod THEN @ + d
                               ELSE QtyMod - 1]
TotalTopsOut(side, p, d) ==
    [total EXCEPT ![side][p] = IF @ + d < QtyMod THEN (@ + d) % QtyMod
                               ELSE QtyMod - 1]
TotalWide(side, p, d) == [total EXCEPT ![side][p] = @ + d]

\* The totals after d is added to (or, negative, taken from) one level.
TotalWith(side, p, d) == [total EXCEPT ![side][p] = (@ + d) % QtyMod]

\* The queues after location l joins the tail of a level.  The first form is a
\* mutant: it jumps the queue.
JoinedAtHead(side, p, l) == [queue EXCEPT ![side][p] = <<l>> \o @]

Joined(side, p, l) == [queue EXCEPT ![side][p] = Append(@, l)]

\* Mutant of IndexAfter: the level leaves the index with orders still in it.
IndexDropped(side, p, q) == [index EXCEPT ![side] = @ \ {p}]

\* The index after unlink_level(p) on a level whose queue is now q.
IndexAfter(side, p, q) ==
    IF q = <<>> THEN [index EXCEPT ![side] = @ \ {p}] ELSE index

\* Store::unlink and unlink_level: the live order at l leaves its level.
Unlink(l) ==
    LET o == slot[l]
        q == queue[o.side][o.price]
    IN  \E i \in DOMAIN q :
          /\ q[i] = l
          /\ queue' = [queue EXCEPT ![o.side][o.price] = RemoveAt(q, i)]
          /\ index' = IndexAfter(o.side, o.price, RemoveAt(q, i))
          /\ total' = TotalWith(o.side, o.price, -o.qty)
          /\ slot' = [slot EXCEPT ![l] = NIL]
          /\ live' = live - 1

\* level_insert, Store::push and the map write: order o rests at location l,
\* at the tail of its level.
Rest(l, o) ==
    /\ slot[l] = NIL
    /\ slot' = [slot EXCEPT ![l] = o]
    /\ queue' = Joined(o.side, o.price, l)
    /\ index' = [index EXCEPT ![o.side] = @ \cup {o.price}]
    /\ total' = TotalWith(o.side, o.price, o.qty)
    /\ live' = live + 1
    /\ map' = [map EXCEPT ![o.id] = l]

\* Mutant of Emit: the events of a turn of the loop replace those before.
EmitAfresh(before, es) ==
    /\ evs' = es
    /\ seq' = (seq + Len(es)) % SeqModulus

\* The events es follow the events before; each takes the next sequence number.
Emit(before, es) ==
    /\ evs' = before \o es
    /\ seq' = (seq + Len(es)) % SeqModulus

Init ==
    /\ queue = [s \in Sides |-> [p \in Prices |-> <<>>]]
    /\ index = [s \in Sides |-> {}]
    /\ total = [s \in Sides |-> [p \in Prices |-> 0]]
    /\ slot = [l \in Locs |-> NIL]
    /\ map = [id \in Ids |-> NIL]
    /\ live = 0
    /\ taker = NIL
    /\ evs = <<>>
    /\ seq = 0

----------------------------------------------------------------------------
(* new                                                                     *)

\* No room for another order.  The first form is a mutant: off by one.
BookIsOverfull == live > MaxOrders
BookIsFull == live >= MaxOrders

\* The validation of new_order(), in its strict order; NIL when it passes.
NewFault(id, side, limit, qty, tif) ==
    IF qty = 0 THEN "InvalidQty"
    ELSE IF limit # NIL /\ ~PriceOK(limit) THEN "InvalidPrice"
    ELSE IF map[id] # NIL THEN "DuplicateOrderId"
    ELSE IF BookIsFull THEN "BookFull"
    ELSE IF limit # NIL /\ tif = "PostOnly" /\ WouldCross(side, limit)
         THEN "PostOnlyWouldCross"
    ELSE IF limit # NIL /\ tif = "Fok" /\ Fillable(side, limit) < qty
         THEN "FokCannotFill"
    ELSE NIL

RejectNew(id, side, limit, qty, tif) ==
    LET fault == NewFault(id, side, limit, qty, tif)
    IN  /\ taker = NIL
        /\ fault # NIL
        /\ Emit(<<>>, <<Rejected(id, fault)>>)
        /\ UNCHANGED <<book, taker>>

StartNew(id, side, limit, qty, tif) ==
    /\ taker = NIL
    /\ NewFault(id, side, limit, qty, tif) = NIL
    /\ taker' = [cmd |-> "new", id |-> id, side |-> side, limit |-> limit,
                 qty |-> qty, tif |-> tif]
    /\ Emit(<<>>, <<>>)
    /\ UNCHANGED book

----------------------------------------------------------------------------
(* cancel                                                                  *)

RejectCancel(id) ==
    /\ taker = NIL
    /\ map[id] = NIL
    /\ Emit(<<>>, <<Rejected(id, "UnknownOrderId")>>)
    /\ UNCHANGED <<book, taker>>

Cancel(id) ==
    /\ taker = NIL
    /\ map[id] # NIL
    /\ Unlink(map[id])
    /\ map' = [map EXCEPT ![id] = NIL]
    /\ Emit(<<>>, <<Closed(id, "Cancelled")>>)
    /\ UNCHANGED taker

----------------------------------------------------------------------------
(* replace                                                                 *)

\* Mutant of ReplaceFault: the quantity is looked at before the id.
QtyFaultFirst(id, price, qty) ==
    IF qty = 0 THEN "InvalidQty"
    ELSE IF map[id] = NIL THEN "UnknownOrderId"
    ELSE IF ~PriceOK(price) THEN "InvalidPrice"
    ELSE NIL

\* The validation of replace(), in its order; NIL when it passes.
ReplaceFault(id, price, qty) ==
    IF map[id] = NIL THEN "UnknownOrderId"
    ELSE IF qty = 0 THEN "InvalidQty"
    ELSE IF ~PriceOK(price) THEN "InvalidPrice"
    ELSE NIL

RejectReplace(id, price, qty) ==
    LET fault == ReplaceFault(id, price, qty)
    IN  /\ taker = NIL
        /\ fault # NIL
        /\ Emit(<<>>, <<Rejected(id, fault)>>)
        /\ UNCHANGED <<book, taker>>

\* Same price and no more quantity: the order keeps its place in the queue.
KeepsPriority(o, price, qty) == price = o.price /\ qty <= o.qty

ReplaceInPlace(id, price, qty) ==
    LET l == map[id]
        o == slot[l]
    IN  /\ taker = NIL
        /\ ReplaceFault(id, price, qty) = NIL
        /\ KeepsPriority(o, price, qty)
        /\ total' = TotalWith(o.side, price, qty - o.qty)
        /\ slot' = [slot EXCEPT ![l] = [o EXCEPT !.qty = qty]]
        /\ Emit(<<>>, <<Replaced(id, price, qty)>>)
        /\ UNCHANGED <<queue, index, map, live, taker>>

\* The order leaves its level and crosses at the new price.  Its map entry
\* stays, so that the id stays reserved, and names a dead location meanwhile.
StartReplace(id, price, qty) ==
    LET o == slot[map[id]]
    IN  /\ taker = NIL
        /\ ReplaceFault(id, price, qty) = NIL
        /\ ~KeepsPriority(o, price, qty)
        /\ Unlink(map[id])
        /\ taker' = [cmd |-> "replace", id |-> id, side |-> o.side,
                     limit |-> price, qty |-> qty, tif |-> o.tif]
        /\ Emit(<<>>, <<>>)
        /\ UNCHANGED map
----------------------------------------------------------------------------
(* cross(): one iteration of its inner loop per step.                      *)

\* Level bp is the one the loop of cross() matches against now.
Marketable(bp) ==
    LET opp == Opposite(taker.side)
    IN  IsBest(opp, bp) /\ Within(taker.side, taker.limit, bp)
          /\ queue[opp][bp] # <<>>

\* Mutant of FillMaker: the filled order stays at the head of its level.
FillMakerStays(bp) ==
    LET opp == Opposite(taker.side)
        l == Head(queue[opp][bp])
        m == slot[l]
    IN  /\ m.qty <= taker.qty
        /\ taker' = [taker EXCEPT !.qty = @ - m.qty]
        /\ total' = TotalWith(opp, bp, -m.qty)
        /\ slot' = [slot EXCEPT ![l].qty = 0]
        /\ live' = live - 1
        /\ map' = [map EXCEPT ![m.id] = NIL]
        /\ Emit(evs, <<Trade(m.id, taker.id, bp, m.qty),
                       Closed(m.id, "Filled")>>)
        /\ UNCHANGED <<queue, index>>

\* The oldest order of the level is no larger than the taker: it is filled,
\* dies, and leaves its level, its chunk and the map.
FillMaker(bp) ==
    LET opp == Opposite(taker.side)
        l == Head(queue[opp][bp])
        m == slot[l]
    IN  /\ m.qty <= taker.qty
        /\ taker' = [taker EXCEPT !.qty = @ - m.qty]
        /\ total' = TotalWith(opp, bp, -m.qty)
        /\ slot' = [slot EXCEPT ![l] = NIL]
        /\ queue' = [queue EXCEPT ![opp][bp] = Tail(@)]
        /\ index' = IndexAfter(opp, bp, Tail(queue[opp][bp]))
        /\ live' = live - 1
        /\ map' = [map EXCEPT ![m.id] = NIL]
        /\ Emit(evs, <<Trade(m.id, taker.id, bp, m.qty),
                       Closed(m.id, "Filled")>>)

\* The oldest order of the level is larger than the taker: it stays, smaller.
FillTaker(bp) ==
    LET opp == Opposite(taker.side)
        l == Head(queue[opp][bp])
        m == slot[l]
    IN  /\ m.qty > taker.qty
        /\ taker' = [taker EXCEPT !.qty = 0]
        /\ total' = TotalWith(opp, bp, -taker.qty)
        /\ slot' = [slot EXCEPT ![l] = [m EXCEPT !.qty = @ - taker.qty]]
        /\ Emit(evs, <<Trade(m.id, taker.id, bp, taker.qty)>>)
        /\ UNCHANGED <<queue, index, map, live>>

Fill ==
    /\ taker # NIL
    /\ taker.qty > 0
    /\ \E bp \in index[Opposite(taker.side)] :
          Marketable(bp) /\ (FillMaker(bp) \/ FillTaker(bp))

\* cross() returns: nothing is left to fill, or no level is in reach.
Crossed ==
    /\ taker # NIL
    /\ \/ taker.qty = 0
       \/ \A bp \in index[Opposite(taker.side)] : ~Marketable(bp)

----------------------------------------------------------------------------
(* What becomes of the remainder.                                          *)

Remainder(price) ==
    [id |-> taker.id, side |-> taker.side, price |-> price,
     qty |-> taker.qty, tif |-> taker.tif]

\* Only a limit order that is good till cancelled or post-only may rest.
MayRest(t) == t.limit # NIL /\ t.tif \in {"Gtc", "PostOnly"}

FinishNewFilled ==
    /\ Crossed /\ taker.cmd = "new" /\ taker.qty = 0
    /\ Emit(evs, <<Closed(taker.id, "Filled")>>)
    /\ taker' = NIL
    /\ UNCHANGED book

FinishNewRests ==
    /\ Crossed /\ taker.cmd = "new" /\ taker.qty > 0
    /\ MayRest(taker)
    /\ \E l \in FreeLocs : Rest(l, Remainder(taker.limit))
    /\ Emit(evs, <<Accepted(taker.id, taker.qty)>>)
    /\ taker' = NIL

FinishNewExpires ==
    /\ Crossed /\ taker.cmd = "new" /\ taker.qty > 0
    /\ ~MayRest(taker)
    /\ Emit(evs, <<Closed(taker.id, "Expired")>>)
    /\ taker' = NIL
    /\ UNCHANGED book

\* Mutant of FinishReplaceFilled: the id stays in the map.
FinishReplaceKeepsEntry ==
    /\ Crossed /\ taker.cmd = "replace" /\ taker.qty = 0
    /\ Emit(evs, <<Closed(taker.id, "Filled")>>)
    /\ taker' = NIL
    /\ UNCHANGED book

FinishReplaceFilled ==
    /\ Crossed /\ taker.cmd = "replace" /\ taker.qty = 0
    /\ map' = [map EXCEPT ![taker.id] = NIL]
    /\ Emit(evs, <<Closed(taker.id, "Filled")>>)
    /\ taker' = NIL
    /\ UNCHANGED <<queue, index, total, slot, live>>

FinishReplaceRests ==
    /\ Crossed /\ taker.cmd = "replace" /\ taker.qty > 0
    /\ \E l \in FreeLocs : Rest(l, Remainder(taker.limit))
    /\ Emit(evs, <<Replaced(taker.id, taker.limit, taker.qty)>>)
    /\ taker' = NIL

----------------------------------------------------------------------------

NewCommand ==
    \E id \in Ids, side \in Sides, limit \in CmdPrices \cup {NIL},
       qty \in CmdQtys, tif \in Tifs :
          \/ RejectNew(id, side, limit, qty, tif)
          \/ StartNew(id, side, limit, qty, tif)

CancelCommand == \E id \in Ids : RejectCancel(id) \/ Cancel(id)

ReplaceCommand ==
    \E id \in Ids, price \in CmdPrices, qty \in CmdQtys :
          \/ RejectReplace(id, price, qty)
          \/ ReplaceInPlace(id, price, qty)
          \/ StartReplace(id, price, qty)

Command == NewCommand \/ CancelCommand \/ ReplaceCommand

Finish ==
    \/ FinishNewFilled
    \/ FinishNewRests
    \/ FinishNewExpires
    \/ FinishReplaceFilled
    \/ FinishReplaceRests

Next == Command \/ Fill \/ Finish

\* apply() is synchronous: once a command has begun, its steps are taken one
\* after the other on the writer's thread.
Spec == Init /\ [][Next]_vars

----------------------------------------------------------------------------
(* Safety.                                                                 *)

TypeOK ==
    /\ queue \in [Sides -> [Prices -> Seq(Locs)]]
    /\ index \in [Sides -> SUBSET Prices]
    /\ total \in [Sides -> [Prices -> 0 .. (QtyMod - 1)]]
    /\ slot \in [Locs -> Orders \cup {NIL}]
    /\ map \in [Ids -> Locs \cup {NIL}]
    /\ live \in 0 .. MaxOrders
    /\ taker \in Takers \cup {NIL}
    /\ evs \in Seq(Events)
    /\ seq \in 0 .. (SeqModulus - 1)

\* The book is never crossed, between commands or inside one: every resting
\* bid is below every resting ask.  restore() rests snapshot orders without
\* matching them because of it (spec/JOURNAL.md:65-67).
NotCrossed ==
    \A bid \in index["Bid"], ask \in index["Ask"] : bid < ask

\* A price is in the index exactly when its level has an order, whatever mix
\* of fills, cancels and replaces emptied or filled the level: best_price(),
\* depth() and sum_range() only look at prices the index names.
IndexExact ==
    \A s \in Sides, p \in Prices : p \in index[s] <=> queue[s][p] # <<>>

QueuedAreLive ==
    \A s \in Sides, p \in Prices : \A i \in DOMAIN queue[s][p] :
       LET l == queue[s][p][i]
       IN  /\ slot[l] # NIL
           /\ slot[l].side = s /\ slot[l].price = p
           /\ \A j \in DOMAIN queue[s][p] : queue[s][p][j] = l => j = i

LiveAreQueued ==
    \A l \in Locs : slot[l] # NIL =>
       \E i \in DOMAIN queue[slot[l].side][slot[l].price] :
          queue[slot[l].side][slot[l].price][i] = l

LiveAreMapped == \A l \in Locs : slot[l] # NIL => map[slot[l].id] = l

\* The order that has left its level and may come back.
Replacing(id) == taker # NIL /\ taker.cmd = "replace" /\ taker.id = id

MappedAreLive ==
    \A id \in Ids : map[id] # NIL =>
       IF Replacing(id) THEN slot[map[id]] = NIL
       ELSE slot[map[id]] # NIL /\ slot[map[id]].id = id

TakerIsReserved ==
    taker # NIL => (map[taker.id] # NIL <=> taker.cmd = "replace")

\* The order map, the slots and the levels describe the same orders, each
\* once.  The only entry that names a dead location is that of the order a
\* replace has taken out and not yet put back, and its id stays reserved.
LocsAgree ==
    /\ QueuedAreLive
    /\ LiveAreQueued
    /\ LiveAreMapped
    /\ MappedAreLive
    /\ TakerIsReserved

\* Store::live counts the live orders, and a replace that is crossing has
\* room to put its order back: push never needs a location it cannot have.
LiveExact ==
    /\ live = Cardinality({l \in Locs : slot[l] # NIL})
    /\ live <= MaxOrders
    /\ taker # NIL => live < MaxOrders

\* What each location has left to trade.
QtyAt == [l \in Locs |-> IF slot[l] = NIL THEN 0 ELSE slot[l].qty]

\* Every level total is the sum of its orders' quantities, as a Qty.
TotalsMatch ==
    \A s \in Sides, p \in Prices :
       total[s][p] = SumFunctionOnSet(QtyAt, ToSet(queue[s][p])) % QtyMod

\* The live orders of the opposite side within an order's limit.
InReach(side, limit) ==
    {l \in Locs : /\ slot[l] # NIL
                  /\ slot[l].side = Opposite(side)
                  /\ Within(side, limit, slot[l].price)}

\* What the opposite side really offers an order within its limit: live
\* quantities, not level totals, and no wrap.
Offered(side, limit) == SumFunctionOnSet(QtyAt, InReach(side, limit))

\* A fill-or-kill order that was let in is filled to the end: at every step
\* the book still offers what the order still wants, even when level totals
\* have wrapped.
FokNeverStarves ==
    taker # NIL /\ taker.cmd = "new" /\ taker.tif = "Fok" /\ taker.limit # NIL
      => taker.qty <= Offered(taker.side, taker.limit)

\* The trades of the command in progress, or of the last one.
Trades == {i \in DOMAIN evs : evs[i].ev = "trade"}

\* The loop of cross() meets no order twice: what it has traded with is gone
\* while it goes on.  So it makes no more turns than there are orders opposite,
\* and a filled order left at the head of its level would break that.
MakersMetOnce ==
    /\ \A i, j \in Trades : evs[i].maker = evs[j].maker => i = j
    /\ taker # NIL /\ taker.qty > 0 =>
         \A i \in Trades : map[evs[i].maker] = NIL

\* A new post-only order never takes: no level is in reach while it crosses.
PostOnlyNeverTakes ==
    taker # NIL /\ taker.cmd = "new" /\ taker.tif = "PostOnly"
        /\ taker.limit # NIL
      => Offered(taker.side, taker.limit) = 0

\* A fill-or-kill order is refused only when the book really offers less than
\* it wants (spec/SPEC.md:70, :109-111).
FokRefusedOnlyWhenShort ==
    taker = NIL =>
      \A id \in Ids, side \in Sides, limit \in Prices, qty \in CmdQtys :
         NewFault(id, side, limit, qty, "Fok") = "FokCannotFill"
           => Offered(side, limit) < qty

\* The position of location l in queue q.
Position(q, l) == CHOOSE i \in DOMAIN q : q[i] = l

\* Time priority: orders that stay at a level keep their order, and an order
\* that joins a level joins behind all that were there.
FifoKept ==
    \A s \in Sides, p \in Prices :
       LET old == queue[s][p]
           new == queue'[s][p]
       IN  \A i, j \in DOMAIN new :
              i < j /\ new[j] \in ToSet(old)
                => /\ new[i] \in ToSet(old)
                   /\ Position(old, new[i]) < Position(old, new[j])

FifoPreserved == [][FifoKept]_vars

============================================================================
