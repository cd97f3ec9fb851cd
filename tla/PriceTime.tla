----------------------------- MODULE PriceTime -----------------------------
(***************************************************************************)
(* Price-time matching in one piece: what becomes of a book when an order  *)
(* meets it, said without a loop.                                          *)
(*                                                                         *)
(* A book is a pair of sequences of resting orders, one per side, in       *)
(* priority order: best price first, oldest first at a price.  This is the *)
(* order resting_orders() lists them in.                                   *)
(***************************************************************************)
EXTENDS BookTypes, SequencesExt

\* Price p is one an order on `side` with that limit accepts to trade at.
Acceptable(side, limit, p) ==
    limit # NIL => IF side = "Bid" THEN p <= limit ELSE limit <= p

\* Price p has priority over price q on `side`, or is the same.
AtLeastAsGood(side, p, q) == IF side = "Bid" THEN q <= p ELSE p <= q

\* The quantity of the first n orders.
Ahead(orders, n) ==
    SumFunctionOnSet([i \in 1 .. n |-> orders[i].qty], 1 .. n)

\* How many orders of `opp` an order on `side` with that limit can reach: they
\* are the first ones.
Reach(side, limit, opp) ==
    Cardinality({i \in DOMAIN opp : Acceptable(side, limit, opp[i].price)})

\* What the orders in reach have.
InReach(side, limit, opp) == Ahead(opp, Reach(side, limit, opp))

\* What each order of `opp` gives to an order for qty: those ahead give first.
Fills(side, limit, qty, opp) ==
    LET reach == Reach(side, limit, opp)
    IN  [i \in DOMAIN opp |->
           IF i > reach \/ qty <= Ahead(opp, i - 1) THEN 0
           ELSE IF qty <= Ahead(opp, i) THEN qty - Ahead(opp, i - 1)
           ELSE opp[i].qty]

\* What is left of `opp`: the orders that are filled are its first ones.
AfterFills(opp, fills) ==
    LET filled == Cardinality({i \in DOMAIN opp : fills[i] = opp[i].qty})
    IN  [i \in 1 .. Len(opp) - filled |->
           [opp[i + filled] EXCEPT !.qty = @ - fills[i + filled]]]

FillEvents(id, opp, fills) ==
    FlattenSeq([i \in DOMAIN opp |->
       IF fills[i] = 0 THEN <<>>
       ELSE IF fills[i] < opp[i].qty
            THEN <<Trade(opp[i].id, id, opp[i].price, fills[i])>>
            ELSE <<Trade(opp[i].id, id, opp[i].price, fills[i]),
                   Closed(opp[i].id, "Filled")>>])

\* Order o joins the orders `own` of its side behind all that are as good.
Joined(side, own, o) ==
    LET ahead == {i \in DOMAIN own : AtLeastAsGood(side, own[i].price, o.price)}
    IN  InsertAt(own, Cardinality(ahead) + 1, o)

\* The book and the events that result when order t crosses the book b.
\* A replaced order always rests its remainder; a new one rests it only if it
\* is a limit order, good till cancelled or post-only.
Settled(b, t) ==
    LET opp == b[Opposite(t.side)]
        fills == Fills(t.side, t.limit, t.qty, opp)
        inReach == InReach(t.side, t.limit, opp)
        left == IF t.qty <= inReach THEN 0 ELSE t.qty - inReach
        crossed == [b EXCEPT ![Opposite(t.side)] = AfterFills(opp, fills)]
        rests == /\ left > 0
                 /\ \/ t.cmd = "replace"
                    \/ t.limit # NIL /\ t.tif \in {"Gtc", "PostOnly"}
        rest == [id |-> t.id, price |-> t.limit, qty |-> left, tif |-> t.tif]
        last == IF left = 0 THEN Closed(t.id, "Filled")
                ELSE IF ~rests THEN Closed(t.id, "Expired")
                ELSE IF t.cmd = "new" THEN Accepted(t.id, left)
                ELSE Replaced(t.id, t.limit, left)
    IN  [book |-> IF rests
                  THEN [crossed EXCEPT ![t.side] = Joined(t.side, @, rest)]
                  ELSE crossed,
         events |-> Append(FillEvents(t.id, opp, fills), last)]

----------------------------------------------------------------------------
(* The commands as functions: the book b and the events that a command     *)
(* makes of it.  `valid` is the set of prices the book admits, `room` the  *)
(* most orders it holds.                                                   *)

IdsOf(b, side) == {b[side][i].id : i \in DOMAIN b[side]}
LiveIds(b) == IdsOf(b, "Bid") \cup IdsOf(b, "Ask")

SideOf(b, id) == IF id \in IdsOf(b, "Bid") THEN "Bid" ELSE "Ask"
PlaceOf(b, id) ==
    CHOOSE i \in DOMAIN b[SideOf(b, id)] : b[SideOf(b, id)][i].id = id

Without(b, id) == [b EXCEPT ![SideOf(b, id)] = RemoveAt(@, PlaceOf(b, id))]

Refused(b, id, why) == [book |-> b, events |-> <<Rejected(id, why)>>]

\* A limit order would trade on entry.
WouldTrade(b, side, limit) == Reach(side, limit, b[Opposite(side)]) > 0

\* The opposite side cannot fill qty within the limit.
Short(b, side, limit, qty) == InReach(side, limit, b[Opposite(side)]) < qty

AfterNew(b, valid, room, id, side, limit, qty, tif) ==
    IF qty = 0 THEN Refused(b, id, "InvalidQty")
    ELSE IF limit # NIL /\ limit \notin valid THEN Refused(b, id, "InvalidPrice")
    ELSE IF id \in LiveIds(b) THEN Refused(b, id, "DuplicateOrderId")
    ELSE IF Cardinality(LiveIds(b)) >= room THEN Refused(b, id, "BookFull")
    ELSE IF limit # NIL /\ tif = "PostOnly" /\ WouldTrade(b, side, limit)
         THEN Refused(b, id, "PostOnlyWouldCross")
    ELSE IF limit # NIL /\ tif = "Fok" /\ Short(b, side, limit, qty)
         THEN Refused(b, id, "FokCannotFill")
    ELSE Settled(b, [cmd |-> "new", id |-> id, side |-> side, limit |-> limit,
                     qty |-> qty, tif |-> tif])

AfterCancel(b, id) ==
    IF id \notin LiveIds(b) THEN Refused(b, id, "UnknownOrderId")
    ELSE [book |-> Without(b, id), events |-> <<Closed(id, "Cancelled")>>]

AfterReplace(b, valid, id, price, qty) ==
    LET side == SideOf(b, id)
        o == b[side][PlaceOf(b, id)]
    IN  IF id \notin LiveIds(b) THEN Refused(b, id, "UnknownOrderId")
        ELSE IF qty = 0 THEN Refused(b, id, "InvalidQty")
        ELSE IF price \notin valid THEN Refused(b, id, "InvalidPrice")
        ELSE IF price = o.price /\ qty <= o.qty
             THEN [book |-> [b EXCEPT ![side][PlaceOf(b, id)].qty = qty],
                   events |-> <<Replaced(id, price, qty)>>]
             ELSE Settled(Without(b, id),
                          [cmd |-> "replace", id |-> id, side |-> side,
                           limit |-> price, qty |-> qty, tif |-> o.tif])
============================================================================
