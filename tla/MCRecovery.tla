----------------------------- MODULE MCRecovery -----------------------------
(***************************************************************************)
(* Instances of Recovery for TLC: commands chosen so that orders rest,     *)
(* queue, trade, are replaced and cancelled on two symbols.                *)
(***************************************************************************)
EXTENDS Recovery

On(sym, c) == [sym |-> sym, cmd |-> c]

\* Two bids at a price, a sale that fills one in part, or all of the other and
\* expires, and an order that moves and grows: a book of two orders is full.
Mixed ==
    {On(1, NewLimit(1, "Bid", 1, 12, "Gtc")),
     On(1, NewLimit(2, "Bid", 1, 1, "PostOnly")),
     On(1, NewLimit(3, "Ask", 1, 2, "Ioc")),
     On(1, ReplaceOf(2, 2, 2)),
     On(2, NewLimit(1, "Ask", 2, 1, "Gtc")),
     On(2, CancelOf(1))}

TwoOrders == BookConfig("Ladder", 1, 2, 2)
Same == {TwoOrders}

\* Ids of two digits, one the other's beginning, and a symbol 0 that nobody
\* uses.
Tearable ==
    {On(1, NewLimit(2, "Bid", 1, 2, "Gtc")),
     On(1, NewLimit(21, "Bid", 1, 1, "PostOnly")),
     On(1, CancelOf(21)),
     On(2, ReplaceOf(2, 1, 12))}

\* Two bids at a price, one of which is cancelled: enough for a snapshot to lose
\* an order that a later command names.  (A line cut in its symbol makes the book
\* of symbol 0.)
Losable ==
    {On(1, NewLimit(2, "Bid", 1, 2, "Gtc")),
     On(1, NewLimit(21, "Bid", 1, 1, "PostOnly")),
     On(1, CancelOf(2))}
============================================================================
