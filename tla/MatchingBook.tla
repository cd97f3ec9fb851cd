--------------------------- MODULE MatchingBook ----------------------------
(***************************************************************************)
(* What a book promises its clients: every command takes effect at once,   *)
(* and all its events come out together, numbered without gaps.  There is  *)
(* no store, no index and no loop here; OrderBook is shown to implement    *)
(* this module (OrderBookRefinement).                                      *)
(***************************************************************************)
EXTENDS PriceTime

CONSTANTS
    ValidPrices,  \* the prices a resting order may have
    MaxOrders,    \* the most orders that rest at a time
    SeqModulus    \* one more than the largest sequence number

VARIABLES
    orders,  \* [Sides -> Seq of orders], in priority order
    out,     \* the events of the last command
    seq      \* the sequence number of the last event

vars == <<orders, out, seq>>

Init ==
    /\ orders = [s \in Sides |-> <<>>]
    /\ out = <<>>
    /\ seq = 0

\* The command takes effect: `after` is the book and the events it makes.
Take(after) ==
    /\ orders' = after.book
    /\ out' = after.events
    /\ seq' = (seq + Len(after.events)) % SeqModulus

New(id, side, limit, qty, tif) ==
    Take(AfterNew(orders, ValidPrices, MaxOrders, id, side, limit, qty, tif))

Cancel(id) == Take(AfterCancel(orders, id))

Replace(id, price, qty) == Take(AfterReplace(orders, ValidPrices, id, price, qty))

Next ==
    \/ \E id \in Ids, side \in Sides, limit \in CmdPrices \cup {NIL},
          qty \in CmdQtys, tif \in Tifs : New(id, side, limit, qty, tif)
    \/ \E id \in Ids : Cancel(id)
    \/ \E id \in Ids, price \in CmdPrices, qty \in CmdQtys :
          Replace(id, price, qty)

Spec == Init /\ [][Next]_vars
============================================================================
