------------------------ MODULE OrderBookRefinement ------------------------
(***************************************************************************)
(* OrderBook keeps the promises of MatchingBook: the command loop, seen    *)
(* from outside, is one atomic step per command.                           *)
(*                                                                         *)
(* The two books run side by side.  The atomic book takes its step when    *)
(* the loop begins a command, on the same command; `orders`, `out` and     *)
(* `number` are its state, history variables that the loop never reads.    *)
(* What relates the two is the refinement mapping: while a command         *)
(* crosses, the mapped book is the one the rest of the command will leave  *)
(* behind, and the mapped events are those emitted so far followed by      *)
(* those to come.                                                          *)
(***************************************************************************)
EXTENDS OrderBook

VARIABLES orders, out, number

promise == <<orders, out, number>>

Atomic == INSTANCE MatchingBook WITH ValidPrices <- Prices, seq <- number

----------------------------------------------------------------------------
(* The refinement mapping.                                                 *)

\* Where the orders of a side are: a level, and a place in its queue.
Places(side) == UNION {{p} \X DOMAIN queue[side][p] : p \in index[side]}

\* depth() lists the best level first, for_each() the oldest order.
Precedes(side, a, b) ==
    IF a[1] = b[1] THEN a[2] < b[2] ELSE Atomic!AtLeastAsGood(side, a[1], b[1])

AsOrder(l) == [id |-> slot[l].id, price |-> slot[l].price,
               qty |-> slot[l].qty, tif |-> slot[l].tif]

\* resting_orders() of one side: best level first, FIFO within a level.
RestingOrders(side) ==
    LET nth(n) == CHOOSE a \in Places(side) :
                    Cardinality({b \in Places(side) : Precedes(side, b, a)}) = n - 1
    IN  [n \in 1 .. Cardinality(Places(side)) |->
           AsOrder(queue[side][nth(n)[1]][nth(n)[2]])]

Resting == [Bid |-> RestingOrders("Bid"), Ask |-> RestingOrders("Ask")]

\* What the command in progress has yet to do.
ToCome == Atomic!Settled(Resting, taker)

\* The loop keeps the promise at every step: what it has done and what it has
\* yet to do add up to the atomic command, in the book it leaves (prices,
\* quantities, time priority), in the events and their order, and in their
\* numbers.
PromiseKept ==
    IF taker = NIL
    THEN Resting = orders /\ evs = out /\ seq = number
    ELSE /\ ToCome.book = orders
         /\ evs \o ToCome.events = out
         /\ (seq + Len(ToCome.events)) % SeqModulus = number

----------------------------------------------------------------------------
(* The two books on the same commands.                                     *)

JointInit == Init /\ Atomic!Init

JointNew ==
    \E id \in Ids, side \in Sides, limit \in CmdPrices \cup {NIL},
       qty \in CmdQtys, tif \in Tifs :
          /\ \/ RejectNew(id, side, limit, qty, tif)
             \/ StartNew(id, side, limit, qty, tif)
          /\ Atomic!New(id, side, limit, qty, tif)

JointCancel ==
    \E id \in Ids :
       (RejectCancel(id) \/ Cancel(id)) /\ Atomic!Cancel(id)

JointReplace ==
    \E id \in Ids, price \in CmdPrices, qty \in CmdQtys :
          /\ \/ RejectReplace(id, price, qty)
             \/ ReplaceInPlace(id, price, qty)
             \/ StartReplace(id, price, qty)
          /\ Atomic!Replace(id, price, qty)

JointLoop == (Fill \/ Finish) /\ UNCHANGED promise

JointNext == JointNew \/ JointCancel \/ JointReplace \/ JointLoop

JointSpec == JointInit /\ [][JointNext]_<<vars, promise>>

\* Ids and locations are interchangeable.
IdsAndLocs == Permutations(Ids) \cup Permutations(Locs)
============================================================================
