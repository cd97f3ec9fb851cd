---------------------------- MODULE RestoredBook ----------------------------
(***************************************************************************)
(* A book that is saved between two commands, lost, and made again by      *)
(* OrderBook::restore: every structure is built anew from the list of      *)
(* resting orders, in that order, and the commands go on.  The atomic book *)
(* of OrderBookRefinement lives through it and notices nothing.            *)
(***************************************************************************)
EXTENDS OrderBookRefinement

VARIABLE todo  \* the orders of the list still to be put to rest

\* resting_orders(): bids, then asks.
Listing ==
    LET listed(side) ==
          [i \in DOMAIN Resting[side] |->
             [id |-> Resting[side][i].id, side |-> side,
              price |-> Resting[side][i].price, qty |-> Resting[side][i].qty,
              tif |-> Resting[side][i].tif]]
    IN  listed("Bid") \o listed("Ask")

\* Mutant of SaveAndRestart: the map of the old book is kept.
SaveAndKeepMap ==
    /\ taker = NIL /\ todo = <<>>
    /\ todo' = Listing
    /\ queue' = [s \in Sides |-> [p \in Prices |-> <<>>]]
    /\ index' = [s \in Sides |-> {}]
    /\ total' = [s \in Sides |-> [p \in Prices |-> 0]]
    /\ slot' = [l \in Locs |-> NIL]
    /\ live' = 0
    /\ UNCHANGED <<map, taker, evs, seq, promise>>

\* The book is listed and lost; the new one is empty and takes over its number.
\* What clients were told last stays told.
SaveAndRestart ==
    /\ taker = NIL /\ todo = <<>>
    /\ todo' = Listing
    /\ queue' = [s \in Sides |-> [p \in Prices |-> <<>>]]
    /\ index' = [s \in Sides |-> {}]
    /\ total' = [s \in Sides |-> [p \in Prices |-> 0]]
    /\ slot' = [l \in Locs |-> NIL]
    /\ map' = [id \in Ids |-> NIL]
    /\ live' = 0
    /\ UNCHANGED <<taker, evs, seq, promise>>

\* Mutant of RestoreOne: the last place of the book is not used.
RestoreOneShort ==
    /\ todo # <<>>
    /\ IF live + 1 >= MaxOrders THEN todo' = <<>> /\ UNCHANGED book
       ELSE /\ \E l \in FreeLocs : Rest(l, Head(todo))
            /\ todo' = Tail(todo)
    /\ UNCHANGED <<taker, evs, seq, promise>>

\* One turn of the loop of restore(): the order rests, it is not matched.
RestoreOne ==
    /\ todo # <<>>
    /\ IF live >= MaxOrders THEN todo' = <<>> /\ UNCHANGED book
       ELSE /\ \E l \in FreeLocs : Rest(l, Head(todo))
            /\ todo' = Tail(todo)
    /\ UNCHANGED <<taker, evs, seq, promise>>

RestoredInit == JointInit /\ todo = <<>>

RestoredNext ==
    \/ todo = <<>> /\ JointNext /\ UNCHANGED todo
    \/ SaveAndRestart
    \/ RestoreOne

RestoredSpec == RestoredInit /\ [][RestoredNext]_<<vars, promise, todo>>

----------------------------------------------------------------------------

\* A book that was restored answers every later command as the book it replaces
\* would have: the same orders in the same priority, the same events with the
\* same numbers (spec/JOURNAL.md:65-70).
RestoredKeepsPromise == todo = <<>> => PromiseKept

\* What is still on the list agrees with what is at rest already: no id twice, nothing
\* that would trade, though restore() looks at neither.
RestoresWithoutMatching ==
    \A i \in DOMAIN todo :
      /\ map[todo[i].id] = NIL
      /\ ~WouldCross(todo[i].side, todo[i].price)
============================================================================
