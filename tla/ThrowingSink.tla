---------------------------- MODULE ThrowingSink ----------------------------
(***************************************************************************)
(* A sink whose on_event() throws.  apply() has no handler: the exception  *)
(* leaves it where it is, the locals of the command are gone, and what was *)
(* done to the book by then stays done.  There is no model of what the     *)
(* caller does next: the system stops there.                               *)
(***************************************************************************)
EXTENDS OrderBookRefinement

VARIABLES
    thrown,  \* the call that threw: "trade" or "closed" in the loop of cross(),
             \* "last", the last one of a command, or "none"
    lost,    \* the taker when a call of the loop threw (history)
    before   \* the orders at rest when the command in progress began, or, in
             \* between, those at rest (history)

sink == <<thrown, lost, before>>

\* The event is counted and the sink called; that it threw ends the command.
Announce(es, call) ==
    /\ Emit(evs, es)
    /\ thrown' = call /\ lost' = taker
    /\ taker' = NIL
    /\ UNCHANGED <<before, promise>>

\* The call that announces a trade, before either order is touched.
ThrowAtTrade(bp) ==
    LET m == slot[Head(queue[Opposite(taker.side)][bp])]
        qty == IF taker.qty < m.qty THEN taker.qty ELSE m.qty
    IN  /\ Marketable(bp)
        /\ Announce(<<Trade(m.id, taker.id, bp, qty)>>, "trade")
        /\ UNCHANGED book

\* Mutant of ThrowAtClosed: the map entry is removed after the call.
ThrowBeforeRemove(bp) ==
    LET opp == Opposite(taker.side)
        l == Head(queue[opp][bp])
        m == slot[l]
    IN  /\ Marketable(bp) /\ m.qty <= taker.qty
        /\ Announce(<<Trade(m.id, taker.id, bp, m.qty), Closed(m.id, "Filled")>>,
                    "closed")
        /\ total' = TotalWith(opp, bp, -m.qty)
        /\ slot' = [slot EXCEPT ![l] = NIL]
        /\ queue' = [queue EXCEPT ![opp][bp] = Tail(@)]
        /\ live' = live - 1
        /\ UNCHANGED <<map, index>>

\* The call that closes a filled maker, which is gone from its level and from
\* the map; only the level itself, if empty, is still in the index.
ThrowAtClosed(bp) ==
    LET opp == Opposite(taker.side)
        l == Head(queue[opp][bp])
        m == slot[l]
    IN  /\ Marketable(bp) /\ m.qty <= taker.qty
        /\ Announce(<<Trade(m.id, taker.id, bp, m.qty), Closed(m.id, "Filled")>>,
                    "closed")
        /\ total' = TotalWith(opp, bp, -m.qty)
        /\ slot' = [slot EXCEPT ![l] = NIL]
        /\ queue' = [queue EXCEPT ![opp][bp] = Tail(@)]
        /\ live' = live - 1
        /\ map' = [map EXCEPT ![m.id] = NIL]
        /\ UNCHANGED index

\* A step of the book.  The last event of a command comes after all it does.
BookStep ==
    /\ thrown = "none"
    /\ JointNext
    /\ before' = IF taker' = NIL THEN Resting'
                 ELSE IF taker = NIL THEN Resting ELSE before
    /\ thrown' \in IF taker' = NIL THEN {"none", "last"} ELSE {"none"}
    /\ UNCHANGED lost

ThrowInit ==
    /\ JointInit
    /\ thrown = "none" /\ lost = NIL
    /\ before = Resting

ThrowNext ==
    \/ BookStep
    \/ /\ thrown = "none" /\ taker # NIL /\ taker.qty > 0
       /\ \E bp \in Prices : ThrowAtTrade(bp) \/ ThrowAtClosed(bp)

ThrowSpec == ThrowInit /\ [][ThrowNext]_<<vars, promise, sink>>

----------------------------------------------------------------------------

\* Until the sink throws the book keeps its promise.
PromiseUntilThrown == thrown = "none" => PromiseKept

\* The order of a replace that was in the loop when it threw.
Abandoned(id) == lost # NIL /\ lost.cmd = "replace" /\ lost.id = id

\* Every level that holds an order is in the index; a level in the index that holds
\* none is the best of its side, from which the last order had just been filled.
IndexKeepsLevels ==
    \A s \in Sides, p \in Prices :
      /\ queue[s][p] # <<>> => p \in index[s]
      /\ p \in index[s] /\ queue[s][p] = <<>> =>
           thrown = "closed" /\ s = Opposite(lost.side) /\ IsBest(s, p)

\* Wherever the sink threw, the levels, the slots, the totals and the count
\* agree, every live order can be found by its id, only the id of a replace
\* that was cut off names an order that is gone, and the index has every level
\* that holds an order and at most one, the best opposite one, that holds none.
SurvivesThrow ==
    thrown # "none" =>
      /\ IndexKeepsLevels
      /\ QueuedAreLive /\ LiveAreQueued /\ LiveAreMapped
      /\ TotalsMatch
      /\ live = Cardinality({l \in Locs : slot[l] # NIL})
      /\ \A id \in Ids : map[id] # NIL =>
           IF Abandoned(id) THEN slot[map[id]] = NIL
           ELSE slot[map[id]] # NIL /\ slot[map[id]].id = id

\* What an order of that id has at rest in the book b.
QtyAtRest(b, id) ==
    LET all == b.Bid \o b.Ask
    IN  SumFunctionOnSet([i \in DOMAIN all |-> all[i].qty],
                         {i \in DOMAIN all : all[i].id = id})

\* What the events say that order has sold or bought at rest, the event whose
\* delivery threw before it was booked excepted.
Announced(id) ==
    LET booked == {i \in DOMAIN evs : ~(thrown = "trade" /\ i = Len(evs))}
        told == {i \in booked : evs[i].ev = "trade" /\ evs[i].maker = id}
    IN  SumFunction([i \in told |-> evs[i].qty])

\* When the loop is cut off, every trade announced is booked, to the unit, except the one whose
\* announcement threw: that one was announced and did not happen.
TradesAreBooked ==
    lost # NIL =>
      \A id \in Ids \ {lost.id} :
        QtyAtRest(Resting, id) + Announced(id) = QtyAtRest(before, id)
============================================================================
