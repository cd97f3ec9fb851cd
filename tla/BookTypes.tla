----------------------------- MODULE BookTypes -----------------------------
(***************************************************************************)
(* The vocabulary shared by every model of a book: sides, order types,     *)
(* times in force, the orders at rest and the events a book emits          *)
(* (include/matcher/types.hpp).                                            *)
(*                                                                         *)
(* A Price is an integer tick (int64_t), a Qty an unsigned number of width *)
(* 64: every quantity is kept modulo QtyMod, which is 2^64 in the build    *)
(* and small in the instances TLC checks.  NIL stands for "no value": the  *)
(* limit of a market order, the location of an absent map entry, a dead    *)
(* slot.                                                                   *)
(***************************************************************************)
EXTENDS Integers, Sequences, FiniteSets

CONSTANTS
    Ids,         \* the order ids clients use
    CmdPrices,   \* the prices clients send, valid or not
    CmdQtys,     \* the quantities clients send, 0 among them
    QtyMod,      \* one more than the largest Qty
    NIL          \* no value

ASSUME PricesAreTicks == CmdPrices \subseteq Int
ASSUME QtyWidth == QtyMod \in Nat \ {0} /\ CmdQtys \subseteq 0 .. (QtyMod - 1)

Sides == {"Bid", "Ask"}
Opposite(side) == IF side = "Bid" THEN "Ask" ELSE "Bid"

Tifs == {"Gtc", "Ioc", "Fok", "PostOnly"}

\* The quantities an order can rest with: a slot with qty 0 is dead.
LiveQtys == 1 .. (QtyMod - 1)

Rejected(id, why) == [ev |-> "rejected", id |-> id, reason |-> why]
Accepted(id, leaves) == [ev |-> "accepted", id |-> id, leaves |-> leaves]
Replaced(id, price, qty) ==
    [ev |-> "replaced", id |-> id, price |-> price, qty |-> qty]
Trade(maker, taker, price, qty) ==
    [ev |-> "trade", maker |-> maker, taker |-> taker,
     price |-> price, qty |-> qty]
Closed(id, why) == [ev |-> "closed", id |-> id, reason |-> why]

RejectReasons == {"InvalidQty", "InvalidPrice", "DuplicateOrderId",
                  "UnknownOrderId", "PostOnlyWouldCross", "FokCannotFill",
                  "BookFull"}
CloseReasons == {"Filled", "Cancelled", "Expired"}

ASSUME NilIsNoValue == NIL \notin Ids \cup Int \cup RejectReasons

Events ==
    [ev : {"rejected"}, id : Ids, reason : RejectReasons]
      \cup [ev : {"accepted"}, id : Ids, leaves : LiveQtys]
      \cup [ev : {"replaced"}, id : Ids, price : CmdPrices, qty : LiveQtys]
      \cup [ev : {"trade"}, maker : Ids, taker : Ids, price : CmdPrices,
            qty : LiveQtys]
      \cup [ev : {"closed"}, id : Ids, reason : CloseReasons]
============================================================================
