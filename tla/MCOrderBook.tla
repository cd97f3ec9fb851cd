---------------------------- MODULE MCOrderBook ----------------------------
(***************************************************************************)
(* Instances of OrderBook for TLC.  Ids and locations are interchangeable, *)
(* so both may be permuted in runs that check safety only.                 *)
(***************************************************************************)
EXTENDS OrderBook

IdsAndLocs == Permutations(Ids) \cup Permutations(Locs)

\* What the book does next, apart from the events it has said: no guard reads
\* them.  Two states with the same view differ only in what was announced.
BookView == <<queue, index, total, slot, map, live, taker>>
============================================================================
