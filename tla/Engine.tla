------------------------------- MODULE Engine -------------------------------
(***************************************************************************)
(* The multi-symbol router of include/matcher/engine.hpp: a book per live  *)
(* symbol, made on first use, and events tagged with symbol and number.    *)
(*                                                                         *)
(* A book is [cfg, orders, seq], its orders as in PriceTime: a command is  *)
(* synchronous, so between commands a book is what MatchingBook says it    *)
(* is, which OrderBookRefinement shows.  An engine is [cfg, books], books  *)
(* a function over the live symbols.                                       *)
(***************************************************************************)
EXTENDS PriceTime, CommandLine

\* BookConfig: the index kind, the range of a ladder, max_orders.
BookConfig(index, min, max, room) ==
    [index |-> index, min |-> min, max |-> max, room |-> room]

DefaultConfig == BookConfig("Ladder", 0, 1000000, 65536)

\* The prices a book with that configuration admits.
Admitted(cfg) ==
    {p \in Int : IF cfg.index = "Tree" THEN p > 0
                 ELSE cfg.min <= p /\ p <= cfg.max}

NewBook(cfg) ==
    [cfg |-> cfg, orders |-> [side \in Sides |-> <<>>], seq |-> 0]

\* The orders of book b and the events after command c.
Outcome(b, c) ==
    CASE c.kind = "New" ->
           AfterNew(b.orders, Admitted(b.cfg), b.cfg.room, c.id, c.side,
                    IF c.otype = "Market" THEN NIL ELSE c.price, c.qty, c.tif)
      [] c.kind = "Cancel" -> AfterCancel(b.orders, c.id)
      [] c.kind = "Replace" ->
           AfterReplace(b.orders, Admitted(b.cfg), c.id, c.price, c.qty)

NewEngine(cfg) == [cfg |-> cfg, books |-> <<>>]

\* unordered_map::emplace: a symbol that is there keeps its book.  The first
\* form is a mutant, insert_or_assign.
Assigned(books, sym, b) ==
    [s \in DOMAIN books \cup {sym} |-> IF s = sym THEN b ELSE books[s]]

Emplaced(books, sym, b) ==
    [s \in DOMAIN books \cup {sym} |-> IF s \in DOMAIN books THEN books[s] ELSE b]

AddBook(e, sym, b) == [e EXCEPT !.books = Emplaced(@, sym, b)]
AddSymbol(e, sym, cfg) == AddBook(e, sym, NewBook(cfg))
BookOrCreate(e, sym) == AddSymbol(e, sym, e.cfg)

\* submit_tagged(): the engine and the tagged events after a command.
Submitted(e, sym, c) ==
    LET ready == BookOrCreate(e, sym)
        b == ready.books[sym]
        after == Outcome(b, c)
    IN  [engine |-> [ready EXCEPT
                       !.books[sym].orders = after.book,
                       !.books[sym].seq = @ + Len(after.events)],
         events |-> [i \in DOMAIN after.events |->
                       [sym |-> sym, seq |-> b.seq + i,
                        ev |-> after.events[i]]]]

\* symbols(): ascending.
LiveSymbols(e) ==
    CHOOSE syms \in SetToSeqs(DOMAIN e.books) :
      \A i, j \in DOMAIN syms : i < j => syms[i] < syms[j]
============================================================================
