------------------------------ MODULE Snapshot ------------------------------
(***************************************************************************)
(* Snapshots of an engine as lines, and engines from snapshots             *)
(* (include/matcher/snapshot.hpp, OrderBook::restore of book.hpp).         *)
(***************************************************************************)
EXTENDS Engine

\* A line without "rec" is neither an order nor a book.
ASSUME NilIsNoRecord == NIL \notin {"order", "book"}

OrderLine(side, o) ==
    <<Field("rec", "order"), Field("order_id", o.id),
      Field("side", SideText(side)), Field("otype", "limit"),
      Field("tif", TifText[o.tif]), Field("price", o.price),
      Field("qty", o.qty)>>

\* Mutant of SideLines: the orders of a side by id, not by priority.
SideLinesById(b, side) ==
    LET byId == SortSeq(b.orders[side], LAMBDA o, p : o.id < p.id)
    IN  [i \in DOMAIN byId |-> OrderLine(side, byId[i])]

\* Best price first, oldest first: the order a book keeps them in.
SideLines(b, side) ==
    [i \in DOMAIN b.orders[side] |-> OrderLine(side, b.orders[side][i])]

\* write_book()
BookLines(sym, b) ==
    <<<<Field("rec", "book"), Field("symbol", sym), Field("seq", b.seq)>>>>
      \o SideLines(b, "Bid") \o SideLines(b, "Ask")

\* write_engine()
EngineLines(e) ==
    LET header == <<Field("format", "matcher-snap/1"),
                    Field("pmin", e.cfg.min), Field("pmax", e.cfg.max),
                    Field("max_orders", e.cfg.room),
                    Field("index", IF e.cfg.index = "Tree" THEN "tree"
                                   ELSE "ladder")>>
        syms == LiveSymbols(e)
    IN  <<header>>
          \o FlattenSeq([i \in DOMAIN syms |->
                           BookLines(syms[i], e.books[syms[i]])])

----------------------------------------------------------------------------

OrderOf(line) ==
    [id |-> Num(line, "order_id"), side |-> SideOfText(Get(line, "side")),
     price |-> Num(line, "price"), qty |-> Num(line, "qty"),
     tif |-> TifOfText(Get(line, "tif"))]

\* One line of parse().  A line that is neither an order nor a book, whatever
\* it is, gives the configuration; an order before any book is passed over.
ParseLine(snap, line) ==
    CASE Get(line, "rec") = "order" ->
           IF snap.books = <<>> THEN snap
           ELSE [snap EXCEPT
                   !.books[Len(snap.books)].orders = Append(@, OrderOf(line))]
      [] Get(line, "rec") = "book" ->
           [snap EXCEPT
              !.books = Append(@, [symbol |-> Num(line, "symbol"),
                                   seq |-> Num(line, "seq"),
                                   orders |-> <<>>])]
      [] OTHER ->
           [snap EXCEPT
              !.cfg = BookConfig(IF Get(line, "index") = "tree" THEN "Tree"
                                 ELSE "Ladder",
                                 Num(line, "pmin"), Num(line, "pmax"),
                                 Num(line, "max_orders"))]

Parse(file) ==
    FoldLeft(ParseLine, [cfg |-> DefaultConfig, books |-> <<>>], file)

\* Mutant of RestRestored: the last place of the book is not used.
RestRestoredShort(b, o) ==
    IF Cardinality(LiveIds(b.orders)) + 1 >= b.cfg.room THEN b
    ELSE [b EXCEPT !.orders[o.side] =
            Joined(o.side, @, [id |-> o.id, price |-> o.price,
                               qty |-> o.qty, tif |-> o.tif])]

\* One turn of the loop of restore(): the order rests behind all that are as
\* good, unmatched.  A book that is full takes no more.
RestRestored(b, o) ==
    IF Cardinality(LiveIds(b.orders)) >= b.cfg.room THEN b
    ELSE [b EXCEPT !.orders[o.side] =
            Joined(o.side, @, [id |-> o.id, price |-> o.price,
                               qty |-> o.qty, tif |-> o.tif])]

\* Mutant of RestoreBook: the numbering starts again.
RestoreRenumbered(cfg, seq, orders) ==
    FoldLeft(RestRestored, NewBook(cfg), orders)

\* OrderBook::restore()
RestoreBook(cfg, seq, orders) ==
    FoldLeft(RestRestored, [NewBook(cfg) EXCEPT !.seq = seq], orders)

\* restore_engine(): every book has the configuration of the header.
RestoreEngine(snap) ==
    FoldLeft(LAMBDA e, b :
               AddBook(e, b.symbol, RestoreBook(snap.cfg, b.seq, b.orders)),
             NewEngine(snap.cfg), snap.books)
============================================================================
