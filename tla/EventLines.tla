----------------------------- MODULE EventLines -----------------------------
(***************************************************************************)
(* Events as lines: the canonical form in which sinks, journals and tools  *)
(* write what a book emits (write_canonical of include/matcher/types.hpp). *)
(* Journals are compared line by line, so a line has to tell its event.    *)
(***************************************************************************)
EXTENDS Lines

RejectText == [InvalidQty |-> "invalid_qty", InvalidPrice |-> "invalid_price",
               DuplicateOrderId |-> "duplicate_order_id",
               UnknownOrderId |-> "unknown_order_id",
               PostOnlyWouldCross |-> "post_only_would_cross",
               FokCannotFill |-> "fok_cannot_fill", BookFull |-> "book_full"]

CloseText == [Filled |-> "filled", Cancelled |-> "cancelled",
              Expired |-> "expired"]

\* The fields after the kind of the event and its symbol.
Details(e) ==
    CASE e.ev = "accepted" ->
           <<Field("order_id", e.id), Field("leaves_qty", e.leaves)>>
      [] e.ev = "rejected" ->
           <<Field("order_id", e.id), Field("reason", RejectText[e.reason])>>
      [] e.ev = "trade" ->
           <<Field("maker", e.maker), Field("taker", e.taker),
             Field("price", e.price), Field("qty", e.qty)>>
      [] e.ev = "closed" ->
           <<Field("order_id", e.id), Field("reason", CloseText[e.reason])>>
      [] e.ev = "replaced" ->
           <<Field("order_id", e.id), Field("price", e.price),
             Field("qty", e.qty)>>

\* write_canonical()
Canonical(seq, e) == <<Field("seq", seq), Field("ev", e.ev)>> \o Details(e)

\* write_canonical_sym()
CanonicalSym(seq, sym, e) ==
    <<Field("seq", seq), Field("ev", e.ev), Field("symbol", sym)>> \o Details(e)

\* What an engine hands over, [sym, seq, ev], as the lines that are written.
Printed(tagged) ==
    [i \in DOMAIN tagged |->
       CanonicalSym(tagged[i].seq, tagged[i].sym, tagged[i].ev)]
============================================================================
