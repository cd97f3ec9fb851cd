---------------------------- MODULE CommandLine ----------------------------
(***************************************************************************)
(* Commands as lines: what the command journal writes of a command         *)
(* (CmdJournal of include/matcher/journal.hpp) and what parse_command      *)
(* (include/matcher/jsonflat.hpp) reads from a line, whole or torn.        *)
(***************************************************************************)
EXTENDS Lines

NewLimit(id, side, price, qty, tif) ==
    [kind |-> "New", id |-> id, side |-> side, otype |-> "Limit",
     price |-> price, qty |-> qty, tif |-> tif]

NewMarket(id, side, qty) ==
    [kind |-> "New", id |-> id, side |-> side, otype |-> "Market",
     price |-> 0, qty |-> qty, tif |-> "Ioc"]

\* A command with the members replace() sets; the others have their defaults.
Changing(kind, id, price, qty) ==
    [kind |-> kind, id |-> id, side |-> "Bid", otype |-> "Limit",
     price |-> price, qty |-> qty, tif |-> "Gtc"]

CancelOf(id) == Changing("Cancel", id, 0, 0)
ReplaceOf(id, price, qty) == Changing("Replace", id, price, qty)

----------------------------------------------------------------------------
(* The names of enumerators; a name that is not known, or not there, reads *)
(* as the default.                                                         *)

SideText(side) == IF side = "Ask" THEN "ask" ELSE "bid"
SideOfText(text) == IF text = "ask" THEN "Ask" ELSE "Bid"

TifText == [Gtc |-> "gtc", Ioc |-> "ioc", Fok |-> "fok",
            PostOnly |-> "post_only"]

TifOfText(text) ==
    IF \E tif \in Tifs : TifText[tif] = text
    THEN CHOOSE tif \in Tifs : TifText[tif] = text ELSE "Gtc"

OTypeOfText(text) == IF text = "market" THEN "Market" ELSE "Limit"

----------------------------------------------------------------------------

\* write_cmd(): a market order has no price.
Written(sym, c) ==
    CASE c.kind = "New" /\ c.otype = "Limit" ->
           <<Field("cmd", "new"), Field("symbol", sym),
             Field("order_id", c.id), Field("side", SideText(c.side)),
             Field("otype", "limit"), Field("price", c.price),
             Field("qty", c.qty), Field("tif", TifText[c.tif])>>
      [] c.kind = "New" /\ c.otype = "Market" ->
           <<Field("cmd", "new"), Field("symbol", sym),
             Field("order_id", c.id), Field("side", SideText(c.side)),
             Field("otype", "market"),
             Field("qty", c.qty), Field("tif", TifText[c.tif])>>
      [] c.kind = "Cancel" ->
           <<Field("cmd", "cancel"), Field("symbol", sym),
             Field("order_id", c.id)>>
      [] c.kind = "Replace" ->
           <<Field("cmd", "replace"), Field("symbol", sym),
             Field("order_id", c.id), Field("price", c.price),
             Field("qty", c.qty)>>

\* Mutant of Parsed: the time in force is not read.
ParsedWithoutTif(line) ==
    LET cmd == Get(line, "cmd")
        id == Num(line, "order_id")
    IN  [ok |-> cmd # NIL, sym |-> Num(line, "symbol"),
         cmd |-> IF cmd = "new"
                 THEN NewLimit(id, SideOfText(Get(line, "side")),
                               Num(line, "price"), Num(line, "qty"), "Gtc")
                 ELSE IF cmd = "cancel" THEN CancelOf(id)
                 ELSE ReplaceOf(id, Num(line, "price"), Num(line, "qty"))]

\* parse_command(): whether the line is a command, its symbol and, when it is
\* one, the command.  When it is not, the caller's command is left alone.
Parsed(line) ==
    LET cmd == Get(line, "cmd")
        id == Num(line, "order_id")
        price == Num(line, "price")
        qty == Num(line, "qty")
    IN  [ok |-> cmd \in {"new", "cancel", "replace"},
         sym |-> Num(line, "symbol"),
         cmd |-> CASE cmd = "new" ->
                        [kind |-> "New", id |-> id, price |-> price,
                         qty |-> qty,
                         side |-> SideOfText(Get(line, "side")),
                         otype |-> OTypeOfText(Get(line, "otype")),
                         tif |-> TifOfText(Get(line, "tif"))]
                   [] cmd = "cancel" -> CancelOf(id)
                   [] cmd = "replace" -> ReplaceOf(id, price, qty)
                   [] OTHER -> NIL]
============================================================================
