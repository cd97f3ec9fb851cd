----------------------------- MODULE JournalProofs ----------------------------
(***************************************************************************)
(* What journals, snapshots and streams keep, and that recovery from them  *)
(* is exact.                                                               *)
(*                                                                         *)
(* What the command journal writes, parse_command reads back.  Two events  *)
(* that are written as the same line are the same event with the same      *)
(* number: journals that agree line by line, as the recovery procedure of  *)
(* spec/JOURNAL.md compares them, agree event by event.  An engine is      *)
(* restored from its snapshot as it was.                                   *)
(*                                                                         *)
(* From these, the recovery of Recovery.tla: after any number of crashes   *)
(* (of the recovery itself too), with a snapshot taken at any moment and   *)
(* any commands, the engine and its event journal are those of a run       *)
(* without a crash; and the programs of StreamTools.tla agree on every     *)
(* file, however long.                                                     *)
(***************************************************************************)
EXTENDS Recovery, StreamTools, InductionLemmas

----------------------------------------------------------------------------
(* Commands.                                                               *)

\* The commands of the four constructors of Command.
Constructed ==
    {NewLimit(id, side, price, qty, tif) :
       id \in Nat, side \in Sides, price \in Int, qty \in Nat, tif \in Tifs}
      \cup {NewMarket(id, side, qty) : id \in Nat, side \in Sides, qty \in Nat}
      \cup {CancelOf(id) : id \in Nat}
      \cup {ReplaceOf(id, price, qty) : id \in Nat, price \in Int, qty \in Nat}

\* A field whose key no other field has is the one that is read.
LEMMA GetsOnlyField ==
    ASSUME NEW line, NEW i \in DOMAIN line,
           DOMAIN line \subseteq Nat,
           \A j \in DOMAIN line : line[j].key = line[i].key => j = i
    PROVE  Get(line, line[i].key) = line[i].val
  BY DEF Get

\* A number that is there is read as it is.
LEMMA NumIsRead ==
    ASSUME NEW line, NEW key, Get(line, key) \in Int
    PROVE  Num(line, key) = Get(line, key)
  BY NilIsNoValue DEF Num, Or

LEMMA SideIsRead == \A side \in Sides : SideOfText(SideText(side)) = side
  BY DEF Sides, SideText, SideOfText

LEMMA TifIsRead == \A tif \in Tifs : TifOfText(TifText[tif]) = tif
  BY DEF Tifs, TifText, TifOfText

\* A number that is not there is read as 0.
LEMMA AbsentIsZero ==
    ASSUME NEW line, NEW key, \A i \in DOMAIN line : line[i].key # key
    PROVE  Num(line, key) = 0
  BY DEF Num, Or, Get

\* A cancel is read back.
LEMMA CancelIsRead ==
    ASSUME NEW sym \in Nat, NEW id \in Nat
    PROVE  Parsed(Written(sym, CancelOf(id)))
             = [ok |-> TRUE, sym |-> sym, cmd |-> CancelOf(id)]
<1> DEFINE line == <<Field("cmd", "cancel"),
                     Field("symbol", sym),
                     Field("order_id", id)>>
<1>1. Written(sym, CancelOf(id)) = line
  BY DEF Written, CancelOf, Changing
<1>2. /\ DOMAIN line = 1 .. 3
      /\ line[1] = Field("cmd", "cancel")
      /\ line[2] = Field("symbol", sym)
      /\ line[3] = Field("order_id", id)
  OBVIOUS
<1> HIDE DEF line
<1>3. /\ Get(line, "cmd") = "cancel"
      /\ Get(line, "symbol") = sym
      /\ Get(line, "order_id") = id
  <2>1. Get(line, line[1].key) = line[1].val
    BY <1>2, GetsOnlyField DEF Field
  <2>2. Get(line, line[2].key) = line[2].val
    BY <1>2, GetsOnlyField DEF Field
  <2>3. Get(line, line[3].key) = line[3].val
    BY <1>2, GetsOnlyField DEF Field
  <2> QED BY <1>2, <2>1, <2>2, <2>3 DEF Field
<1>4. /\ Num(line, "symbol") = sym
      /\ Num(line, "order_id") = id
  BY <1>3, NumIsRead
<1> QED BY <1>1, <1>3, <1>4 DEF Parsed

\* A replace is read back.
LEMMA ReplaceIsRead ==
    ASSUME NEW sym \in Nat, NEW id \in Nat, NEW price \in Int, NEW qty \in Nat
    PROVE  Parsed(Written(sym, ReplaceOf(id, price, qty)))
             = [ok |-> TRUE, sym |-> sym, cmd |-> ReplaceOf(id, price, qty)]
<1> DEFINE line == <<Field("cmd", "replace"),
                     Field("symbol", sym),
                     Field("order_id", id),
                     Field("price", price),
                     Field("qty", qty)>>
<1>1. Written(sym, ReplaceOf(id, price, qty)) = line
  BY DEF Written, ReplaceOf, Changing
<1>2. /\ DOMAIN line = 1 .. 5
      /\ line[1] = Field("cmd", "replace")
      /\ line[2] = Field("symbol", sym)
      /\ line[3] = Field("order_id", id)
      /\ line[4] = Field("price", price)
      /\ line[5] = Field("qty", qty)
  OBVIOUS
<1> HIDE DEF line
<1>3. /\ Get(line, "cmd") = "replace"
      /\ Get(line, "symbol") = sym
      /\ Get(line, "order_id") = id
      /\ Get(line, "price") = price
      /\ Get(line, "qty") = qty
  <2>1. Get(line, line[1].key) = line[1].val
    BY <1>2, GetsOnlyField DEF Field
  <2>2. Get(line, line[2].key) = line[2].val
    BY <1>2, GetsOnlyField DEF Field
  <2>3. Get(line, line[3].key) = line[3].val
    BY <1>2, GetsOnlyField DEF Field
  <2>4. Get(line, line[4].key) = line[4].val
    BY <1>2, GetsOnlyField DEF Field
  <2>5. Get(line, line[5].key) = line[5].val
    BY <1>2, GetsOnlyField DEF Field
  <2> QED BY <1>2, <2>1, <2>2, <2>3, <2>4, <2>5 DEF Field
<1>4. /\ Num(line, "symbol") = sym
      /\ Num(line, "order_id") = id
      /\ Num(line, "price") = price
      /\ Num(line, "qty") = qty
  BY <1>3, NumIsRead
<1> QED BY <1>1, <1>3, <1>4 DEF Parsed

\* A limit order is read back.
LEMMA LimitIsRead ==
    ASSUME NEW sym \in Nat, NEW id \in Nat, NEW side \in Sides,
           NEW price \in Int, NEW qty \in Nat, NEW tif \in Tifs
    PROVE  Parsed(Written(sym, NewLimit(id, side, price, qty, tif)))
             = [ok |-> TRUE, sym |-> sym, cmd |-> NewLimit(id, side, price, qty, tif)]
<1> DEFINE line == <<Field("cmd", "new"),
                     Field("symbol", sym),
                     Field("order_id", id),
                     Field("side", SideText(side)),
                     Field("otype", "limit"),
                     Field("price", price),
                     Field("qty", qty),
                     Field("tif", TifText[tif])>>
<1>1. Written(sym, NewLimit(id, side, price, qty, tif)) = line
  BY DEF Written, NewLimit
<1>2. /\ DOMAIN line = 1 .. 8
      /\ line[1] = Field("cmd", "new")
      /\ line[2] = Field("symbol", sym)
      /\ line[3] = Field("order_id", id)
      /\ line[4] = Field("side", SideText(side))
      /\ line[5] = Field("otype", "limit")
      /\ line[6] = Field("price", price)
      /\ line[7] = Field("qty", qty)
      /\ line[8] = Field("tif", TifText[tif])
  OBVIOUS
<1> HIDE DEF line
<1>3. /\ Get(line, "cmd") = "new"
      /\ Get(line, "symbol") = sym
      /\ Get(line, "order_id") = id
      /\ Get(line, "side") = SideText(side)
      /\ Get(line, "otype") = "limit"
      /\ Get(line, "price") = price
      /\ Get(line, "qty") = qty
      /\ Get(line, "tif") = TifText[tif]
  <2>1. Get(line, line[1].key) = line[1].val
    BY <1>2, GetsOnlyField DEF Field
  <2>2. Get(line, line[2].key) = line[2].val
    BY <1>2, GetsOnlyField DEF Field
  <2>3. Get(line, line[3].key) = line[3].val
    BY <1>2, GetsOnlyField DEF Field
  <2>4. Get(line, line[4].key) = line[4].val
    BY <1>2, GetsOnlyField DEF Field
  <2>5. Get(line, line[5].key) = line[5].val
    BY <1>2, GetsOnlyField DEF Field
  <2>6. Get(line, line[6].key) = line[6].val
    BY <1>2, GetsOnlyField DEF Field
  <2>7. Get(line, line[7].key) = line[7].val
    BY <1>2, GetsOnlyField DEF Field
  <2>8. Get(line, line[8].key) = line[8].val
    BY <1>2, GetsOnlyField DEF Field
  <2> QED BY <1>2, <2>1, <2>2, <2>3, <2>4, <2>5, <2>6, <2>7, <2>8 DEF Field
<1>4. /\ Num(line, "symbol") = sym
      /\ Num(line, "order_id") = id
      /\ Num(line, "price") = price
      /\ Num(line, "qty") = qty
  BY <1>3, NumIsRead
<1>5. SideOfText(SideText(side)) = side /\ TifOfText(TifText[tif]) = tif
  BY SideIsRead, TifIsRead
<1> QED BY <1>1, <1>3, <1>4, <1>5 DEF Parsed, NewLimit, OTypeOfText

\* A market order is read back: its price is neither written nor read.
LEMMA MarketIsRead ==
    ASSUME NEW sym \in Nat, NEW id \in Nat, NEW side \in Sides, NEW qty \in Nat
    PROVE  Parsed(Written(sym, NewMarket(id, side, qty)))
             = [ok |-> TRUE, sym |-> sym, cmd |-> NewMarket(id, side, qty)]
<1> DEFINE line == <<Field("cmd", "new"),
                     Field("symbol", sym),
                     Field("order_id", id),
                     Field("side", SideText(side)),
                     Field("otype", "market"),
                     Field("qty", qty),
                     Field("tif", "ioc")>>
<1>1. Written(sym, NewMarket(id, side, qty)) = line
  BY DEF Written, NewMarket, TifText
<1>2. /\ DOMAIN line = 1 .. 7
      /\ line[1] = Field("cmd", "new")
      /\ line[2] = Field("symbol", sym)
      /\ line[3] = Field("order_id", id)
      /\ line[4] = Field("side", SideText(side))
      /\ line[5] = Field("otype", "market")
      /\ line[6] = Field("qty", qty)
      /\ line[7] = Field("tif", "ioc")
  OBVIOUS
<1> HIDE DEF line
<1>3. /\ Get(line, "cmd") = "new"
      /\ Get(line, "symbol") = sym
      /\ Get(line, "order_id") = id
      /\ Get(line, "side") = SideText(side)
      /\ Get(line, "otype") = "market"
      /\ Get(line, "qty") = qty
      /\ Get(line, "tif") = "ioc"
  <2>1. Get(line, line[1].key) = line[1].val
    BY <1>2, GetsOnlyField DEF Field
  <2>2. Get(line, line[2].key) = line[2].val
    BY <1>2, GetsOnlyField DEF Field
  <2>3. Get(line, line[3].key) = line[3].val
    BY <1>2, GetsOnlyField DEF Field
  <2>4. Get(line, line[4].key) = line[4].val
    BY <1>2, GetsOnlyField DEF Field
  <2>5. Get(line, line[5].key) = line[5].val
    BY <1>2, GetsOnlyField DEF Field
  <2>6. Get(line, line[6].key) = line[6].val
    BY <1>2, GetsOnlyField DEF Field
  <2>7. Get(line, line[7].key) = line[7].val
    BY <1>2, GetsOnlyField DEF Field
  <2> QED BY <1>2, <2>1, <2>2, <2>3, <2>4, <2>5, <2>6, <2>7 DEF Field
<1>4. /\ Num(line, "symbol") = sym
      /\ Num(line, "order_id") = id
      /\ Num(line, "qty") = qty
  BY <1>3, NumIsRead
<1>5. Num(line, "price") = 0
  BY <1>2, AbsentIsZero DEF Field
<1>6. SideOfText(SideText(side)) = side /\ TifOfText("ioc") = "Ioc"
  BY SideIsRead, TifIsRead DEF Tifs, TifText
<1> QED BY <1>1, <1>3, <1>4, <1>5, <1>6 DEF Parsed, NewMarket, OTypeOfText

\* Every command of the journal is replayed as what it was, on its symbol.
THEOREM ParseInvertsWrite ==
    \A sym \in Nat, c \in Constructed :
       Parsed(Written(sym, c)) = [ok |-> TRUE, sym |-> sym, cmd |-> c]
<1> SUFFICES ASSUME NEW sym \in Nat, NEW c \in Constructed
             PROVE  Parsed(Written(sym, c)) = [ok |-> TRUE, sym |-> sym, cmd |-> c]
  OBVIOUS
<1>1. CASE \E id \in Nat, side \in Sides, price \in Int, qty \in Nat, tif \in Tifs :
             c = NewLimit(id, side, price, qty, tif)
  BY <1>1, LimitIsRead
<1>2. CASE \E id \in Nat, side \in Sides, qty \in Nat : c = NewMarket(id, side, qty)
  BY <1>2, MarketIsRead
<1>3. CASE \E id \in Nat : c = CancelOf(id)
  BY <1>3, CancelIsRead
<1>4. CASE \E id \in Nat, price \in Int, qty \in Nat : c = ReplaceOf(id, price, qty)
  BY <1>4, ReplaceIsRead
<1> QED BY <1>1, <1>2, <1>3, <1>4 DEF Constructed

----------------------------------------------------------------------------
(* Events.                                                                 *)

\* The fields that follow the kind and the symbol tell an event from the
\* others of its kind.
LEMMA DetailsTellEvent ==
    ASSUME NEW e \in Events, NEW f \in Events, e.ev = f.ev,
           Details(e) = Details(f)
    PROVE  e = f
<1>1. CASE e.ev = "accepted"
  <2> DEFINE Kind == [ev : {"accepted"}, id : Ids, leaves : LiveQtys]
  <2>1. e \in Kind /\ f \in Kind
    BY <1>1 DEF Events
  <2>2. /\ Details(e)[1] = Field("order_id", e.id)
        /\ Details(e)[2] = Field("leaves_qty", e.leaves)
    BY <1>1 DEF Details
  <2>3. /\ Details(f)[1] = Field("order_id", f.id)
        /\ Details(f)[2] = Field("leaves_qty", f.leaves)
    BY <1>1 DEF Details
  <2>4. e.id = f.id /\ e.leaves = f.leaves
    BY <2>2, <2>3 DEF Field
  <2> QED BY <2>1, <2>4
<1>2. CASE e.ev = "rejected"
  <2> DEFINE Kind == [ev : {"rejected"}, id : Ids, reason : RejectReasons]
  <2>1. e \in Kind /\ f \in Kind
    BY <1>2 DEF Events
  <2>2. /\ Details(e)[1] = Field("order_id", e.id)
        /\ Details(e)[2] = Field("reason", RejectText[e.reason])
    BY <1>2 DEF Details
  <2>3. /\ Details(f)[1] = Field("order_id", f.id)
        /\ Details(f)[2] = Field("reason", RejectText[f.reason])
    BY <1>2 DEF Details
  <2>4. e.id = f.id /\ RejectText[e.reason] = RejectText[f.reason]
    BY <2>2, <2>3 DEF Field
  <2>5. e.reason = f.reason
    BY <2>1, <2>4 DEF RejectReasons, RejectText
  <2> QED BY <2>1, <2>4, <2>5
<1>3. CASE e.ev = "trade"
  <2> DEFINE Kind == [ev : {"trade"}, maker : Ids, taker : Ids,
                      price : CmdPrices, qty : LiveQtys]
  <2>1. e \in Kind /\ f \in Kind
    BY <1>3 DEF Events
  <2>2. /\ Details(e)[1] = Field("maker", e.maker)
        /\ Details(e)[2] = Field("taker", e.taker)
        /\ Details(e)[3] = Field("price", e.price)
        /\ Details(e)[4] = Field("qty", e.qty)
    BY <1>3 DEF Details
  <2>3. /\ Details(f)[1] = Field("maker", f.maker)
        /\ Details(f)[2] = Field("taker", f.taker)
        /\ Details(f)[3] = Field("price", f.price)
        /\ Details(f)[4] = Field("qty", f.qty)
    BY <1>3 DEF Details
  <2>4. /\ e.maker = f.maker /\ e.taker = f.taker
        /\ e.price = f.price /\ e.qty = f.qty
    BY <2>2, <2>3 DEF Field
  <2> QED BY <2>1, <2>4
<1>4. CASE e.ev = "closed"
  <2> DEFINE Kind == [ev : {"closed"}, id : Ids, reason : CloseReasons]
  <2>1. e \in Kind /\ f \in Kind
    BY <1>4 DEF Events
  <2>2. /\ Details(e)[1] = Field("order_id", e.id)
        /\ Details(e)[2] = Field("reason", CloseText[e.reason])
    BY <1>4 DEF Details
  <2>3. /\ Details(f)[1] = Field("order_id", f.id)
        /\ Details(f)[2] = Field("reason", CloseText[f.reason])
    BY <1>4 DEF Details
  <2>4. e.id = f.id /\ CloseText[e.reason] = CloseText[f.reason]
    BY <2>2, <2>3 DEF Field
  <2>5. e.reason = f.reason
    BY <2>1, <2>4 DEF CloseReasons, CloseText
  <2> QED BY <2>1, <2>4, <2>5
<1>5. CASE e.ev = "replaced"
  <2> DEFINE Kind == [ev : {"replaced"}, id : Ids, price : CmdPrices,
               qty : LiveQtys]
  <2>1. e \in Kind /\ f \in Kind
    BY <1>5 DEF Events
  <2>2. /\ Details(e)[1] = Field("order_id", e.id)
        /\ Details(e)[2] = Field("price", e.price)
        /\ Details(e)[3] = Field("qty", e.qty)
    BY <1>5 DEF Details
  <2>3. /\ Details(f)[1] = Field("order_id", f.id)
        /\ Details(f)[2] = Field("price", f.price)
        /\ Details(f)[3] = Field("qty", f.qty)
    BY <1>5 DEF Details
  <2>4. e.id = f.id /\ e.price = f.price /\ e.qty = f.qty
    BY <2>2, <2>3 DEF Field
  <2> QED BY <2>1, <2>4
<1> QED BY <1>1, <1>2, <1>3, <1>4, <1>5 DEF Events

LEMMA DetailsAreASequence ==
    ASSUME NEW e \in Events
    PROVE  \E S : Details(e) \in Seq(S)
<1>1. CASE e.ev \in {"accepted", "rejected", "closed"}
  <2>1. PICK x, y : Details(e) = <<x, y>>
    BY <1>1 DEF Details
  <2>2. <<x, y>> \in Seq({x, y})
    OBVIOUS
  <2> QED BY <2>1, <2>2
<1>2. CASE e.ev = "replaced"
  <2>1. PICK x, y, z : Details(e) = <<x, y, z>>
    BY <1>2 DEF Details
  <2>2. <<x, y, z>> \in Seq({x, y, z})
    OBVIOUS
  <2> QED BY <2>1, <2>2
<1>3. CASE e.ev = "trade"
  <2>1. PICK w, x, y, z : Details(e) = <<w, x, y, z>>
    BY <1>3 DEF Details
  <2>2. <<w, x, y, z>> \in Seq({w, x, y, z})
    OBVIOUS
  <2> QED BY <2>1, <2>2
<1> QED BY <1>1, <1>2, <1>3 DEF Events

\* What a sequence is that begins with two elements.
LEMMA AfterPair ==
    ASSUME NEW S, NEW x \in Seq(S), NEW a, NEW b
    PROVE  /\ Len(<<a, b>> \o x) = 2 + Len(x)
           /\ (<<a, b>> \o x)[1] = a
           /\ (<<a, b>> \o x)[2] = b
           /\ \A i \in 1 .. Len(x) : (<<a, b>> \o x)[2 + i] = x[i]
  OBVIOUS

LEMMA PartsOfCanonical ==
    ASSUME NEW e \in Events, NEW seq
    PROVE  /\ Len(Canonical(seq, e)) = 2 + Len(Details(e))
           /\ Canonical(seq, e)[1] = Field("seq", seq)
           /\ Canonical(seq, e)[2] = Field("ev", e.ev)
           /\ \A i \in 1 .. Len(Details(e)) :
                Canonical(seq, e)[2 + i] = Details(e)[i]
<1>1. PICK S : Details(e) \in Seq(S)
  BY DetailsAreASequence
<1> QED BY <1>1, AfterPair DEF Canonical

\* A line of a book tells the event and its number (types.hpp:121).
THEOREM LinesTellEvents ==
    ASSUME NEW e \in Events, NEW f \in Events,
           NEW seq, NEW seq2,
           Canonical(seq, e) = Canonical(seq2, f)
    PROVE  seq = seq2 /\ e = f
<1> DEFINE l == Canonical(seq, e)
           r == Canonical(seq2, f)
<1>1. /\ Len(l) = 2 + Len(Details(e))
      /\ l[1] = Field("seq", seq) /\ l[2] = Field("ev", e.ev)
      /\ \A i \in 1 .. Len(Details(e)) : l[2 + i] = Details(e)[i]
  BY PartsOfCanonical
<1>2. /\ Len(r) = 2 + Len(Details(f))
      /\ r[1] = Field("seq", seq2) /\ r[2] = Field("ev", f.ev)
      /\ \A i \in 1 .. Len(Details(f)) : r[2 + i] = Details(f)[i]
  BY PartsOfCanonical
<1>3. l = r
  OBVIOUS
<1> HIDE DEF l, r
<1>4. seq = seq2 /\ e.ev = f.ev
  BY <1>1, <1>2, <1>3 DEF Field
<1>5. PICK S, T : Details(e) \in Seq(S) /\ Details(f) \in Seq(T)
  BY DetailsAreASequence
<1>6. Len(Details(e)) = Len(Details(f))
  <2>1. Len(Details(e)) \in Nat /\ Len(Details(f)) \in Nat
    BY <1>5
  <2> QED BY <2>1, <1>1, <1>2, <1>3
<1>7. ASSUME NEW i \in 1 .. Len(Details(e))
      PROVE  Details(e)[i] = Details(f)[i]
  BY <1>1, <1>2, <1>3, <1>6
<1>8. Details(e) \in Seq(S \cup T) /\ Details(f) \in Seq(S \cup T)
  BY <1>5
<1>9. Details(e) = Details(f)
  BY <1>6, <1>7, <1>8, SeqEqual
<1> QED BY <1>4, <1>9, DetailsTellEvent

\* What a sequence is that begins with three elements.
LEMMA AfterTriple ==
    ASSUME NEW S, NEW x \in Seq(S), NEW a, NEW b, NEW c
    PROVE  /\ Len(<<a, b, c>> \o x) = 3 + Len(x)
           /\ (<<a, b, c>> \o x)[1] = a
           /\ (<<a, b, c>> \o x)[2] = b
           /\ (<<a, b, c>> \o x)[3] = c
           /\ \A i \in 1 .. Len(x) : (<<a, b, c>> \o x)[3 + i] = x[i]
  OBVIOUS

LEMMA PartsOfCanonicalSym ==
    ASSUME NEW e \in Events, NEW seq, NEW sym
    PROVE  /\ Len(CanonicalSym(seq, sym, e)) = 3 + Len(Details(e))
           /\ CanonicalSym(seq, sym, e)[1] = Field("seq", seq)
           /\ CanonicalSym(seq, sym, e)[2] = Field("ev", e.ev)
           /\ CanonicalSym(seq, sym, e)[3] = Field("symbol", sym)
           /\ \A i \in 1 .. Len(Details(e)) :
                CanonicalSym(seq, sym, e)[3 + i] = Details(e)[i]
<1>1. PICK S : Details(e) \in Seq(S)
  BY DetailsAreASequence
<1> QED BY <1>1, AfterTriple DEF CanonicalSym

\* A line of an engine tells its symbol as well (types.hpp:126).
THEOREM TaggedLinesTellEvents ==
    ASSUME NEW e \in Events, NEW f \in Events,
           NEW seq, NEW sym, NEW seq2, NEW sym2,
           CanonicalSym(seq, sym, e) = CanonicalSym(seq2, sym2, f)
    PROVE  seq = seq2 /\ sym = sym2 /\ e = f
<1> DEFINE l == CanonicalSym(seq, sym, e)
           r == CanonicalSym(seq2, sym2, f)
<1>1. /\ Len(l) = 3 + Len(Details(e))
      /\ l[1] = Field("seq", seq) /\ l[2] = Field("ev", e.ev)
      /\ l[3] = Field("symbol", sym)
      /\ \A i \in 1 .. Len(Details(e)) : l[3 + i] = Details(e)[i]
  BY PartsOfCanonicalSym
<1>2. /\ Len(r) = 3 + Len(Details(f))
      /\ r[1] = Field("seq", seq2) /\ r[2] = Field("ev", f.ev)
      /\ r[3] = Field("symbol", sym2)
      /\ \A i \in 1 .. Len(Details(f)) : r[3 + i] = Details(f)[i]
  BY PartsOfCanonicalSym
<1>3. l = r
  OBVIOUS
<1> HIDE DEF l, r
<1>4. seq = seq2 /\ sym = sym2 /\ e.ev = f.ev
  BY <1>1, <1>2, <1>3 DEF Field
<1>5. PICK S, T : Details(e) \in Seq(S) /\ Details(f) \in Seq(T)
  BY DetailsAreASequence
<1>6. Len(Details(e)) = Len(Details(f))
  <2>1. Len(Details(e)) \in Nat /\ Len(Details(f)) \in Nat
    BY <1>5
  <2> QED BY <2>1, <1>1, <1>2, <1>3
<1>7. ASSUME NEW i \in 1 .. Len(Details(e))
      PROVE  Details(e)[i] = Details(f)[i]
  BY <1>1, <1>2, <1>3, <1>6
<1>8. Details(e) \in Seq(S \cup T) /\ Details(f) \in Seq(S \cup T)
  BY <1>5
<1>9. Details(e) = Details(f)
  BY <1>6, <1>7, <1>8, SeqEqual
<1> QED BY <1>4, <1>9, DetailsTellEvent

----------------------------------------------------------------------------
(* The log and the snapshot.                                               *)

\* A sequence, of whatever its elements are.
IsSeq(s) == s \in Seq({s[i] : i \in DOMAIN s})

\* Append() adds one element and keeps the others.
LEMMA Appended ==
    ASSUME NEW s, NEW e, IsSeq(s)
    PROVE  /\ IsSeq(Append(s, e))
           /\ Len(s) \in Nat /\ Len(Append(s, e)) = Len(s) + 1
           /\ Append(s, e)[Len(s) + 1] = e
           /\ \A i \in 1 .. Len(s) : Append(s, e)[i] = s[i]
<1> DEFINE X == {s[i] : i \in DOMAIN s} \cup {e}
           t == Append(s, e)
<1>1. s \in Seq(X) /\ e \in X
  BY DEF IsSeq
<1>2. /\ t \in Seq(X)
      /\ Len(s) \in Nat /\ Len(t) = Len(s) + 1
      /\ t[Len(s) + 1] = e
      /\ \A i \in 1 .. Len(s) : t[i] = s[i]
  <2> HIDE DEF X
  <2> QED BY <1>1
<1>3. t \in Seq({t[i] : i \in DOMAIN t})
  BY <1>2
<1> QED BY <1>2, <1>3 DEF IsSeq

----------------------------------------------------------------------------

\* Any deterministic state machine, and its log.
CONSTANTS Logged, S0, Apply(_, _)
VARIABLES log, states, state, saved, at, applied, mode

Log ==
    INSTANCE DurableLog WITH Commands <- Logged, pos <- applied, phase <- mode

\* There is a state for every prefix of the log, each made of the one before.
History ==
    /\ IsSeq(log) /\ IsSeq(states)
    /\ Len(log) \in Nat /\ Len(states) = Len(log) + 1
    /\ \A i \in 1 .. Len(log) : states[i + 1] = Apply(states[i], log[i])

\* What was in memory when the last command was recorded and not yet applied.
BeforeLast ==
    mode = "recorded" => Len(log) > 0 /\ state = states[Len(log)]

DurableInv ==
    /\ History
    /\ mode \in {"ready", "recorded", "down", "replaying"}
    /\ at \in Nat /\ applied \in Nat
    /\ Log!Exact /\ Log!SavedIsPast /\ Log!ReplayIsPast /\ BeforeLast

LEMMA InitDurable == Log!Init => DurableInv
  BY DEF Log!Init, DurableInv, History, IsSeq, Log!Exact, Log!SavedIsPast, Log!ReplayIsPast,
         BeforeLast

\* A new command leaves what the log and the states say of the past.
LEMMA RecordDurable ==
    ASSUME DurableInv, NEW c \in Logged, Log!Record(c)
    PROVE  DurableInv'
<1> USE DEF DurableInv
<1>1. /\ IsSeq(log') /\ Len(log') = Len(log) + 1 /\ log'[Len(log) + 1] = c
      /\ \A i \in 1 .. Len(log) : log'[i] = log[i]
  BY Appended DEF Log!Record, History
<1>2. /\ IsSeq(states') /\ Len(states') = Len(log) + 2
      /\ states'[Len(log) + 2] = Apply(states[Len(log) + 1], c)
      /\ \A i \in 1 .. Len(log) + 1 : states'[i] = states[i]
  BY Appended DEF Log!Record, History
<1>3. History'
  BY <1>1, <1>2 DEF History
<1>4. Log!SavedIsPast'
  BY <1>1, <1>2 DEF Log!Record, Log!SavedIsPast, History
<1>5. BeforeLast'
  BY <1>1, <1>2 DEF Log!Record, Log!Exact, BeforeLast, History
<1> QED BY <1>3, <1>4, <1>5 DEF Log!Record, Log!Exact, Log!ReplayIsPast

\* The inductive step: each action keeps the invariant.
LEMMA NextDurable == DurableInv /\ [Log!Next]_(Log!vars) => DurableInv'
<1> SUFFICES ASSUME DurableInv, [Log!Next]_(Log!vars) PROVE DurableInv'
  OBVIOUS
<1> USE DEF DurableInv, History, Log!Exact, Log!SavedIsPast, Log!ReplayIsPast, BeforeLast
<1>1. ASSUME NEW c \in Logged, Log!Record(c) PROVE DurableInv'
  BY <1>1, RecordDurable
<1>2. CASE Log!Submit
  BY <1>2 DEF Log!Submit
<1>3. CASE Log!Save
  <2>1. saved' = states[Len(log) + 1]
    BY <1>3 DEF Log!Save
  <2> QED BY <1>3, <2>1 DEF Log!Save
<1>4. CASE Log!Crash
  BY <1>4 DEF Log!Crash
<1>5. CASE Log!Restart
  BY <1>5 DEF Log!Restart
<1>6. CASE Log!Replay
  BY <1>6 DEF Log!Replay
<1>7. CASE Log!Resume
  BY <1>7 DEF Log!Resume
<1>8. CASE UNCHANGED Log!vars
  BY <1>8 DEF Log!vars
<1> QED BY <1>1, <1>2, <1>3, <1>4, <1>5, <1>6, <1>7, <1>8 DEF Log!Next

LEMMA DurableInvariant == Log!Spec => []DurableInv
  BY InitDurable, NextDurable, PTL DEF Log!Spec

\* Whenever the system serves, its state is that of the run that never crashed.
THEOREM RecoveryIsExact == Log!Spec => []Log!Exact
<1>1. DurableInv => Log!Exact
  BY DEF DurableInv
<1> QED BY DurableInvariant, <1>1, PTL

\* The snapshot and a replay in progress are states of that run, too.
THEOREM PastIsKept == Log!Spec => [](Log!SavedIsPast /\ Log!ReplayIsPast)
<1>1. DurableInv => Log!SavedIsPast /\ Log!ReplayIsPast
  BY DEF DurableInv
<1> QED BY DurableInvariant, <1>1, PTL

----------------------------------------------------------------------------
(* What reads a snapshot is a fold over its lines, its orders or its books. *)

\* One turn of each of the folds: of parse(), of the loop of restore(), and of
\* that of restore_engine().
Turn(fold, cfg, x, y) ==
    CASE fold = "parse" -> ParseLine(x, y)
      [] fold = "rest" -> RestRestored(x, y)
      [] fold = "books" -> AddBook(x, y.symbol, RestoreBook(cfg, y.seq, y.orders))

\* r has what the fold has made of s after each of its turns.
Runs(fold, cfg, s, r) ==
    \A i \in 1 .. Len(s) : r[i] = Turn(fold, cfg, r[i - 1], s[i])

\* One unfolding of the fold, for the sets of positions in D.
FoldBody(fold, cfg, base, s, D, it) ==
    [p \in D |-> IF p = {} THEN base
                 ELSE Turn(fold, cfg, it[p \ {Max(p)}], s[Max(p)])]

\* The turn of each of the folds.
LEMMA TurnOf ==
    ASSUME NEW cfg, NEW x, NEW y
    PROVE  /\ Turn("parse", cfg, x, y) = ParseLine(x, y)
           /\ Turn("rest", cfg, x, y) = RestRestored(x, y)
           /\ Turn("books", cfg, x, y) = AddBook(x, y.symbol, RestoreBook(cfg, y.seq, y.orders))
<1>1. Turn("parse", cfg, x, y) = ParseLine(x, y)
  BY DEF Turn
<1>2. Turn("rest", cfg, x, y) = RestRestored(x, y)
  BY DEF Turn
<1>3. Turn("books", cfg, x, y) = AddBook(x, y.symbol, RestoreBook(cfg, y.seq, y.orders))
  BY DEF Turn
<1> QED BY <1>1, <1>2, <1>3

LEMMA MaxIn ==
    ASSUME NEW n \in Nat, NEW p \in SUBSET (1 .. n), p # {}
    PROVE  Max(p) \in p /\ \A x \in p : x <= Max(p)
<1> DEFINE M == {m \in Nat : \A x \in p : x <= m}
<1>1. n \in M
  OBVIOUS
<1>2. PICK m \in Nat : /\ \A x \in p : x <= m
                        /\ \A k \in Nat : (\A y \in p : y <= k) => m <= k
  <2>1. PICK m \in M : \A k \in M : m <= k
    <3> HIDE DEF M
    <3>1. M \subseteq Nat
      BY DEF M
    <3> QED  BY <1>1, <3>1, NatLeast
  <2>2. m \in Nat /\ \A x \in p : x <= m
    BY <2>1
  <2>3. \A k \in Nat : (\A x \in p : x <= k) => k \in M
    OBVIOUS
  <2> QED  BY <2>1, <2>2, <2>3
<1> HIDE DEF M
<1>3. m \in p
  <2>1. SUFFICES ASSUME m \notin p PROVE FALSE
    OBVIOUS
  <2>2. PICK x \in 1 .. n : x \in p /\ x <= m
    BY <1>2
  <2>3. m - 1 \in Nat /\ ~(m <= m - 1)
    BY <1>2, <2>2
  <2>4. ASSUME NEW y \in p PROVE y <= m - 1
    <3>1. y \in Int /\ y <= m /\ y # m
      BY <1>2, <2>1
    <3> QED  BY <3>1
  <2> QED  BY <1>2, <2>3, <2>4
<1>4. \E x \in p : \A y \in p : x >= y
  BY <1>2, <1>3
<1>5. Max(p) \in p /\ \A y \in p : Max(p) >= y
  BY <1>4 DEF Max
<1> QED  BY <1>5

LEMMA MaxShrinks ==
    ASSUME NEW n \in Nat, NEW k \in Nat, NEW p \in Smaller(1 .. n, k + 1), p # {}
    PROVE  p \ {Max(p)} \in Smaller(1 .. n, k)
<1>1. PICK S : S = 1 .. n
  OBVIOUS
<1>2. IsFiniteSet(S) /\ p \in SUBSET S /\ Cardinality(p) <= k + 1
  BY <1>1, FS_Interval DEF Smaller
<1>3. IsFiniteSet(p) /\ Max(p) \in p
  BY <1>1, <1>2, FS_Subset, MaxIn
<1>4. Cardinality(p \ {Max(p)}) = Cardinality(p) - 1 /\ Cardinality(p) \in Nat
  BY <1>3, FS_RemoveElement, FS_CardinalityType
<1>5. p \ {Max(p)} \in SUBSET S /\ Cardinality(p \ {Max(p)}) <= k
  BY <1>2, <1>4
<1> QED  BY <1>1, <1>5 DEF Smaller

LEMMA FoldExists ==
    ASSUME NEW n \in Nat, NEW fold, NEW cfg, NEW base, NEW s
    PROVE  \E it : it = FoldBody(fold, cfg, base, s, SUBSET (1 .. n), it)
<1> DEFINE S == 1 .. n
           N == {k \in Nat : \E it : it = FoldBody(fold, cfg, base, s, Smaller(S, k), it)}
<1>0. IsFiniteSet(S)
  BY FS_Interval
<1>1. 0 \in N
  <2> DEFINE it == [p \in Smaller(S, 0) |-> base]
  <2>1. \A p \in Smaller(S, 0) : p = {}
    <3> SUFFICES ASSUME NEW p \in Smaller(S, 0) PROVE p = {}
      OBVIOUS
    <3>1. IsFiniteSet(p) /\ Cardinality(p) \in Nat /\ Cardinality(p) <= 0
      BY <1>0, FS_Subset, FS_CardinalityType DEF Smaller
    <3> QED  BY <3>1, FS_EmptySet
  <2>2. it = FoldBody(fold, cfg, base, s, Smaller(S, 0), it)
    BY <2>1 DEF FoldBody
  <2> QED  BY <2>2
<1>2. ASSUME NEW k \in Nat, k \in N
      PROVE  k + 1 \in N
  <2>1. PICK it : it = FoldBody(fold, cfg, base, s, Smaller(S, k), it)
    BY <1>2
  <2> DEFINE h == FoldBody(fold, cfg, base, s, Smaller(S, k + 1), it)
  <2>2. Smaller(S, k) \subseteq Smaller(S, k + 1)
    <3> SUFFICES ASSUME NEW p \in Smaller(S, k) PROVE p \in Smaller(S, k + 1)
      OBVIOUS
    <3>1. IsFiniteSet(p) /\ Cardinality(p) \in Nat /\ Cardinality(p) <= k
      BY <1>0, FS_Subset, FS_CardinalityType DEF Smaller
    <3> QED  BY <3>1 DEF Smaller
  <2>3. \A t \in Smaller(S, k) : h[t] = it[t]
    BY <2>1, <2>2 DEF FoldBody
  <2>4. \A p \in Smaller(S, k + 1) : p # {} => h[p \ {Max(p)}] = it[p \ {Max(p)}]
    BY <2>3, MaxShrinks
  <2>5. h = FoldBody(fold, cfg, base, s, Smaller(S, k + 1), h)
    <3> HIDE DEF h
    <3>1. h = FoldBody(fold, cfg, base, s, Smaller(S, k + 1), it)
      BY DEF h
    <3> QED  BY <3>1, <2>4 DEF FoldBody
  <2> HIDE DEF h
  <2> QED  BY <2>5
<1>3. \A k \in Nat : k \in N
  <2> HIDE DEF N
  <2> QED  BY <1>1, <1>2, NatInductive
<1>4. Cardinality(S) \in Nat /\ Smaller(S, Cardinality(S)) = SUBSET S
  BY <1>0, FS_CardinalityType, FS_Subset DEF Smaller
<1> QED  BY <1>3, <1>4

\* it tells what the fold makes of the first n elements of s, and r has it.
FoldTells(n, fold, cfg, base, s, it) ==
    it = FoldBody(fold, cfg, base, s, SUBSET (1 .. n), it)

RunsFrom(n, fold, cfg, base, s, r) ==
    r[0] = base /\ \A i \in 1 .. n : r[i] = Turn(fold, cfg, r[i - 1], s[i])

\* The fold over the first positions is what a run has after them.
LEMMA FoldRuns ==
    ASSUME NEW n \in Nat, NEW fold, NEW cfg, NEW base, NEW s,
           NEW it, FoldTells(n, fold, cfg, base, s, it),
           NEW r, RunsFrom(n, fold, cfg, base, s, r)
    PROVE  it[1 .. n] = r[n]
<1> USE DEF FoldTells, RunsFrom
<1> DEFINE T == {k \in Nat : k <= n => it[1 .. k] = r[k]}
<1>1. 0 \in T
  <2>1. 1 .. 0 = {}
    OBVIOUS
  <2>2. it[{}] = base
    <3>1. {} \in SUBSET (1 .. n)
      OBVIOUS
    <3> QED  BY <3>1 DEF FoldBody
  <2> QED  BY <2>1, <2>2
<1>2. ASSUME NEW k \in Nat, k \in T
      PROVE  k + 1 \in T
  <2> SUFFICES ASSUME k + 1 <= n PROVE it[1 .. (k + 1)] = r[k + 1]
    OBVIOUS
  <2>1. PICK p : p = 1 .. (k + 1)
    OBVIOUS
  <2>2. p \in SUBSET (1 .. n) /\ p # {} /\ k + 1 \in p
    <3>1. \A i \in 1 .. (k + 1) : i \in 1 .. n
      OBVIOUS
    <3>2. k + 1 \in 1 .. (k + 1)
      OBVIOUS
    <3> QED  BY <2>1, <3>1, <3>2
  <2>3. Max(p) = k + 1
    <3>1. Max(p) \in p /\ k + 1 <= Max(p)
      BY <2>2, MaxIn
    <3> QED  BY <2>1, <3>1
  <2>4. p \ {k + 1} = 1 .. k
    BY <2>1
  <2>5. it[p] = Turn(fold, cfg, it[1 .. k], s[k + 1])
    BY <2>2, <2>3, <2>4, ZenonT(30) DEF FoldBody
  <2>6. it[1 .. k] = r[k]
    BY <1>2
  <2>7. r[k + 1] = Turn(fold, cfg, r[k], s[k + 1])
    <3>1. k + 1 \in 1 .. n /\ (k + 1) - 1 = k
      OBVIOUS
    <3> QED  BY <3>1
  <2> QED  BY <2>1, <2>5, <2>6, <2>7
<1>3. \A k \in Nat : k \in T
  <2> HIDE DEF T
  <2> QED  BY <1>1, <1>2, NatInductive
<1> QED  BY <1>3

\* What a fold makes of a sequence is what a run has at its end.
LEMMA ParseRuns ==
    ASSUME NEW file, NEW cfg, Len(file) \in Nat, DOMAIN file = 1 .. Len(file),
           NEW r, r[0] = [cfg |-> DefaultConfig, books |-> <<>>],
           Runs("parse", cfg, file, r)
    PROVE  Parse(file) = r[Len(file)]
<1> DEFINE D == SUBSET (DOMAIN file)
           base == [cfg |-> DefaultConfig, books |-> <<>>]
           it == CHOOSE it : it = [p \in D |-> IF p = {} THEN base
                                               ELSE ParseLine(it[p \ {Max(p)}], file[Max(p)])]
<1>1. Parse(file) = it[DOMAIN file]
  BY DEF Parse, FoldLeft, MapThenFoldSet
<1>2. \A g : g = FoldBody("parse", cfg, base, file, D, g)
               <=> g = [p \in D |-> IF p = {} THEN base
                                   ELSE ParseLine(g[p \ {Max(p)}], file[Max(p)])]
  <2> HIDE DEF D, base
  <2>1. ASSUME NEW g
        PROVE  FoldBody("parse", cfg, base, file, D, g)
                 = [p \in D |-> IF p = {} THEN base
                                ELSE ParseLine(g[p \ {Max(p)}], file[Max(p)])]
    <3>1. \A p \in D : Turn("parse", cfg, g[p \ {Max(p)}], file[Max(p)])
                         = ParseLine(g[p \ {Max(p)}], file[Max(p)])
      BY TurnOf
    <3> QED  BY <3>1 DEF FoldBody
  <2> QED  BY <2>1
<1>3. \E g : g = FoldBody("parse", cfg, base, file, D, g)
  <2> HIDE DEF base
  <2>1. PICK n \in Nat : n = Len(file) /\ D = SUBSET (1 .. n)
    OBVIOUS
  <2>2. \E g : g = FoldBody("parse", cfg, base, file, SUBSET (1 .. n), g)
    BY FoldExists
  <2> HIDE DEF D
  <2> QED  BY <2>1, <2>2
<1>4. it = FoldBody("parse", cfg, base, file, D, it)
  <2> HIDE DEF D, base
  <2>1. \E g : g = [p \in D |-> IF p = {} THEN base ELSE ParseLine(g[p \ {Max(p)}], file[Max(p)])]
    BY <1>2, <1>3
  <2>2. it = [p \in D |-> IF p = {} THEN base ELSE ParseLine(it[p \ {Max(p)}], file[Max(p)])]
    BY <2>1
  <2> QED  BY <1>2, <2>2
<1> HIDE DEF it, base
<1>5. r[0] = base
  BY DEF base
<1>6. it[1 .. Len(file)] = r[Len(file)]
  <2>1. PICK n \in Nat : n = Len(file) /\ DOMAIN file = 1 .. n
    OBVIOUS
  <2>2. FoldTells(n, "parse", cfg, base, file, it)
    BY <1>4, <2>1 DEF FoldTells
  <2>3. RunsFrom(n, "parse", cfg, base, file, r)
    BY <1>5, <2>1 DEF Runs, RunsFrom
  <2>4. it[1 .. n] = r[n]
    BY <2>2, <2>3, FoldRuns
  <2> QED  BY <2>1, <2>4
<1> QED  BY <1>1, <1>6

LEMMA RestoreRuns ==
    ASSUME NEW orders, NEW cfg, NEW seq, Len(orders) \in Nat, DOMAIN orders = 1 .. Len(orders),
           NEW r, r[0] = [NewBook(cfg) EXCEPT !.seq = seq],
           Runs("rest", cfg, orders, r)
    PROVE  RestoreBook(cfg, seq, orders) = r[Len(orders)]
<1> DEFINE D == SUBSET (DOMAIN orders)
           base == [NewBook(cfg) EXCEPT !.seq = seq]
           it == CHOOSE it : it = [p \in D |-> IF p = {} THEN base
                                               ELSE RestRestored(it[p \ {Max(p)}], orders[Max(p)])]
<1>1. RestoreBook(cfg, seq, orders) = it[DOMAIN orders]
  BY DEF RestoreBook, FoldLeft, MapThenFoldSet
<1>2. \A g : g = FoldBody("rest", cfg, base, orders, D, g)
               <=> g = [p \in D |-> IF p = {} THEN base
                                   ELSE RestRestored(g[p \ {Max(p)}], orders[Max(p)])]
  <2> HIDE DEF D, base
  <2>1. ASSUME NEW g
        PROVE  FoldBody("rest", cfg, base, orders, D, g)
                 = [p \in D |-> IF p = {} THEN base
                                ELSE RestRestored(g[p \ {Max(p)}], orders[Max(p)])]
    <3>1. \A p \in D : Turn("rest", cfg, g[p \ {Max(p)}], orders[Max(p)])
                         = RestRestored(g[p \ {Max(p)}], orders[Max(p)])
      BY TurnOf
    <3> QED  BY <3>1 DEF FoldBody
  <2> QED  BY <2>1
<1>3. \E g : g = FoldBody("rest", cfg, base, orders, D, g)
  <2> HIDE DEF base
  <2>1. PICK n \in Nat : n = Len(orders) /\ D = SUBSET (1 .. n)
    OBVIOUS
  <2>2. \E g : g = FoldBody("rest", cfg, base, orders, SUBSET (1 .. n), g)
    BY FoldExists
  <2> HIDE DEF D
  <2> QED  BY <2>1, <2>2
<1>4. it = FoldBody("rest", cfg, base, orders, D, it)
  <2> HIDE DEF D, base
  <2>1. \E g : g = [p \in D |-> IF p = {} THEN base ELSE RestRestored(g[p \ {Max(p)}], orders[Max(p)])]
    BY <1>2, <1>3
  <2>2. it = [p \in D |-> IF p = {} THEN base ELSE RestRestored(it[p \ {Max(p)}], orders[Max(p)])]
    BY <2>1
  <2> QED  BY <1>2, <2>2
<1> HIDE DEF it, base
<1>5. r[0] = base
  BY DEF base
<1>6. it[1 .. Len(orders)] = r[Len(orders)]
  <2>1. PICK n \in Nat : n = Len(orders) /\ DOMAIN orders = 1 .. n
    OBVIOUS
  <2>2. FoldTells(n, "rest", cfg, base, orders, it)
    BY <1>4, <2>1 DEF FoldTells
  <2>3. RunsFrom(n, "rest", cfg, base, orders, r)
    BY <1>5, <2>1 DEF Runs, RunsFrom
  <2>4. it[1 .. n] = r[n]
    BY <2>2, <2>3, FoldRuns
  <2> QED  BY <2>1, <2>4
<1> QED  BY <1>1, <1>6

LEMMA BooksRun ==
    ASSUME NEW from, Len(from.books) \in Nat, DOMAIN from.books = 1 .. Len(from.books),
           NEW r, r[0] = NewEngine(from.cfg),
           Runs("books", from.cfg, from.books, r)
    PROVE  RestoreEngine(from) = r[Len(from.books)]
<1> DEFINE D == SUBSET (DOMAIN from.books)
           base == NewEngine(from.cfg)
           it == CHOOSE it : it = [p \in D |-> IF p = {} THEN base
                                               ELSE AddBook(it[p \ {Max(p)}], from.books[Max(p)].symbol,
                                                            RestoreBook(from.cfg, from.books[Max(p)].seq, from.books[Max(p)].orders))]
<1>1. RestoreEngine(from) = it[DOMAIN from.books]
  BY DEF RestoreEngine, FoldLeft, MapThenFoldSet
<1>2. \A g : g = FoldBody("books", from.cfg, base, from.books, D, g)
               <=> g = [p \in D |-> IF p = {} THEN base
                                   ELSE AddBook(g[p \ {Max(p)}], from.books[Max(p)].symbol,
                                                RestoreBook(from.cfg, from.books[Max(p)].seq, from.books[Max(p)].orders))]
  <2> HIDE DEF D, base
  <2>1. ASSUME NEW g
        PROVE  FoldBody("books", from.cfg, base, from.books, D, g)
                 = [p \in D |-> IF p = {} THEN base
                                ELSE AddBook(g[p \ {Max(p)}], from.books[Max(p)].symbol,
                                                  RestoreBook(from.cfg, from.books[Max(p)].seq,
                                                              from.books[Max(p)].orders))]
    <3>1. \A p \in D : Turn("books", from.cfg, g[p \ {Max(p)}], from.books[Max(p)])
                         = AddBook(g[p \ {Max(p)}], from.books[Max(p)].symbol,
                                                  RestoreBook(from.cfg, from.books[Max(p)].seq,
                                                              from.books[Max(p)].orders))
      BY TurnOf
    <3> QED  BY <3>1 DEF FoldBody
  <2> QED  BY <2>1
<1>3. \E g : g = FoldBody("books", from.cfg, base, from.books, D, g)
  <2> HIDE DEF base
  <2>1. PICK n \in Nat : n = Len(from.books) /\ D = SUBSET (1 .. n)
    OBVIOUS
  <2>2. \E g : g = FoldBody("books", from.cfg, base, from.books, SUBSET (1 .. n), g)
    BY FoldExists
  <2> HIDE DEF D
  <2> QED  BY <2>1, <2>2
<1>4. it = FoldBody("books", from.cfg, base, from.books, D, it)
  <2> HIDE DEF D, base
  <2>1. \E g : g = [p \in D |-> IF p = {} THEN base ELSE AddBook(g[p \ {Max(p)}], from.books[Max(p)].symbol,
                                                                 RestoreBook(from.cfg, from.books[Max(p)].seq, from.books[Max(p)].orders))]
    BY <1>2, <1>3
  <2>2. it = [p \in D |-> IF p = {} THEN base ELSE AddBook(it[p \ {Max(p)}], from.books[Max(p)].symbol,
                                                           RestoreBook(from.cfg, from.books[Max(p)].seq, from.books[Max(p)].orders))]
    BY <2>1
  <2> QED  BY <1>2, <2>2
<1> HIDE DEF it, base
<1>5. r[0] = base
  BY DEF base
<1>6. it[1 .. Len(from.books)] = r[Len(from.books)]
  <2>1. PICK n \in Nat : n = Len(from.books) /\ DOMAIN from.books = 1 .. n
    OBVIOUS
  <2>2. FoldTells(n, "books", from.cfg, base, from.books, it)
    BY <1>4, <2>1 DEF FoldTells
  <2>3. RunsFrom(n, "books", from.cfg, base, from.books, r)
    BY <1>5, <2>1 DEF Runs, RunsFrom
  <2>4. it[1 .. n] = r[n]
    BY <2>2, <2>3, FoldRuns
  <2> QED  BY <2>1, <2>4
<1> QED  BY <1>1, <1>6

----------------------------------------------------------------------------
(* The book of an engine.                                                  *)

\* The orders of journaled commands at rest.
Kept == [id : Nat, price : Int, qty : Int, tif : Tifs]

\* Best price first; no id comes twice.
Sorted(side, o) ==
    \A i, j \in DOMAIN o : i <= j => AtLeastAsGood(side, o[i].price, o[j].price)

Distinct(b) ==
    \A s, t \in Sides : \A i \in DOMAIN b[s], j \in DOMAIN b[t] :
       b[s][i].id = b[t][j].id => s = t /\ i = j

Sound(b) ==
    /\ b \in [Sides -> Seq(Kept)]
    /\ \A s \in Sides : Sorted(s, b[s])
    /\ Distinct(b)

CountOf(b, s) == Len(b[s])

Held(b) == CountOf(b, "Bid") + CountOf(b, "Ask")

LEMMA KeptFacts ==
    ASSUME NEW o \in Seq(Kept)
    PROVE  /\ Len(o) \in Nat /\ DOMAIN o = 1 .. Len(o)
           /\ \A i \in 1 .. Len(o) :
                /\ o[i] \in Kept /\ o[i].id \in Nat /\ o[i].price \in Int
                /\ o[i].qty \in Int /\ o[i].tif \in Tifs
                /\ o[i] = [id |-> o[i].id, price |-> o[i].price,
                           qty |-> o[i].qty, tif |-> o[i].tif]
<1>1. \A r \in Kept : /\ r.id \in Nat /\ r.price \in Int /\ r.qty \in Int /\ r.tif \in Tifs
                      /\ r = [id |-> r.id, price |-> r.price, qty |-> r.qty, tif |-> r.tif]
  BY DEF Kept
<1>2. Len(o) \in Nat /\ DOMAIN o = 1 .. Len(o) /\ \A i \in 1 .. Len(o) : o[i] \in Kept
  OBVIOUS
<1> QED BY <1>1, <1>2

LEMMA SideFacts ==
    ASSUME NEW b, Sound(b), NEW s \in Sides
    PROVE  /\ b[s] \in Seq(Kept) /\ Len(b[s]) \in Nat /\ DOMAIN b[s] = 1 .. Len(b[s])
           /\ Sorted(s, b[s])
<1>1. b[s] \in Seq(Kept) /\ Sorted(s, b[s])
  BY DEF Sound
<1> QED BY <1>1, KeptFacts

\* The ids of a book are as many as its orders.
LEMMA LiveAreHeld ==
    ASSUME NEW b, Sound(b)
    PROVE  Cardinality(LiveIds(b)) = Held(b) /\ Held(b) \in Nat
<1> DEFINE B == IdsOf(b, "Bid")
           A == IdsOf(b, "Ask")
<1>0. "Bid" \in Sides /\ "Ask" \in Sides
  BY DEF Sides
<1>1. ASSUME NEW s \in Sides
      PROVE  /\ Cardinality(IdsOf(b, s)) = Len(b[s]) /\ IsFiniteSet(IdsOf(b, s))
  <2>1. PICK k \in Nat : k = Len(b[s]) /\ DOMAIN b[s] = 1 .. k
    BY SideFacts
  <2>2. PICK f : f = [i \in 1 .. k |-> b[s][i].id]
    OBVIOUS
  <2>3. \A i, j \in 1 .. k : f[i] = f[j] => i = j
    BY <2>1, <2>2 DEF Sound, Distinct
  <2>4. {f[i] : i \in 1 .. k} = IdsOf(b, s)
    BY <2>1, <2>2 DEF IdsOf
  <2>5. Cardinality({f[i] : i \in 1 .. k}) = k
    BY <2>3, ImageCount
  <2>6. f \in Surjection(1 .. k, {f[i] : i \in 1 .. k}) /\ IsFiniteSet(1 .. k)
    <3>1. f \in [1 .. k -> {f[i] : i \in 1 .. k}]
      BY <2>2
    <3>2. IsFiniteSet(1 .. k)
      BY FS_Interval
    <3> QED BY <3>1, <3>2 DEF Surjection
  <2>7. IsFiniteSet({f[i] : i \in 1 .. k})
    BY <2>6, FS_Surjection
  <2> QED BY <2>1, <2>4, <2>5, <2>7
<1>2. A \cap B = {}
  <2> SUFFICES ASSUME NEW x, x \in A, x \in B PROVE FALSE
    OBVIOUS
  <2>1. PICK i \in DOMAIN b["Ask"] : b["Ask"][i].id = x
    BY DEF IdsOf
  <2>2. PICK j \in DOMAIN b["Bid"] : b["Bid"][j].id = x
    BY DEF IdsOf
  <2> QED BY <1>0, <2>1, <2>2 DEF Sound, Distinct
<1>3. /\ Cardinality(A) = CountOf(b, "Ask") /\ IsFiniteSet(A)
      /\ Cardinality(B) = CountOf(b, "Bid") /\ IsFiniteSet(B)
  BY <1>0, <1>1 DEF CountOf
<1> HIDE DEF A, B
<1>4. Cardinality(B \cup A) = Cardinality(B) + Cardinality(A) - Cardinality(B \cap A)
  BY <1>3, FS_Union
<1>5. B \cap A = {} /\ Cardinality({}) = 0
  BY <1>2, FS_EmptySet
<1>6. LiveIds(b) = B \cup A
  BY DEF LiveIds, A, B
<1>7. CountOf(b, "Bid") \in Nat /\ CountOf(b, "Ask") \in Nat
  BY <1>0, SideFacts DEF CountOf
<1>8. Cardinality(B \cap A) = 0
  BY <1>5
<1>9. PICK x \in Nat, y \in Nat : x = CountOf(b, "Bid") /\ y = CountOf(b, "Ask")
  BY <1>7
<1>10. Cardinality(LiveIds(b)) = x + y
  BY <1>3, <1>4, <1>6, <1>8, <1>9
<1> QED BY <1>9, <1>10 DEF Held

----------------------------------------------------------------------------
(* Books that lose orders.                                                 *)

\* The orders p are some of o, in the same order; only their quantities may be
\* others.  h tells which.
Follows(o, p, h) ==
    /\ h \in [1 .. Len(p) -> 1 .. Len(o)]
    /\ \A i, j \in 1 .. Len(p) : i < j => h[i] < h[j]
    /\ \A i \in 1 .. Len(p) : p[i].id = o[h[i]].id /\ p[i].price = o[h[i]].price

Thins(o, p) ==
    p \in Seq(Kept) /\ Len(p) <= Len(o) /\ \E h : Follows(o, p, h)

LEMMA SameThins ==
    ASSUME NEW o \in Seq(Kept), NEW p \in Seq(Kept), Len(p) = Len(o),
           \A i \in 1 .. Len(o) : p[i].id = o[i].id /\ p[i].price = o[i].price
    PROVE  Thins(o, p)
<1> DEFINE h == [i \in 1 .. Len(p) |-> i]
<1>1. Follows(o, p, h)
  BY DEF Follows
<1>2. Len(p) <= Len(o)
  BY KeptFacts
<1> HIDE DEF h
<1> QED BY <1>1, <1>2 DEF Thins

LEMMA DropThins ==
    ASSUME NEW o \in Seq(Kept), NEW p \in Seq(Kept), NEW i \in DOMAIN o, Drops(o, p, i)
    PROVE  Thins(o, p)
<1> DEFINE h == [j \in 1 .. Len(p) |-> IF j < i THEN j ELSE j + 1]
<1>1. /\ Len(o) \in Nat /\ i \in 1 .. Len(o) /\ Len(p) = Len(o) - 1
      /\ \A j \in 1 .. (Len(o) - 1) : p[j] = IF j < i THEN o[j] ELSE o[j + 1]
  BY KeptFacts DEF Drops
<1>2. \A j \in 1 .. Len(p) : h[j] = IF j < i THEN j ELSE j + 1
  OBVIOUS
<1>3. h \in [1 .. Len(p) -> 1 .. Len(o)]
  BY <1>1
<1> HIDE DEF h
<1>4. \A j, k \in 1 .. Len(p) : j < k => h[j] < h[k]
  BY <1>1, <1>2
<1>5. \A j \in 1 .. Len(p) : p[j] = o[h[j]]
  BY <1>1, <1>2
<1>6. Follows(o, p, h)
  BY <1>3, <1>4, <1>5 DEF Follows
<1> QED BY <1>1, <1>6 DEF Thins

\* A book whose sides are thinned is sound, and has no new id.
ThinsBook(b, c) ==
    c \in [Sides -> Seq(Kept)] /\ \A s \in Sides : Thins(b[s], c[s])

LEMMA ThinIsSound ==
    ASSUME NEW b, Sound(b), NEW c, ThinsBook(b, c)
    PROVE  /\ Sound(c) /\ Held(c) <= Held(b)
           /\ LiveIds(c) \subseteq LiveIds(b)
<1>0. "Bid" \in Sides /\ "Ask" \in Sides
  BY DEF Sides
<1>1. ASSUME NEW s \in Sides
      PROVE  \E h : Follows(b[s], c[s], h)
  BY DEF ThinsBook, Thins
<1>2. ASSUME NEW s \in Sides
      PROVE  /\ c[s] \in Seq(Kept) /\ Len(c[s]) \in Nat /\ DOMAIN c[s] = 1 .. Len(c[s])
             /\ b[s] \in Seq(Kept) /\ Len(b[s]) \in Nat /\ DOMAIN b[s] = 1 .. Len(b[s])
             /\ Len(c[s]) <= Len(b[s]) /\ Sorted(s, b[s])
  <2>1. c[s] \in Seq(Kept) /\ Len(c[s]) <= Len(b[s])
    BY DEF ThinsBook, Thins
  <2> QED BY <2>1, SideFacts, KeptFacts
<1>3. ASSUME NEW s \in Sides
      PROVE  Sorted(s, c[s])
  <2> SUFFICES ASSUME NEW i \in DOMAIN c[s], NEW j \in DOMAIN c[s], i <= j
               PROVE  AtLeastAsGood(s, c[s][i].price, c[s][j].price)
    BY DEF Sorted
  <2>1. PICK h : Follows(b[s], c[s], h)
    BY <1>1
  <2>2. i \in 1 .. Len(c[s]) /\ j \in 1 .. Len(c[s])
    BY <1>2
  <2>3. h[i] \in DOMAIN b[s] /\ h[j] \in DOMAIN b[s] /\ h[i] <= h[j]
    <3>1. h[i] \in 1 .. Len(b[s]) /\ h[j] \in 1 .. Len(b[s])
      BY <2>1, <2>2 DEF Follows
    <3>2. i < j => h[i] < h[j]
      BY <2>1, <2>2 DEF Follows
    <3>3. i < j \/ i = j
      BY <2>2
    <3> QED BY <1>2, <3>1, <3>2, <3>3
  <2>4. AtLeastAsGood(s, b[s][h[i]].price, b[s][h[j]].price)
    BY <1>2, <2>3 DEF Sorted
  <2>5. c[s][i].price = b[s][h[i]].price /\ c[s][j].price = b[s][h[j]].price
    BY <2>1, <2>2 DEF Follows
  <2> QED BY <2>4, <2>5
<1>4. Distinct(c)
  <2> SUFFICES ASSUME NEW s \in Sides, NEW t \in Sides,
                      NEW i \in DOMAIN c[s], NEW j \in DOMAIN c[t], c[s][i].id = c[t][j].id
               PROVE  s = t /\ i = j
    BY DEF Distinct
  <2>1. PICK h : Follows(b[s], c[s], h)
    BY <1>1
  <2>2. PICK g : Follows(b[t], c[t], g)
    BY <1>1
  <2>3. i \in 1 .. Len(c[s]) /\ j \in 1 .. Len(c[t])
    BY <1>2
  <2>4. h[i] \in DOMAIN b[s] /\ c[s][i].id = b[s][h[i]].id
    BY <1>2, <2>1, <2>3 DEF Follows
  <2>5. g[j] \in DOMAIN b[t] /\ c[t][j].id = b[t][g[j]].id
    BY <1>2, <2>2, <2>3 DEF Follows
  <2>6. s = t /\ h[i] = g[j]
    <3>1. PICK m \in DOMAIN b[s] : m = h[i]
      BY <2>4
    <3>2. PICK n \in DOMAIN b[t] : n = g[j]
      BY <2>5
    <3>3. b[s][m].id = b[t][n].id
      BY <2>4, <2>5, <3>1, <3>2
    <3>4. Distinct(b)
      BY DEF Sound
    <3>5. s = t /\ m = n
      BY <3>3, <3>4 DEF Distinct
    <3> QED BY <3>1, <3>2, <3>5
  <2>7. PICK k \in 1 .. Len(c[s]) : k = j
    BY <2>3, <2>6
  <2>9. i = j
    <3>1. c[t][j].id = b[s][h[i]].id
      BY <2>4
    <3>2. CASE i < k
      <4>1. h[i] < h[k] /\ h[k] \in 1 .. Len(b[s]) /\ c[s][k].id = b[s][h[k]].id /\ h[i] \in 1 .. Len(b[s])
        BY <2>1, <2>3, <3>2 DEF Follows
      <4>2. b[s][h[k]].id = b[s][h[i]].id
        BY <2>6, <2>7, <3>1, <4>1
      <4>3. h[k] = h[i]
        BY <1>2, <4>1, <4>2 DEF Sound, Distinct
      <4> QED BY <4>1, <4>3
    <3>3. CASE k < i
      <4>1. h[k] < h[i] /\ h[k] \in 1 .. Len(b[s]) /\ c[s][k].id = b[s][h[k]].id /\ h[i] \in 1 .. Len(b[s])
        BY <2>1, <2>3, <3>3 DEF Follows
      <4>2. b[s][h[k]].id = b[s][h[i]].id
        BY <2>6, <2>7, <3>1, <4>1
      <4>3. h[k] = h[i]
        BY <1>2, <4>1, <4>2 DEF Sound, Distinct
      <4> QED BY <4>1, <4>3
    <3> QED BY <2>3, <2>7, <3>2, <3>3
  <2> QED BY <2>6, <2>9
<1>5. LiveIds(c) \subseteq LiveIds(b)
  <2>1. ASSUME NEW s \in Sides, NEW x \in IdsOf(c, s)
        PROVE  x \in IdsOf(b, s)
    <3>1. PICK i \in DOMAIN c[s] : c[s][i].id = x
      BY DEF IdsOf
    <3>2. PICK h : Follows(b[s], c[s], h)
      BY <1>1
    <3>3. h[i] \in DOMAIN b[s] /\ c[s][i].id = b[s][h[i]].id
      BY <1>2, <3>2 DEF Follows
    <3> QED BY <3>1, <3>3 DEF IdsOf
  <2> QED BY <1>0, <2>1 DEF LiveIds
<1>6. Held(c) <= Held(b)
  <2>1. \A s \in Sides : /\ CountOf(c, s) \in Nat /\ CountOf(b, s) \in Nat
                         /\ CountOf(c, s) <= CountOf(b, s)
    BY <1>2 DEF CountOf
  <2> QED BY <1>0, <2>1 DEF Held
<1> QED BY <1>3, <1>4, <1>5, <1>6 DEF Sound, ThinsBook

----------------------------------------------------------------------------
(* A book that an order joins.                                             *)

LEMMA JoinedAt ==
    ASSUME NEW side \in Sides, NEW own \in Seq(Kept), Sorted(side, own), NEW o \in Kept
    PROVE  \E c \in 0 .. Len(own) :
             /\ \A i \in 1 .. Len(own) :
                  i <= c <=> AtLeastAsGood(side, own[i].price, o.price)
             /\ Joined(side, own, o) \in Seq(Kept)
             /\ Inserted(own, Joined(side, own, o), c, o)
<1>1. /\ Len(own) \in Nat /\ DOMAIN own = 1 .. Len(own)
      /\ \A i \in 1 .. Len(own) : own[i].price \in Int
      /\ o.price \in Int
  <2>1. o.price \in Int
    BY DEF Kept
  <2> QED BY <2>1, KeptFacts
<1>2. PICK S : S = {i \in DOMAIN own : AtLeastAsGood(side, own[i].price, o.price)}
  OBVIOUS
<1>3. S \in SUBSET (1 .. Len(own))
  BY <1>1, <1>2
<1>4. \A i \in S : \A j \in 1 .. i : j \in S
  <2> SUFFICES ASSUME NEW i \in S, NEW j \in 1 .. i
               PROVE  j \in S
    OBVIOUS
  <2>1. i \in DOMAIN own /\ j \in DOMAIN own /\ j <= i
    BY <1>1, <1>3
  <2>2. AtLeastAsGood(side, own[j].price, own[i].price)
    BY <2>1 DEF Sorted
  <2>3. AtLeastAsGood(side, own[i].price, o.price)
    BY <1>2
  <2>4. own[i].price \in Int /\ own[j].price \in Int
    BY <1>1, <2>1
  <2>5. AtLeastAsGood(side, own[j].price, o.price)
    BY <1>1, <2>2, <2>3, <2>4 DEF AtLeastAsGood
  <2> QED BY <1>2, <2>1, <2>5
<1>5. PICK c \in 0 .. Len(own) : c = Cardinality(S) /\ S = 1 .. c
  BY <1>1, <1>3, <1>4, InitialSegment
<1>6. \A i \in 1 .. Len(own) : i <= c <=> i \in S
  <2>1. c \in Nat /\ \A i \in 1 .. Len(own) : i <= c <=> i \in 1 .. c
    BY <1>1
  <2> QED BY <1>5, <2>1
<1>7. Joined(side, own, o) = (SubSeq(own, 1, c) \o <<o>>) \o SubSeq(own, c + 1, Len(own))
  <2>1. (c + 1) - 1 = c
    OBVIOUS
  <2>2. Joined(side, own, o) = InsertAt(own, c + 1, o)
    BY <1>2, <1>5 DEF Joined
  <2> QED BY <2>1, <2>2 DEF InsertAt
<1>8. Joined(side, own, o) \in Seq(Kept) /\ Inserted(own, Joined(side, own, o), c, o)
  BY <1>7, InsertAdds
<1>9. \A i \in 1 .. Len(own) : i <= c <=> AtLeastAsGood(side, own[i].price, o.price)
  BY <1>1, <1>2, <1>6
<1> QED BY <1>8, <1>9

\* Where the orders of a side are from that order o has joined at c + 1.
AreFrom(own, M, c, o) ==
    /\ Len(own) \in Nat /\ DOMAIN M = 1 .. (Len(own) + 1)
    /\ \A i \in DOMAIN M :
         \/ i = c + 1 /\ M[i] = o
         \/ /\ i # c + 1
            /\ \E m \in 1 .. Len(own) : M[i] = own[m] /\ m = IF i <= c THEN i ELSE i - 1

LEMMA InsertedFrom ==
    ASSUME NEW own \in Seq(Kept), NEW M, NEW c \in 0 .. Len(own), NEW o,
           M \in Seq(Kept), Inserted(own, M, c, o)
    PROVE  AreFrom(own, M, c, o)
<1>1. Len(own) \in Nat /\ DOMAIN M = 1 .. Len(M) /\ Len(M) = Len(own) + 1
  BY KeptFacts DEF Inserted
<1>2. ASSUME NEW i \in 1 .. (Len(own) + 1)
      PROVE  \/ i = c + 1 /\ M[i] = o
             \/ /\ i # c + 1
                /\ \E m \in 1 .. Len(own) : M[i] = own[m] /\ m = IF i <= c THEN i ELSE i - 1
  <2>1. M[i] = IF i <= c THEN own[i] ELSE IF i = c + 1 THEN o ELSE own[i - 1]
    BY DEF Inserted
  <2>2. CASE i <= c
    <3>1. i \in 1 .. Len(own) /\ i # c + 1
      BY <1>1, <2>2
    <3> QED BY <2>1, <2>2, <3>1
  <2>3. CASE i = c + 1
    <3>1. ~(i <= c)
      BY <1>1, <2>3
    <3> QED BY <2>1, <2>3, <3>1
  <2>4. CASE i > c + 1
    <3>1. i - 1 \in 1 .. Len(own) /\ i # c + 1 /\ ~(i <= c)
      BY <1>1, <2>4
    <3> QED BY <2>1, <2>4, <3>1
  <2> QED BY <1>1, <2>2, <2>3, <2>4
<1> QED BY <1>1, <1>2 DEF AreFrom

LEMMA JoinedSorted ==
    ASSUME NEW side \in Sides, NEW own \in Seq(Kept), Sorted(side, own), NEW o \in Kept
    PROVE  Sorted(side, Joined(side, own, o))
<1>1. PICK M : M = Joined(side, own, o)
  OBVIOUS
<1>2. PICK c \in 0 .. Len(own) :
         /\ \A i \in 1 .. Len(own) :
              i <= c <=> AtLeastAsGood(side, own[i].price, o.price)
         /\ M \in Seq(Kept) /\ Inserted(own, M, c, o)
  BY <1>1, JoinedAt
<1>3. /\ Len(own) \in Nat /\ DOMAIN own = 1 .. Len(own)
      /\ \A i \in 1 .. Len(own) : own[i].price \in Int
      /\ o.price \in Int
  <2>1. o.price \in Int
    BY DEF Kept
  <2> QED BY <2>1, KeptFacts
<1>4. /\ DOMAIN M = 1 .. (Len(own) + 1)
      /\ \A i \in DOMAIN M :
           \/ i = c + 1 /\ M[i] = o
           \/ /\ i # c + 1
              /\ \E m \in 1 .. Len(own) : M[i] = own[m] /\ m = IF i <= c THEN i ELSE i - 1
  <2>1. AreFrom(own, M, c, o)
    BY <1>2, InsertedFrom
  <2> QED BY <2>1 DEF AreFrom
<1>5. SUFFICES ASSUME NEW i \in DOMAIN M, NEW j \in DOMAIN M, i <= j
               PROVE  AtLeastAsGood(side, M[i].price, M[j].price)
  BY <1>1 DEF Sorted
<1>6. CASE i = c + 1 /\ j = c + 1
  BY <1>3, <1>4, <1>6 DEF AtLeastAsGood
<1>7. CASE i = c + 1 /\ j # c + 1
  <2>1. PICK m \in 1 .. Len(own) : M[j] = own[m] /\ m = IF j <= c THEN j ELSE j - 1
    BY <1>4, <1>7
  <2>2. ~(m <= c)
    BY <1>2, <1>4, <1>5, <1>7, <2>1
  <2>3. M[i] = o
    BY <1>4, <1>7
  <2>4. ~AtLeastAsGood(side, own[m].price, o.price)
    BY <1>2, <2>2
  <2> QED BY <1>3, <2>1, <2>3, <2>4 DEF AtLeastAsGood
<1>8. CASE i # c + 1 /\ j = c + 1
  <2>1. PICK m \in 1 .. Len(own) : M[i] = own[m] /\ m = IF i <= c THEN i ELSE i - 1
    BY <1>4, <1>8
  <2>2. m <= c
    BY <1>2, <1>4, <1>5, <1>8, <2>1
  <2>3. M[j] = o
    BY <1>4, <1>8
  <2>4. AtLeastAsGood(side, own[m].price, o.price)
    BY <1>2, <2>2
  <2> QED BY <2>1, <2>3, <2>4
<1>9. CASE i # c + 1 /\ j # c + 1
  <2>1. PICK m \in 1 .. Len(own) : M[i] = own[m] /\ m = IF i <= c THEN i ELSE i - 1
    BY <1>4, <1>9
  <2>2. PICK n \in 1 .. Len(own) : M[j] = own[n] /\ n = IF j <= c THEN j ELSE j - 1
    BY <1>4, <1>9
  <2>3. m <= n
    BY <1>2, <1>4, <1>5, <1>9, <2>1, <2>2
  <2>4. AtLeastAsGood(side, own[m].price, own[n].price)
    BY <1>3, <2>3 DEF Sorted
  <2> QED BY <2>1, <2>2, <2>4
<1> QED BY <1>6, <1>7, <1>8, <1>9

WithJoined(b, s, o) == [b EXCEPT ![s] = Joined(s, @, o)]

MayJoin(b, s, o) ==
    Sound(b) /\ s \in Sides /\ o \in Kept /\ o.id \notin LiveIds(b)

LEMMA JoinIsSound ==
    ASSUME NEW b, NEW s, NEW o, MayJoin(b, s, o)
    PROVE  Sound(WithJoined(b, s, o)) /\ Held(WithJoined(b, s, o)) = Held(b) + 1
<1>d. PICK d : d = [b EXCEPT ![s] = Joined(s, @, o)]
  OBVIOUS
<1> USE DEF MayJoin
<1>0. /\ "Bid" \in Sides /\ "Ask" \in Sides /\ \A t \in Sides : t = "Bid" \/ t = "Ask"
      /\ DOMAIN b = Sides
  BY DEF Sides, Sound
<1>1. PICK own \in Seq(Kept) : own = b[s] /\ Sorted(s, own)
  BY SideFacts
<1>2. PICK c \in 0 .. Len(own) : Joined(s, own, o) \in Seq(Kept)
                                  /\ Inserted(own, Joined(s, own, o), c, o)
  BY <1>1, JoinedAt
<1>3. PICK M \in Seq(Kept) : M = Joined(s, own, o) /\ Inserted(own, M, c, o)
  BY <1>2
<1>4. d[s] = M /\ \A t \in Sides : t # s => d[t] = b[t]
  BY <1>0, <1>1, <1>3, <1>d
<1>5. d \in [Sides -> Seq(Kept)]
  BY <1>1, <1>3, <1>d DEF Sound
<1>6. ASSUME NEW t \in Sides
      PROVE  Sorted(t, d[t])
  <2>1. Sorted(s, M)
    BY <1>1, <1>3, JoinedSorted
  <2>2. Sorted(t, b[t])
    BY SideFacts
  <2> QED BY <1>4, <2>1, <2>2
<1>7. /\ DOMAIN M = 1 .. (Len(own) + 1) /\ Len(own) \in Nat
      /\ \A i \in DOMAIN M :
           \/ i = c + 1 /\ M[i] = o
           \/ /\ i # c + 1
              /\ \E m \in 1 .. Len(own) : M[i] = own[m] /\ m = IF i <= c THEN i ELSE i - 1
  <2>1. AreFrom(own, M, c, o)
    BY <1>2, <1>3, InsertedFrom
  <2> QED BY <2>1 DEF AreFrom
<1>8. ASSUME NEW t \in Sides, NEW m \in DOMAIN b[t]
      PROVE  b[t][m].id # o.id
  <2>1. b[t][m].id \in IdsOf(b, t)
    BY DEF IdsOf
  <2>2. b[t][m].id \in LiveIds(b)
    BY <1>0, <2>1 DEF LiveIds
  <2> QED BY <2>2
<1>9. ASSUME NEW t \in Sides, NEW i \in DOMAIN d[t]
      PROVE  \/ t = s /\ i = c + 1 /\ d[t][i] = o
             \/ /\ t # s \/ i # c + 1
                /\ \E m \in DOMAIN b[t] :
                     /\ d[t][i] = b[t][m]
                     /\ m = IF t = s /\ i > c + 1 THEN i - 1 ELSE i
  <2>1. CASE t # s
    BY <1>4, <2>1
  <2>2. CASE t = s /\ i = c + 1
    BY <1>4, <1>7, <2>2
  <2>3. CASE t = s /\ i # c + 1
    <3>1. i \in DOMAIN M /\ d[t] = M
      BY <1>4, <2>3
    <3>2. PICK m \in 1 .. Len(own) : M[i] = own[m] /\ m = IF i <= c THEN i ELSE i - 1
      BY <1>7, <2>3, <3>1
    <3>3. m \in DOMAIN b[t] /\ d[t][i] = b[t][m]
      BY <1>1, <2>3, <3>1, <3>2, KeptFacts
    <3>4. m = IF t = s /\ i > c + 1 THEN i - 1 ELSE i
      BY <1>7, <2>3, <3>1, <3>2
    <3> QED BY <2>3, <3>3, <3>4
  <2> QED BY <2>1, <2>2, <2>3
<1>10. Distinct(d)
  <2> SUFFICES ASSUME NEW t \in Sides, NEW u \in Sides,
                      NEW i \in DOMAIN d[t], NEW j \in DOMAIN d[u], d[t][i].id = d[u][j].id
               PROVE  t = u /\ i = j
    BY DEF Distinct
  <2>1. CASE t = s /\ i = c + 1
    <3>1. d[t][i] = o
      BY <1>9, <2>1
    <3>2. ~\E m \in DOMAIN b[u] : d[u][j] = b[u][m]
      BY <1>8, <3>1
    <3> QED BY <1>9, <2>1, <3>2
  <2>2. CASE u = s /\ j = c + 1
    <3>1. d[u][j] = o
      BY <1>9, <2>2
    <3>2. ~\E m \in DOMAIN b[t] : d[t][i] = b[t][m]
      BY <1>8, <3>1
    <3> QED BY <1>9, <2>2, <3>2
  <2>3. CASE (t # s \/ i # c + 1) /\ (u # s \/ j # c + 1)
    <3>1. PICK m \in DOMAIN b[t] : /\ d[t][i] = b[t][m]
                                   /\ m = IF t = s /\ i > c + 1 THEN i - 1 ELSE i
      BY <1>9, <2>3
    <3>2. PICK n \in DOMAIN b[u] : /\ d[u][j] = b[u][n]
                                   /\ n = IF u = s /\ j > c + 1 THEN j - 1 ELSE j
      BY <1>9, <2>3
    <3>3. Distinct(b)
      BY DEF Sound
    <3>4. b[t][m].id = b[u][n].id
      BY <3>1, <3>2
    <3>5. t = u /\ m = n
      BY <3>3, <3>4 DEF Distinct
    <3>6. i = j
      <4>1. CASE t # s
        BY <3>1, <3>2, <3>5, <4>1
      <4>2. CASE t = s
        <5>1. i \in Nat /\ j \in Nat
          BY <1>4, <1>7, <3>5, <4>2
        <5> QED BY <2>3, <3>1, <3>2, <3>5, <4>2, <5>1
      <4> QED BY <4>1, <4>2
    <3> QED BY <3>5, <3>6
  <2> QED BY <2>1, <2>2, <2>3
<1>11. Held(d) = Held(b) + 1
  <2>1. \A t \in Sides : /\ CountOf(b, t) \in Nat
                         /\ CountOf(d, t) = IF t = s THEN CountOf(b, t) + 1 ELSE CountOf(b, t)
    <3> SUFFICES ASSUME NEW t \in Sides
                 PROVE  /\ CountOf(b, t) \in Nat
                        /\ CountOf(d, t) = IF t = s THEN CountOf(b, t) + 1 ELSE CountOf(b, t)
      OBVIOUS
    <3>1. CountOf(b, t) \in Nat
      BY SideFacts DEF CountOf
    <3>2. Len(M) = Len(own) + 1
      BY <1>3 DEF Inserted
    <3> QED BY <1>1, <1>4, <3>1, <3>2 DEF CountOf
  <2>2. PICK x \in Nat, y \in Nat : x = CountOf(b, "Bid") /\ y = CountOf(b, "Ask")
    BY <1>0, <2>1
  <2>3. /\ CountOf(d, "Bid") = IF "Bid" = s THEN x + 1 ELSE x
        /\ CountOf(d, "Ask") = IF "Ask" = s THEN y + 1 ELSE y
    BY <1>0, <2>1, <2>2
  <2>4. CountOf(d, "Bid") + CountOf(d, "Ask") = (x + y) + 1
    <3>1. CASE s = "Bid"
      BY <2>3, <3>1
    <3>2. CASE s = "Ask"
      BY <2>3, <3>2
    <3> QED BY <1>0, <3>1, <3>2
  <2> QED BY <2>2, <2>4 DEF Held
<1> QED BY <1>d, <1>5, <1>6, <1>10, <1>11 DEF Sound, WithJoined

----------------------------------------------------------------------------
(* What a command makes of a book.                                         *)

\* The events of the books of an engine, whatever their numbers are.
Told ==
    [ev : {"rejected"}, id : Nat, reason : RejectReasons]
      \cup [ev : {"accepted"}, id : Nat, leaves : Int]
      \cup [ev : {"replaced"}, id : Nat, price : Int, qty : Int]
      \cup [ev : {"trade"}, maker : Nat, taker : Nat, price : Int, qty : Int]
      \cup [ev : {"closed"}, id : Nat, reason : CloseReasons]

LEMMA AreTold ==
    /\ \A id \in Nat, why \in RejectReasons : Rejected(id, why) \in Told
    /\ \A id \in Nat, qty \in Int : Accepted(id, qty) \in Told
    /\ \A id \in Nat, price \in Int, qty \in Int : Replaced(id, price, qty) \in Told
    /\ \A maker \in Nat, id \in Nat, price \in Int, qty \in Int :
         Trade(maker, id, price, qty) \in Told
    /\ \A id \in Nat, why \in CloseReasons : Closed(id, why) \in Told
  BY DEF Told, Rejected, Accepted, Replaced, Trade, Closed

LEMMA ReducedKept ==
    ASSUME NEW r \in Kept, NEW x \in Int
    PROVE  /\ [r EXCEPT !.qty = @ - x] \in Kept
           /\ [r EXCEPT !.qty = @ - x].id = r.id
           /\ [r EXCEPT !.qty = @ - x].price = r.price
<1>1. r.qty \in Int
  BY DEF Kept
<1>2. PICK y \in Int : y = r.qty - x
  BY <1>1
<1>3. [r EXCEPT !.qty = y] \in Kept
  BY DEF Kept
<1>4. [r EXCEPT !.qty = y].id = r.id /\ [r EXCEPT !.qty = y].price = r.price
  BY DEF Kept
<1> QED BY <1>2, <1>3, <1>4

LEMMA AheadInt ==
    ASSUME NEW o \in Seq(Kept), NEW n \in 0 .. Len(o)
    PROVE  Ahead(o, n) \in Int
<1>1. Len(o) \in Nat /\ \A i \in 1 .. Len(o) : o[i].qty \in Int
  BY KeptFacts
<1>2. n \in Nat /\ n <= Len(o) /\ IsFiniteSet(1 .. n)
  BY <1>1, FS_Interval
<1>3. PICK w : w = [i \in 1 .. n |-> o[i].qty]
  OBVIOUS
<1>4. \A i \in 1 .. n : w[i] \in Int
  BY <1>1, <1>2, <1>3
<1>5. SumFunctionOnSet(w, 1 .. n) \in Int
  BY <1>2, <1>4, SumInt
<1> QED BY <1>3, <1>5 DEF Ahead

LEMMA ReachNat ==
    ASSUME NEW side, NEW limit, NEW o \in Seq(Kept)
    PROVE  Reach(side, limit, o) \in 0 .. Len(o)
<1>1. Len(o) \in Nat /\ DOMAIN o = 1 .. Len(o)
  BY KeptFacts
<1>2. PICK S : S = {i \in DOMAIN o : Acceptable(side, limit, o[i].price)}
  OBVIOUS
<1>3. S \in SUBSET (1 .. Len(o))
  BY <1>1, <1>2
<1>4. IsFiniteSet(1 .. Len(o)) /\ Cardinality(1 .. Len(o)) = Len(o)
  BY <1>1, FS_Interval
<1>5. Cardinality(S) <= Len(o) /\ IsFiniteSet(S)
  BY <1>3, <1>4, FS_Subset
<1>6. Cardinality(S) \in Nat
  BY <1>5, FS_CardinalityType
<1> QED BY <1>1, <1>2, <1>5, <1>6 DEF Reach

LEMMA FillsInt ==
    ASSUME NEW side, NEW limit, NEW qty \in Nat, NEW o \in Seq(Kept)
    PROVE  /\ DOMAIN Fills(side, limit, qty, o) = 1 .. Len(o)
           /\ \A i \in 1 .. Len(o) : Fills(side, limit, qty, o)[i] \in Int
<1>1. Len(o) \in Nat /\ DOMAIN o = 1 .. Len(o) /\ \A i \in 1 .. Len(o) : o[i].qty \in Int
  BY KeptFacts
<1>2. ASSUME NEW i \in 1 .. Len(o)
      PROVE  Fills(side, limit, qty, o)[i] \in Int
  <2>1. i - 1 \in 0 .. Len(o) /\ i \in 0 .. Len(o)
    BY <1>1
  <2>2. Ahead(o, i - 1) \in Int /\ Ahead(o, i) \in Int
    BY <2>1, AheadInt
  <2>3. Fills(side, limit, qty, o)[i]
          = IF i > Reach(side, limit, o) \/ qty <= Ahead(o, i - 1) THEN 0
            ELSE IF qty <= Ahead(o, i) THEN qty - Ahead(o, i - 1) ELSE o[i].qty
    BY <1>1 DEF Fills
  <2>4. PICK x \in Int, y \in Int : x = Ahead(o, i - 1) /\ y = Ahead(o, i)
    BY <2>2
  <2>5. qty - x \in Int
    OBVIOUS
  <2> QED BY <1>1, <2>3, <2>4, <2>5
<1> QED BY <1>1, <1>2 DEF Fills

LEMMA AfterFillsThins ==
    ASSUME NEW o \in Seq(Kept), NEW f, \A i \in 1 .. Len(o) : f[i] \in Int
    PROVE  AfterFills(o, f) \in Seq(Kept) /\ Thins(o, AfterFills(o, f))
<1>1. PICK n \in Nat : n = Len(o) /\ DOMAIN o = 1 .. n
  BY KeptFacts
<1>2. PICK T : T = {i \in DOMAIN o : f[i] = o[i].qty}
  OBVIOUS
<1>3. PICK k : k = Cardinality(T) /\ k \in 0 .. n
  <2>1. T \in SUBSET (1 .. n)
    BY <1>1, <1>2
  <2>2. IsFiniteSet(1 .. n) /\ Cardinality(1 .. n) = n
    BY FS_Interval
  <2>3. Cardinality(T) <= n /\ IsFiniteSet(T)
    BY <2>1, <2>2, FS_Subset
  <2>4. Cardinality(T) \in Nat
    BY <2>3, FS_CardinalityType
  <2> QED BY <2>3, <2>4
<1>4. PICK m \in Nat : m = n - k /\ m <= n
  BY <1>3
<1>5. AfterFills(o, f) = [i \in 1 .. m |-> [o[i + k] EXCEPT !.qty = @ - f[i + k]]]
  BY <1>1, <1>2, <1>3, <1>4 DEF AfterFills
<1>6. PICK p : p = AfterFills(o, f)
  OBVIOUS
<1>7. ASSUME NEW i \in 1 .. m
      PROVE  /\ p[i] \in Kept
             /\ p[i].id = o[i + k].id /\ p[i].price = o[i + k].price
             /\ i + k \in 1 .. n
  <2>1. i + k \in 1 .. n
    BY <1>3, <1>4
  <2>2. PICK r \in Kept : r = o[i + k]
    BY <1>1, <2>1, KeptFacts
  <2>3. PICK x \in Int : x = f[i + k]
    BY <1>1, <2>1
  <2>4. p[i] = [r EXCEPT !.qty = @ - x]
    BY <1>5, <1>6, <2>2, <2>3
  <2>5. [r EXCEPT !.qty = @ - x] \in Kept
    BY ReducedKept
  <2>6. p[i].id = r.id /\ p[i].price = r.price
    BY <2>4, ReducedKept
  <2> QED BY <2>1, <2>2, <2>4, <2>5, <2>6
<1>8. p \in Seq(Kept) /\ Len(p) = m
  <2>1. p = [i \in 1 .. m |-> p[i]]
    BY <1>5, <1>6
  <2>2. \A i \in 1 .. m : p[i] \in Kept
    BY <1>7
  <2> QED BY <2>1, <2>2
<1>9. PICK h : h = [i \in 1 .. m |-> i + k]
  OBVIOUS
<1>10. Follows(o, p, h)
  <2>1. h \in [1 .. m -> 1 .. n]
    BY <1>7, <1>9
  <2>2. \A i, j \in 1 .. m : i < j => h[i] < h[j]
    BY <1>3, <1>9
  <2>3. \A i \in 1 .. m : p[i].id = o[h[i]].id /\ p[i].price = o[h[i]].price
    BY <1>7, <1>9
  <2> QED BY <1>1, <1>8, <2>1, <2>2, <2>3 DEF Follows
<1>11. Len(p) <= Len(o)
  BY <1>1, <1>4, <1>8
<1> QED BY <1>6, <1>8, <1>10, <1>11 DEF Thins

\* Sequences laid end to end.
LEMMA FlattenIsGlue ==
    ASSUME NEW s, Len(s) \in Nat \ {0}
    PROVE  \E f : f = GlueBody(s, Len(s), f) /\ FlattenSeq(s) = f[Len(s)]
<1> DEFINE f == CHOOSE f : f = GlueBody(s, Len(s), f)
<1>1. f = GlueBody(s, Len(s), f)
  <2>1. \E g : g = GlueBody(s, Len(s), g)
    BY GlueExists
  <2> QED BY <2>1
<1>2. FlattenSeq(s) = f[Len(s)]
  BY DEF FlattenSeq, GlueBody, Glue
<1> HIDE DEF f
<1> QED BY <1>1, <1>2

LEMMA FlattenType ==
    ASSUME NEW S, NEW s \in Rows(S)
    PROVE  FlattenSeq(s) \in Seq(S)
<1>1. CASE Len(s) = 0
  <2>1. s = <<>> /\ FlattenSeq(s) = s
    BY <1>1, RowsFacts DEF FlattenSeq
  <2>2. <<>> \in Seq(S)
    OBVIOUS
  <2> QED BY <2>1, <2>2
<1>2. CASE Len(s) # 0
  <2>1. Len(s) \in Nat \ {0}
    BY <1>2, RowsFacts
  <2>2. PICK f : f = GlueBody(s, Len(s), f) /\ FlattenSeq(s) = f[Len(s)]
    BY <2>1, FlattenIsGlue
  <2>3. \A i \in 1 .. Len(s) : f[i] \in Seq(S)
    BY <2>2, GlueSteps
  <2> QED BY <2>1, <2>2, <2>3
<1> QED BY <1>1, <1>2

LEMMA FillEventsTold ==
    ASSUME NEW id \in Nat, NEW o \in Seq(Kept), NEW f, \A i \in 1 .. Len(o) : f[i] \in Int
    PROVE  FillEvents(id, o, f) \in Seq(Told)
<1>1. PICK n \in Nat : n = Len(o) /\ DOMAIN o = 1 .. n
  BY KeptFacts
<1>2. PICK s : s = [i \in 1 .. n |->
                      IF f[i] = 0 THEN <<>>
                      ELSE IF f[i] < o[i].qty
                           THEN <<Trade(o[i].id, id, o[i].price, f[i])>>
                           ELSE <<Trade(o[i].id, id, o[i].price, f[i]),
                                  Closed(o[i].id, "Filled")>>]
  OBVIOUS
<1>3. FillEvents(id, o, f) = FlattenSeq(s)
  BY <1>1, <1>2 DEF FillEvents
<1>4. ASSUME NEW i \in 1 .. n
      PROVE  s[i] \in Seq(Told)
  <2>1. o[i].id \in Nat /\ o[i].price \in Int /\ f[i] \in Int
    BY <1>1, KeptFacts
  <2>2. PICK t \in Told, c \in Told :
           t = Trade(o[i].id, id, o[i].price, f[i]) /\ c = Closed(o[i].id, "Filled")
    BY <2>1, AreTold DEF CloseReasons
  <2>3. s[i] = <<>> \/ s[i] = <<t>> \/ s[i] = <<t, c>>
    BY <1>2, <2>2
  <2>4. <<>> \in Seq(Told) /\ <<t>> \in Seq(Told) /\ <<t, c>> \in Seq(Told)
    OBVIOUS
  <2> QED BY <2>3, <2>4
<1>5. s \in Rows(Told)
  <2>1. s = [i \in 1 .. n |-> s[i]]
    BY <1>2
  <2>2. \A i \in 1 .. n : s[i] \in Seq(Told)
    BY <1>4
  <2>3. s \in Seq(Seq(Told))
    BY <2>1, <2>2
  <2> QED BY <2>3 DEF Rows
<1> QED BY <1>3, <1>5, FlattenType

\* An order that crosses the sound book b, which does not have it.
Crosses(b, t) ==
    /\ Sound(b)
    /\ t.side \in Sides /\ t.id \in Nat /\ t.qty \in Nat /\ t.tif \in Tifs
    /\ t.limit \in Int \cup {NIL}
    /\ t.cmd = "replace" => t.limit \in Int
    /\ t.id \notin LiveIds(b)

\* A result of a command on the book b that leaves at most `more` orders more.
Yields(b, out, more) ==
    /\ Sound(out.book) /\ Held(out.book) <= Held(b) + more
    /\ out.events \in Seq(Told) /\ Len(out.events) > 0

LEMMA SettledYields ==
    ASSUME NEW b, NEW t, Crosses(b, t)
    PROVE  Yields(b, Settled(b, t), 1)
<1>0. /\ Sound(b) /\ t.side \in Sides /\ t.id \in Nat /\ t.qty \in Nat /\ t.tif \in Tifs
      /\ t.limit \in Int \cup {NIL}
      /\ t.cmd = "replace" => t.limit \in Int
      /\ t.id \notin LiveIds(b)
  BY DEF Crosses
<1>1. PICK s \in Sides : s = Opposite(t.side) /\ s # t.side
  BY <1>0 DEF Opposite, Sides
<1>2. PICK o \in Seq(Kept) : o = b[s]
  BY <1>0, SideFacts
<1>3. PICK f : f = Fills(t.side, t.limit, t.qty, o)
  OBVIOUS
<1>4. \A i \in 1 .. Len(o) : f[i] \in Int
  BY <1>0, <1>3, FillsInt
<1>5. PICK p : p = AfterFills(o, f)
  OBVIOUS
<1>6. p \in Seq(Kept) /\ Thins(o, p)
  BY <1>4, <1>5, AfterFillsThins
<1>7. PICK x \in Int : x = InReach(t.side, t.limit, o)
  BY ReachNat, AheadInt DEF InReach
<1>8. PICK left \in Nat : left = IF t.qty <= x THEN 0 ELSE t.qty - x
  BY <1>0
<1>9. PICK crossed : crossed = [b EXCEPT ![s] = p]
  OBVIOUS
<1>10. ThinsBook(b, crossed)
  <2>1. b \in [Sides -> Seq(Kept)]
    BY <1>0 DEF Sound
  <2>2. crossed \in [Sides -> Seq(Kept)] /\ crossed[s] = p
        /\ \A u \in Sides : u # s => crossed[u] = b[u]
    BY <1>6, <1>9, <2>1
  <2>3. ASSUME NEW u \in Sides, u # s
        PROVE  Thins(b[u], crossed[u])
    BY <2>1, <2>2, <2>3, SameThins
  <2> QED BY <1>2, <1>6, <2>2, <2>3 DEF ThinsBook
<1>11. Sound(crossed) /\ Held(crossed) <= Held(b) /\ t.id \notin LiveIds(crossed)
  BY <1>0, <1>10, ThinIsSound
<1>12. PICK rests \in BOOLEAN :
          rests = (left > 0 /\ (\/ t.cmd = "replace"
                                \/ t.limit # NIL /\ t.tif \in {"Gtc", "PostOnly"}))
  OBVIOUS
<1>13. PICK rest : rest = [id |-> t.id, price |-> t.limit, qty |-> left, tif |-> t.tif]
  OBVIOUS
<1>14. PICK last : last = IF left = 0 THEN Closed(t.id, "Filled")
                          ELSE IF ~rests THEN Closed(t.id, "Expired")
                          ELSE IF t.cmd = "new" THEN Accepted(t.id, left)
                          ELSE Replaced(t.id, t.limit, left)
  OBVIOUS
<1>15. PICK out : out = Settled(b, t)
  OBVIOUS
<1>16. /\ out.book = IF rests THEN [crossed EXCEPT ![t.side] = Joined(t.side, @, rest)]
                     ELSE crossed
       /\ out.events = Append(FillEvents(t.id, o, f), last)
  BY <1>1, <1>2, <1>3, <1>5, <1>7, <1>8, <1>9, <1>12, <1>13, <1>14, <1>15 DEF Settled
<1>17. rests => t.limit \in Int /\ rest \in Kept
  <2>1. rests => t.limit \in Int
    BY <1>0, <1>12
  <2>2. \A i \in Nat, p1 \in Int, q \in Int, tif \in Tifs :
           [id |-> i, price |-> p1, qty |-> q, tif |-> tif] \in Kept
    BY DEF Kept
  <2> QED BY <1>0, <1>13, <2>1, <2>2
<1>18. last \in Told
  <2>1. /\ Closed(t.id, "Filled") \in Told /\ Closed(t.id, "Expired") \in Told
        /\ Accepted(t.id, left) \in Told
    <3>1. "Filled" \in CloseReasons /\ "Expired" \in CloseReasons
      BY DEF CloseReasons
    <3> QED BY <1>0, <3>1, AreTold
  <2>2. ASSUME rests
        PROVE  Replaced(t.id, t.limit, left) \in Told
    <3>1. t.limit \in Int /\ left \in Int /\ t.id \in Nat
      BY <1>0, <1>17, <2>2
    <3> QED BY <3>1, AreTold
  <2> QED BY <1>14, <2>1, <2>2
<1>19. out.events \in Seq(Told) /\ Len(out.events) > 0
  <2>1. PICK e \in Seq(Told) : e = FillEvents(t.id, o, f)
    BY <1>0, <1>4, FillEventsTold
  <2>2. Append(e, last) \in Seq(Told) /\ Len(Append(e, last)) = Len(e) + 1 /\ Len(e) \in Nat
    BY <1>18
  <2> QED BY <1>16, <2>1, <2>2
<1>20. Held(crossed) \in Nat /\ Held(b) \in Nat
  BY <1>0, <1>11, LiveAreHeld
<1>21. CASE rests
  <2>1. rest \in Kept /\ rest.id = t.id
    BY <1>13, <1>17, <1>21
  <2>2. PICK d : d = [crossed EXCEPT ![t.side] = Joined(t.side, @, rest)]
    OBVIOUS
  <2>3. Sound(d) /\ Held(d) = Held(crossed) + 1
    <3>1. MayJoin(crossed, t.side, rest)
      BY <1>0, <1>11, <2>1 DEF MayJoin
    <3> QED BY <2>2, <3>1, JoinIsSound DEF WithJoined
  <2>4. out.book = d
    BY <1>16, <1>21, <2>2
  <2> QED BY <1>11, <1>15, <1>19, <1>20, <2>3, <2>4 DEF Yields
<1>22. CASE ~rests
  <2>1. out.book = crossed
    BY <1>16, <1>22
  <2> QED BY <1>11, <1>15, <1>19, <1>20, <2>1 DEF Yields
<1> QED BY <1>21, <1>22

\* Where a live order stands.
LEMMA PlaceIs ==
    ASSUME NEW b, Sound(b), NEW id \in LiveIds(b)
    PROVE  /\ SideOf(b, id) \in Sides
           /\ PlaceOf(b, id) \in DOMAIN b[SideOf(b, id)]
           /\ b[SideOf(b, id)][PlaceOf(b, id)].id = id
<1>1. PICK s \in Sides : s = SideOf(b, id)
  BY DEF SideOf, Sides
<1>2. id \in IdsOf(b, s)
  BY <1>1 DEF SideOf, LiveIds
<1>3. \E i \in DOMAIN b[s] : b[s][i].id = id
  BY <1>2 DEF IdsOf
<1>4. PlaceOf(b, id) \in DOMAIN b[s] /\ b[s][PlaceOf(b, id)].id = id
  BY <1>1, <1>3 DEF PlaceOf
<1> QED BY <1>1, <1>4

LEMMA WithoutIsSound ==
    ASSUME NEW b, Sound(b), NEW id \in LiveIds(b)
    PROVE  /\ Sound(Without(b, id)) /\ Held(Without(b, id)) + 1 <= Held(b)
           /\ id \notin LiveIds(Without(b, id))
<1>0. "Bid" \in Sides /\ "Ask" \in Sides /\ \A t \in Sides : t = "Bid" \/ t = "Ask"
  BY DEF Sides
<1>1. PICK s \in Sides : s = SideOf(b, id)
  BY PlaceIs
<1>2. PICK i \in DOMAIN b[s] : i = PlaceOf(b, id) /\ b[s][i].id = id
  BY <1>1, PlaceIs
<1>3. PICK o \in Seq(Kept) : o = b[s] /\ Len(o) \in Nat /\ DOMAIN o = 1 .. Len(o)
  BY SideFacts
<1>4. PICK p \in Seq(Kept) : p = RemoveAt(o, i) /\ Drops(o, p, i)
  BY <1>2, <1>3, CutDrops DEF RemoveAt, Cut
<1>5. PICK w : w = Without(b, id)
  OBVIOUS
<1>6. w = [b EXCEPT ![s] = p]
  BY <1>1, <1>2, <1>3, <1>4, <1>5 DEF Without
<1>7. b \in [Sides -> Seq(Kept)]
  BY DEF Sound
<1>8. /\ w \in [Sides -> Seq(Kept)] /\ w[s] = p
      /\ \A t \in Sides : t # s => w[t] = b[t]
  BY <1>4, <1>6, <1>7
<1>9. ThinsBook(b, w)
  <2>1. Thins(o, p)
    BY <1>2, <1>3, <1>4, DropThins
  <2>2. ASSUME NEW t \in Sides, t # s
        PROVE  Thins(b[t], w[t])
    BY <1>7, <1>8, <2>2, SameThins
  <2> QED BY <1>3, <1>8, <2>1, <2>2 DEF ThinsBook
<1>10. Sound(w)
  BY <1>9, ThinIsSound
<1>11. id \notin LiveIds(w)
  <2> SUFFICES ASSUME NEW t \in Sides, NEW x \in DOMAIN w[t], w[t][x].id = id
               PROVE  FALSE
    BY <1>0 DEF LiveIds, IdsOf
  <2>0. Distinct(b)
    BY DEF Sound
  <2>1. CASE t # s
    <3>1. x \in DOMAIN b[t] /\ b[t][x].id = b[s][i].id
      BY <1>2, <1>8, <2>1
    <3> QED BY <2>0, <2>1, <3>1 DEF Distinct
  <2>2. CASE t = s
    <3>1. x \in DOMAIN p /\ p[x].id = id
      BY <1>8, <2>2
    <3>2. DOMAIN p = 1 .. Len(p) /\ i \in 1 .. Len(o)
      BY <1>2, <1>3, KeptFacts
    <3>3. PICK m \in 1 .. Len(o) : m # i /\ p[x] = o[m]
      <4>1. x \in DOMAIN p /\ Drops(o, p, i) /\ Len(o) \in Nat
        BY <1>3, <1>4, <3>1
      <4> HIDE DEF Drops
      <4> QED BY <4>1, <3>2, DropsComesFrom
    <3>4. m \in DOMAIN b[s] /\ b[s][m].id = b[s][i].id
      BY <1>2, <1>3, <3>1, <3>3
    <3> QED BY <2>0, <3>3, <3>4 DEF Distinct
  <2> QED BY <2>1, <2>2
<1>12. Held(w) + 1 <= Held(b)
  <2>1. \A t \in Sides : CountOf(b, t) \in Nat
    BY SideFacts DEF CountOf
  <2>2. \A t \in Sides : CountOf(w, t) = IF t = s THEN CountOf(b, t) - 1 ELSE CountOf(b, t)
    BY <1>3, <1>4, <1>8 DEF CountOf, Drops
  <2>3. PICK x \in Nat, y \in Nat : x = CountOf(b, "Bid") /\ y = CountOf(b, "Ask")
    BY <1>0, <2>1
  <2>4. /\ CountOf(w, "Bid") = IF "Bid" = s THEN x - 1 ELSE x
        /\ CountOf(w, "Ask") = IF "Ask" = s THEN y - 1 ELSE y
    BY <1>0, <2>2, <2>3
  <2>5. (CountOf(w, "Bid") + CountOf(w, "Ask")) + 1 <= x + y
    <3>1. CASE s = "Bid"
      BY <2>4, <3>1
    <3>2. CASE s = "Ask"
      BY <2>4, <3>2
    <3> QED BY <1>0, <3>1, <3>2
  <2> QED BY <2>3, <2>5 DEF Held
<1> QED BY <1>5, <1>10, <1>11, <1>12

\* An order that is made another size, at its place.
LEMMA ResizedIsSound ==
    ASSUME NEW b, Sound(b), NEW s \in Sides, NEW i \in DOMAIN b[s], NEW qty \in Int,
           NEW w, w = [b EXCEPT ![s][i].qty = qty]
    PROVE  Sound(w) /\ Held(w) <= Held(b)
<1>1. b \in [Sides -> Seq(Kept)]
  BY DEF Sound
<1>2. PICK o \in Seq(Kept) : o = b[s] /\ Len(o) \in Nat /\ DOMAIN o = 1 .. Len(o)
  BY SideFacts
<1>3. PICK p : p = [o EXCEPT ![i].qty = qty]
  OBVIOUS
<1>4. w = [b EXCEPT ![s] = p]
  BY <1>1, <1>2, <1>3
<1>5. PICK n \in Nat : n = Len(o) /\ DOMAIN o = 1 .. n
  BY <1>2
<1>6. ASSUME NEW j \in 1 .. n
      PROVE  p[j] \in Kept /\ p[j].id = o[j].id /\ p[j].price = o[j].price
  <2>1. PICK r \in Kept : r = o[j]
    BY <1>2, <1>5
  <2>2. [r EXCEPT !.qty = qty] \in Kept /\ [r EXCEPT !.qty = qty].id = r.id
          /\ [r EXCEPT !.qty = qty].price = r.price
    BY DEF Kept
  <2>3. p[j] = IF j = i THEN [r EXCEPT !.qty = qty] ELSE r
    BY <1>2, <1>3, <1>5, <2>1
  <2> QED BY <2>1, <2>2, <2>3
<1>7. p \in Seq(Kept) /\ Len(p) = n
  <2>1. DOMAIN p = 1 .. n
    BY <1>3, <1>5
  <2>2. p = [j \in 1 .. n |-> p[j]]
    BY <1>3, <1>5, <2>1
  <2>3. \A j \in 1 .. n : p[j] \in Kept
    BY <1>6
  <2> QED BY <2>2, <2>3
<1>8. ThinsBook(b, w)
  <2>1. Thins(o, p)
    BY <1>5, <1>6, <1>7, SameThins
  <2>2. w \in [Sides -> Seq(Kept)] /\ w[s] = p /\ \A t \in Sides : t # s => w[t] = b[t]
    BY <1>1, <1>4, <1>7
  <2>3. ASSUME NEW t \in Sides, t # s
        PROVE  Thins(b[t], w[t])
    BY <1>1, <2>2, <2>3, SameThins
  <2> QED BY <1>2, <2>1, <2>2, <2>3 DEF ThinsBook
<1> QED BY <1>8, ThinIsSound

----------------------------------------------------------------------------
(* The commands.                                                           *)

\* A sound book of at most `room` orders, and an answer that says something.
Answers(out, room) ==
    /\ Sound(out.book) /\ Held(out.book) <= room
    /\ out.events \in Seq(Told) /\ Len(out.events) > 0

LEMMA OneEvent ==
    ASSUME NEW e \in Told
    PROVE  <<e>> \in Seq(Told) /\ Len(<<e>>) > 0
  OBVIOUS

LEMMA RefusedAnswers ==
    ASSUME NEW b, Sound(b), NEW room \in Nat, Held(b) <= room, NEW id \in Nat,
           NEW why \in RejectReasons
    PROVE  Answers(Refused(b, id, why), room)
<1>1. Rejected(id, why) \in Told
  BY AreTold
<1>2. PICK e \in Told : e = Rejected(id, why)
  BY <1>1
<1>3. Refused(b, id, why).book = b /\ Refused(b, id, why).events = <<e>>
  BY <1>2 DEF Refused
<1> QED BY <1>3, OneEvent DEF Answers

LEMMA YieldAnswers ==
    ASSUME NEW b, NEW out, Yields(b, out, 1), Sound(b), NEW room \in Nat, Held(b) + 1 <= room
    PROVE  Answers(out, room)
<1>1. Held(out.book) \in Nat /\ Held(b) \in Nat
  BY LiveAreHeld DEF Yields
<1> QED BY <1>1 DEF Yields, Answers

LEMMA NewAnswers ==
    ASSUME NEW b, Sound(b), NEW room \in Nat, Held(b) <= room, NEW valid,
           NEW id \in Nat, NEW side \in Sides, NEW limit \in Int \cup {NIL},
           NEW qty \in Nat, NEW tif \in Tifs
    PROVE  Answers(AfterNew(b, valid, room, id, side, limit, qty, tif), room)
<1> DEFINE t == [cmd |-> "new", id |-> id, side |-> side, limit |-> limit,
                 qty |-> qty, tif |-> tif]
<1>1. \A why \in RejectReasons : Answers(Refused(b, id, why), room)
  BY RefusedAnswers
<1>2. /\ "InvalidQty" \in RejectReasons /\ "InvalidPrice" \in RejectReasons
      /\ "DuplicateOrderId" \in RejectReasons /\ "BookFull" \in RejectReasons
      /\ "PostOnlyWouldCross" \in RejectReasons /\ "FokCannotFill" \in RejectReasons
  BY DEF RejectReasons
<1>3. ASSUME id \notin LiveIds(b), ~(Cardinality(LiveIds(b)) >= room)
      PROVE  Answers(Settled(b, t), room)
  <2>1. Crosses(b, t)
    BY <1>3 DEF Crosses
  <2> HIDE DEF t
  <2>2. Yields(b, Settled(b, t), 1)
    BY <2>1, SettledYields
  <2>3. Held(b) + 1 <= room
    <3>1. PICK h \in Nat : h = Held(b) /\ h = Cardinality(LiveIds(b))
      BY LiveAreHeld
    <3> QED BY <1>3, <3>1
  <2> QED BY <2>2, <2>3, YieldAnswers
<1>4. PICK out : out = AfterNew(b, valid, room, id, side, limit, qty, tif)
  OBVIOUS
<1>5. \/ /\ out = Settled(b, t)
         /\ id \notin LiveIds(b) /\ ~(Cardinality(LiveIds(b)) >= room)
      \/ \E why \in RejectReasons : out = Refused(b, id, why)
  BY <1>2, <1>4 DEF AfterNew, t
<1> HIDE DEF t
<1> QED BY <1>1, <1>3, <1>4, <1>5

LEMMA CancelAnswers ==
    ASSUME NEW b, Sound(b), NEW room \in Nat, Held(b) <= room, NEW id \in Nat
    PROVE  Answers(AfterCancel(b, id), room)
<1>1. CASE id \notin LiveIds(b)
  <2>1. "UnknownOrderId" \in RejectReasons
    BY DEF RejectReasons
  <2> QED BY <1>1, <2>1, RefusedAnswers DEF AfterCancel
<1>2. CASE id \in LiveIds(b)
  <2>1. PICK e \in Told : e = Closed(id, "Cancelled")
    <3>1. "Cancelled" \in CloseReasons
      BY DEF CloseReasons
    <3> QED BY <3>1, AreTold
  <2>2. PICK out : out = AfterCancel(b, id)
    OBVIOUS
  <2>3. out.book = Without(b, id) /\ out.events = <<e>>
    BY <1>2, <2>1, <2>2 DEF AfterCancel
  <2>4. Sound(Without(b, id)) /\ Held(Without(b, id)) + 1 <= Held(b)
    BY <1>2, WithoutIsSound
  <2>5. Held(Without(b, id)) \in Nat /\ Held(b) \in Nat
    BY <2>4, LiveAreHeld
  <2>6. Held(Without(b, id)) <= room
    BY <2>4, <2>5
  <2> QED BY <2>2, <2>3, <2>4, <2>6, OneEvent DEF Answers
<1> QED BY <1>1, <1>2

LEMMA ReplaceAnswers ==
    ASSUME NEW b, Sound(b), NEW room \in Nat, Held(b) <= room, NEW valid,
           NEW id \in Nat, NEW price \in Int, NEW qty \in Nat
    PROVE  Answers(AfterReplace(b, valid, id, price, qty), room)
<1>1. \A why \in RejectReasons : Answers(Refused(b, id, why), room)
  BY RefusedAnswers
<1>2. /\ "InvalidQty" \in RejectReasons /\ "InvalidPrice" \in RejectReasons
      /\ "UnknownOrderId" \in RejectReasons
  BY DEF RejectReasons
<1>3. PICK s : s = SideOf(b, id)
  OBVIOUS
<1>4. PICK i : i = PlaceOf(b, id)
  OBVIOUS
<1>5. PICK o : o = b[s][i]
  OBVIOUS
<1>6. PICK out : out = AfterReplace(b, valid, id, price, qty)
  OBVIOUS
<1> DEFINE t == [cmd |-> "replace", id |-> id, side |-> s, limit |-> price,
                 qty |-> qty, tif |-> o.tif]
<1>7. \/ \E why \in RejectReasons : out = Refused(b, id, why)
      \/ /\ id \in LiveIds(b)
         /\ out = [book |-> [b EXCEPT ![s][i].qty = qty], events |-> <<Replaced(id, price, qty)>>]
      \/ id \in LiveIds(b) /\ out = Settled(Without(b, id), t)
  BY <1>2, <1>3, <1>4, <1>5, <1>6 DEF AfterReplace
<1>8. ASSUME id \in LiveIds(b)
      PROVE  s \in Sides /\ i \in DOMAIN b[s] /\ o \in Kept /\ o.tif \in Tifs
  <2>1. s \in Sides /\ i \in DOMAIN b[s]
    BY <1>3, <1>4, <1>8, PlaceIs
  <2>2. b[s] \in Seq(Kept) /\ DOMAIN b[s] = 1 .. Len(b[s])
    BY <2>1, SideFacts
  <2> QED BY <1>5, <2>1, <2>2, KeptFacts
<1>9. ASSUME NEW why \in RejectReasons, out = Refused(b, id, why)
      PROVE  Answers(out, room)
  BY <1>1, <1>9
<1>10. ASSUME id \in LiveIds(b),
              out = [book |-> [b EXCEPT ![s][i].qty = qty], events |-> <<Replaced(id, price, qty)>>]
       PROVE  Answers(out, room)
  <2>1. PICK w : w = [b EXCEPT ![s][i].qty = qty]
    OBVIOUS
  <2>2. s \in Sides /\ i \in DOMAIN b[s] /\ qty \in Int
    BY <1>8, <1>10
  <2>3. Sound(w) /\ Held(w) <= Held(b)
    BY <2>1, <2>2, ResizedIsSound
  <2>4. PICK e \in Told : e = Replaced(id, price, qty)
    BY AreTold
  <2>5. out.book = w /\ out.events = <<e>>
    BY <1>10, <2>1, <2>4
  <2>6. Held(w) \in Nat /\ Held(b) \in Nat
    BY <2>3, LiveAreHeld
  <2>7. Held(w) <= room
    BY <2>3, <2>6
  <2> QED BY <2>3, <2>5, <2>7, OneEvent DEF Answers
<1>11. ASSUME id \in LiveIds(b), out = Settled(Without(b, id), t)
       PROVE  Answers(out, room)
  <2>1. PICK w : w = Without(b, id) /\ Sound(w) /\ Held(w) + 1 <= Held(b) /\ id \notin LiveIds(w)
    BY <1>11, WithoutIsSound
  <2>2. Crosses(w, t)
    BY <1>8, <1>11, <2>1 DEF Crosses
  <2> HIDE DEF t
  <2>3. Yields(w, out, 1)
    BY <1>11, <2>1, <2>2, SettledYields
  <2>4. Held(w) + 1 <= room
    <3>1. Held(w) \in Nat /\ Held(b) \in Nat
      BY <2>1, LiveAreHeld
    <3> QED BY <2>1, <3>1
  <2> QED BY <2>1, <2>3, <2>4, YieldAnswers
<1> HIDE DEF t
<1>12. ASSUME \E why \in RejectReasons : out = Refused(b, id, why)
       PROVE  Answers(out, room)
  BY <1>9, <1>12
<1>13. Answers(out, room)
  BY <1>7, <1>10, <1>11, <1>12
<1> QED BY <1>6, <1>13

----------------------------------------------------------------------------
(* Books and engines.                                                      *)

Configs == [index : {"Tree", "Ladder"}, min : Int, max : Int, room : Nat]

\* The books of configuration cfg.  One that has had no command is empty.
BooksOf(cfg) ==
    {b \in [cfg : {cfg}, orders : [Sides -> Seq(Kept)], seq : Nat] :
       /\ Sound(b.orders) /\ Held(b.orders) <= cfg.room
       /\ b.seq = 0 => b = NewBook(cfg)}

LEMMA NewIsSound ==
    ASSUME NEW cfg \in Configs
    PROVE  NewBook(cfg) \in BooksOf(cfg)
<1> DEFINE b == [side \in Sides |-> <<>>]
<1>1. \A s \in Sides : b[s] = <<>>
  OBVIOUS
<1>2. b \in [Sides -> Seq(Kept)]
  OBVIOUS
<1> HIDE DEF b
<1>3. Sound(b)
  BY <1>1, <1>2 DEF Sound, Sorted, Distinct
<1>4. Held(b) = 0
  <2>1. "Bid" \in Sides /\ "Ask" \in Sides /\ Len(<<>>) = 0
    BY DEF Sides
  <2>2. CountOf(b, "Bid") = 0 /\ CountOf(b, "Ask") = 0
    BY <1>1, <2>1 DEF CountOf
  <2> QED BY <2>2 DEF Held
<1>5. cfg.room \in Nat
  BY DEF Configs
<1>6. NewBook(cfg) = [cfg |-> cfg, orders |-> b, seq |-> 0]
  BY DEF NewBook, b
<1> QED BY <1>2, <1>3, <1>4, <1>5, <1>6 DEF BooksOf

\* The commands that parse_command() makes of lines.
Readable ==
    [kind : {"New"}, id : Nat, side : Sides, otype : {"Limit", "Market"},
     price : Int, qty : Nat, tif : Tifs]
      \cup {CancelOf(id) : id \in Nat}
      \cup {ReplaceOf(id, price, qty) : id \in Nat, price \in Int, qty \in Nat}

LEMMA ConstructedIsReadable == Constructed \subseteq Readable
<1>1. \A id \in Nat, side \in Sides, price \in Int, qty \in Nat, tif \in Tifs :
         NewLimit(id, side, price, qty, tif) \in Readable
  BY DEF NewLimit, Readable
<1>2. \A id \in Nat, side \in Sides, qty \in Nat : NewMarket(id, side, qty) \in Readable
  BY DEF NewMarket, Readable, Tifs
<1>3. \A id \in Nat : CancelOf(id) \in Readable
  BY DEF Readable
<1>4. \A id \in Nat, price \in Int, qty \in Nat : ReplaceOf(id, price, qty) \in Readable
  BY DEF Readable
<1> QED BY <1>1, <1>2, <1>3, <1>4 DEF Constructed

LEMMA OutcomeAnswers ==
    ASSUME NEW cfg \in Configs, NEW b \in BooksOf(cfg), NEW c \in Readable
    PROVE  Answers(Outcome(b, c), cfg.room)
<1>1. /\ Sound(b.orders) /\ Held(b.orders) <= cfg.room /\ cfg.room \in Nat
      /\ b.cfg = cfg
  BY DEF BooksOf, Configs
<1>2. CASE c \in [kind : {"New"}, id : Nat, side : Sides, otype : {"Limit", "Market"},
                  price : Int, qty : Nat, tif : Tifs]
  <2>1. PICK limit : limit = IF c.otype = "Market" THEN NIL ELSE c.price
    OBVIOUS
  <2>2. PICK id \in Nat, side \in Sides, qty \in Nat, tif \in Tifs :
          id = c.id /\ side = c.side /\ qty = c.qty /\ tif = c.tif
    BY <1>2
  <2>3. limit \in Int \cup {NIL}
    BY <1>2, <2>1
  <2>4. Outcome(b, c) = AfterNew(b.orders, Admitted(b.cfg), b.cfg.room, id, side, limit, qty, tif)
    <3>1. c.kind = "New"
      BY <1>2
    <3> QED BY <2>1, <2>2, <3>1 DEF Outcome
  <2> QED BY <1>1, <2>3, <2>4, NewAnswers
<1>4. CASE \E id \in Nat : c = CancelOf(id)
  <2>1. PICK id \in Nat : c = CancelOf(id)
    BY <1>4
  <2>2. Outcome(b, c) = AfterCancel(b.orders, id)
    BY <2>1 DEF Outcome, CancelOf, Changing
  <2> QED BY <1>1, <2>2, CancelAnswers
<1>5. CASE \E id \in Nat, price \in Int, qty \in Nat : c = ReplaceOf(id, price, qty)
  <2>1. PICK id \in Nat, price \in Int, qty \in Nat : c = ReplaceOf(id, price, qty)
    BY <1>5
  <2>2. Outcome(b, c) = AfterReplace(b.orders, Admitted(b.cfg), id, price, qty)
    BY <2>1 DEF Outcome, ReplaceOf, Changing
  <2> QED BY <1>1, <2>2, ReplaceAnswers
<1> QED BY <1>2, <1>4, <1>5 DEF Readable

----------------------------------------------------------------------------
(* The engine.                                                             *)

\* An engine whose books all have its configuration, on finitely many symbols.
IsEngine(e, cfg) ==
    \E S \in SUBSET Nat : IsFiniteSet(S) /\ e \in [cfg : {cfg}, books : [S -> BooksOf(cfg)]]

LEMMA EngineFacts ==
    ASSUME NEW e, NEW cfg, IsEngine(e, cfg)
    PROVE  \E S \in SUBSET Nat :
             /\ IsFiniteSet(S) /\ DOMAIN e.books = S /\ e.cfg = cfg
             /\ e.books \in [S -> BooksOf(cfg)]
             /\ e = [cfg |-> cfg, books |-> e.books]
  BY DEF IsEngine

LEMMA MakesEngine ==
    ASSUME NEW S \in SUBSET Nat, IsFiniteSet(S), NEW cfg, NEW f \in [S -> BooksOf(cfg)]
    PROVE  IsEngine([cfg |-> cfg, books |-> f], cfg)
  BY DEF IsEngine

LEMMA BookFacts ==
    ASSUME NEW cfg, NEW b \in BooksOf(cfg)
    PROVE  /\ b.cfg = cfg /\ b.seq \in Nat /\ Sound(b.orders) /\ Held(b.orders) <= cfg.room
           /\ b = [cfg |-> cfg, orders |-> b.orders, seq |-> b.seq]
           /\ b.seq = 0 => b = NewBook(cfg)
  BY DEF BooksOf

LEMMA NewIsEngine ==
    ASSUME NEW cfg
    PROVE  IsEngine(NewEngine(cfg), cfg)
<1>1. {} \in SUBSET Nat /\ IsFiniteSet({})
  BY FS_EmptySet
<1>2. <<>> \in [{} -> BooksOf(cfg)]
  OBVIOUS
<1> QED BY <1>1, <1>2, MakesEngine DEF NewEngine

\* The book that a command for sym meets.
BookAt(e, sym) == IF sym \in DOMAIN e.books THEN e.books[sym] ELSE NewBook(e.cfg)

\* The books, and the engine, with that book for sym.
With(f, sym, b) == [s \in DOMAIN f \cup {sym} |-> IF s = sym THEN b ELSE f[s]]

WithBook(e, sym, b) == [cfg |-> e.cfg, books |-> With(e.books, sym, b)]

Put(f, sym, x) == [f EXCEPT ![sym] = x]

LEMMA WithFacts ==
    /\ \A f, sym, b : sym \in DOMAIN With(f, sym, b) /\ With(f, sym, b)[sym] = b
    /\ \A f, sym, b, x : Put(With(f, sym, b), sym, x) = With(f, sym, x)
<1>1. ASSUME NEW f, NEW sym, NEW b, NEW x
      PROVE  Put(With(f, sym, b), sym, x) = With(f, sym, x)
  BY DEF With, Put
<1>2. ASSUME NEW f, NEW sym, NEW b
      PROVE  sym \in DOMAIN With(f, sym, b) /\ With(f, sym, b)[sym] = b
  BY DEF With
<1> QED BY <1>1, <1>2

LEMMA WithBookIsEngine ==
    ASSUME NEW cfg, NEW e, IsEngine(e, cfg), NEW sym \in Nat, NEW b \in BooksOf(cfg)
    PROVE  IsEngine(WithBook(e, sym, b), cfg)
<1>1. PICK S \in SUBSET Nat : /\ IsFiniteSet(S) /\ DOMAIN e.books = S /\ e.cfg = cfg
                              /\ e.books \in [S -> BooksOf(cfg)]
  BY EngineFacts
<1>2. S \cup {sym} \in SUBSET Nat /\ IsFiniteSet(S \cup {sym})
  BY <1>1, FS_AddElement
<1>3. With(e.books, sym, b) \in [S \cup {sym} -> BooksOf(cfg)]
  BY <1>1 DEF With
<1> QED BY <1>1, <1>2, <1>3, MakesEngine DEF WithBook

LEMMA BookAtFacts ==
    ASSUME NEW cfg \in Configs, NEW e, IsEngine(e, cfg), NEW sym
    PROVE  BookAt(e, sym) \in BooksOf(cfg)
<1>1. PICK S \in SUBSET Nat : /\ IsFiniteSet(S) /\ DOMAIN e.books = S /\ e.cfg = cfg
                              /\ e.books \in [S -> BooksOf(cfg)]
  BY EngineFacts
<1> QED BY <1>1, NewIsSound DEF BookAt

\* add_symbol() makes the book there would be.
LEMMA AddsBook ==
    ASSUME NEW cfg, NEW e, e = [cfg |-> cfg, books |-> e.books]
    PROVE  \A sym : AddSymbol(e, sym, cfg) = WithBook(e, sym, BookAt(e, sym))
<1> TAKE sym
<1>1. PICK f, S : f = e.books /\ S = DOMAIN f
  OBVIOUS
<1>2. e = [cfg |-> cfg, books |-> f]
  BY <1>1
<1>3. e.cfg = cfg /\ e.books = f
  BY <1>2
<1>4. AddSymbol(e, sym, cfg) = [cfg |-> cfg, books |-> Emplaced(f, sym, NewBook(cfg))]
  BY <1>2, <1>3 DEF AddSymbol, AddBook
<1>5. WithBook(e, sym, BookAt(e, sym))
        = [cfg |-> cfg, books |-> With(f, sym, BookAt(e, sym))]
  BY <1>3 DEF WithBook
<1>6. BookAt(e, sym) = IF sym \in S THEN f[sym] ELSE NewBook(cfg)
  BY <1>1, <1>3 DEF BookAt
<1>7. PICK n : n = NewBook(cfg)
  OBVIOUS
<1>8. Emplaced(f, sym, n) = [s \in S \cup {sym} |-> IF s \in S THEN f[s] ELSE n]
  BY <1>1 DEF Emplaced
<1>9. Emplaced(f, sym, n) = With(f, sym, BookAt(e, sym))
  BY <1>1, <1>6, <1>7, <1>8 DEF With
<1> QED BY <1>4, <1>5, <1>7, <1>9

LEMMA AddIsWithBook ==
    ASSUME NEW cfg, NEW e, IsEngine(e, cfg)
    PROVE  \A sym : AddSymbol(e, sym, cfg) = WithBook(e, sym, BookAt(e, sym))
  BY EngineFacts, AddsBook

\* The book after a command, and the events it makes.
BookAfter(b, c) ==
    [cfg |-> b.cfg, orders |-> Outcome(b, c).book,
     seq |-> b.seq + Len(Outcome(b, c).events)]

EventsAfter(b, sym, c) ==
    [i \in DOMAIN Outcome(b, c).events |->
       [sym |-> sym, seq |-> b.seq + i, ev |-> Outcome(b, c).events[i]]]

LEMMA BookAfterFacts ==
    ASSUME NEW cfg \in Configs, NEW b \in BooksOf(cfg), NEW c \in Readable
    PROVE  BookAfter(b, c) \in BooksOf(cfg) /\ BookAfter(b, c).seq > b.seq
<1>1. PICK out : out = Outcome(b, c) /\ Answers(out, cfg.room)
  BY OutcomeAnswers
<1>2. PICK n \in Nat : n = Len(out.events) /\ n > 0
  BY <1>1 DEF Answers
<1>3. PICK k \in Nat : k = b.seq
  BY BookFacts
<1>4. b.cfg = cfg
  BY BookFacts
<1>5. BookAfter(b, c) = [cfg |-> cfg, orders |-> out.book, seq |-> k + n]
  BY <1>1, <1>2, <1>3, <1>4 DEF BookAfter
<1>6. Sound(out.book) /\ Held(out.book) <= cfg.room /\ out.book \in [Sides -> Seq(Kept)]
  BY <1>1 DEF Answers, Sound
<1>7. k + n \in Nat /\ k + n # 0 /\ k + n > k
  BY <1>2
<1> QED BY <1>3, <1>5, <1>6, <1>7 DEF BooksOf

IsSubmitted(e, sym, c, b) ==
    /\ Submitted(e, sym, c).engine = WithBook(e, sym, BookAfter(b, c))
    /\ Submitted(e, sym, c).events = EventsAfter(b, sym, c)

LEMMA SubmittedTo ==
    ASSUME NEW e, e = [cfg |-> e.cfg, books |-> e.books], NEW sym, NEW c,
           NEW own, BookAt(e, sym) \in BooksOf(own)
    PROVE  IsSubmitted(e, sym, c, BookAt(e, sym))
<1>1. PICK cfg : cfg = e.cfg
  OBVIOUS
<1>2. PICK f : f = e.books
  OBVIOUS
<1>3. PICK b \in BooksOf(own) : b = BookAt(e, sym)
  OBVIOUS
<1>4. PICK g : g = With(f, sym, b)
  OBVIOUS
<1>5. AddSymbol(e, sym, cfg) = WithBook(e, sym, b)
  BY <1>1, <1>3, AddsBook
<1>6. PICK ready : ready = BookOrCreate(e, sym) /\ ready = [cfg |-> cfg, books |-> g]
  BY <1>1, <1>2, <1>4, <1>5 DEF BookOrCreate, WithBook
<1>7. g[sym] = b /\ ready.books[sym] = b /\ sym \in DOMAIN g
  BY <1>4, <1>6, WithFacts
<1>8. PICK after : after = Outcome(b, c)
  OBVIOUS
<1>9. PICK done : done = Submitted(e, sym, c)
  OBVIOUS
<1>10. done = [engine |-> [ready EXCEPT !.books[sym].orders = after.book,
                                        !.books[sym].seq = @ + Len(after.events)],
               events |-> [i \in DOMAIN after.events |->
                             [sym |-> sym, seq |-> b.seq + i, ev |-> after.events[i]]]]
  BY <1>6, <1>7, <1>8, <1>9 DEF Submitted
<1>11. done.events = EventsAfter(b, sym, c)
  BY <1>8, <1>10 DEF EventsAfter
<1>12. PICK k \in Nat : b = [cfg |-> own, orders |-> b.orders, seq |-> k]
  BY BookFacts
<1>13. PICK n : n = k + Len(after.events)
  OBVIOUS
<1>14. PICK a : a = BookAfter(b, c) /\ a = [cfg |-> own, orders |-> after.book, seq |-> n]
  <2>1. b.cfg = own /\ b.seq = k
    BY <1>12
  <2> QED BY <1>8, <2>1, <1>13 DEF BookAfter
<1>15. PICK ord : ord = after.book
  OBVIOUS
<1>16. [ready EXCEPT !.books[sym].orders = ord]
         = [cfg |-> cfg, books |-> Put(g, sym, [cfg |-> own, orders |-> ord, seq |-> k])]
  <2>1. [b EXCEPT !.orders = ord] = [cfg |-> own, orders |-> ord, seq |-> k]
    BY <1>12
  <2>2. [g EXCEPT ![sym].orders = ord] = [g EXCEPT ![sym] = [b EXCEPT !.orders = ord]]
    BY <1>7
  <2> QED BY <1>6, <2>1, <2>2 DEF Put
<1>17. PICK h : h = With(f, sym, [cfg |-> own, orders |-> ord, seq |-> k])
  OBVIOUS
<1>18. [ready EXCEPT !.books[sym].orders = ord] = [cfg |-> cfg, books |-> h]
  BY <1>4, <1>16, <1>17, WithFacts
<1>19. h[sym] = [cfg |-> own, orders |-> ord, seq |-> k] /\ sym \in DOMAIN h
  BY <1>17, WithFacts
<1>20. done.engine = [cfg |-> cfg, books |-> Put(h, sym, a)]
  <2>1. done.engine = [[ready EXCEPT !.books[sym].orders = ord] EXCEPT
                         !.books[sym].seq = @ + Len(after.events)]
    BY <1>6, <1>7, <1>10, <1>12, <1>15
  <2>2. [h[sym] EXCEPT !.seq = @ + Len(after.events)] = a
    BY <1>13, <1>14, <1>15, <1>19
  <2>3. [h EXCEPT ![sym].seq = @ + Len(after.events)] = [h EXCEPT ![sym] = a]
    BY <1>19, <2>2
  <2> QED BY <1>18, <2>1, <2>3 DEF Put
<1>21. Put(h, sym, a) = With(f, sym, a)
  BY <1>17, WithFacts
<1>22. WithBook(e, sym, a) = done.engine
  BY <1>1, <1>2, <1>20, <1>21 DEF WithBook
<1> QED BY <1>3, <1>9, <1>11, <1>14, <1>22 DEF IsSubmitted

LEMMA SubmittedIs ==
    ASSUME NEW cfg \in Configs, NEW e, IsEngine(e, cfg)
    PROVE  \A sym, c : IsSubmitted(e, sym, c, BookAt(e, sym))
<1>1. e = [cfg |-> e.cfg, books |-> e.books]
  BY EngineFacts
<1>2. \A sym : BookAt(e, sym) \in BooksOf(cfg)
  BY BookAtFacts
<1> QED BY <1>1, <1>2, SubmittedTo

LEMMA SubmittedIsEngine ==
    ASSUME NEW cfg \in Configs, NEW e, IsEngine(e, cfg), NEW sym \in Nat, NEW c \in Readable
    PROVE  IsEngine(Submitted(e, sym, c).engine, cfg)
<1>1. PICK b \in BooksOf(cfg) : b = BookAt(e, sym)
  BY BookAtFacts
<1>2. IsSubmitted(e, sym, c, b)
  BY <1>1, SubmittedIs
<1>3. BookAfter(b, c) \in BooksOf(cfg)
  BY BookAfterFacts
<1> QED BY <1>2, <1>3, WithBookIsEngine DEF IsSubmitted

----------------------------------------------------------------------------
(* Engines whose books have configurations of their own: when a snapshot   *)
(* lost its header, the books that are made later have another than it.    *)

AnyBook == UNION {BooksOf(cfg) : cfg \in Configs}

IsMixed(e) ==
    \E S \in SUBSET Nat : IsFiniteSet(S) /\ e \in [cfg : Configs, books : [S -> AnyBook]]

LEMMA MixedFacts ==
    ASSUME NEW e, IsMixed(e)
    PROVE  \E S \in SUBSET Nat :
             /\ IsFiniteSet(S) /\ DOMAIN e.books = S /\ e.cfg \in Configs
             /\ e.books \in [S -> AnyBook]
             /\ e = [cfg |-> e.cfg, books |-> e.books]
  BY DEF IsMixed

LEMMA MakesMixed ==
    ASSUME NEW S \in SUBSET Nat, IsFiniteSet(S), NEW cfg \in Configs, NEW f \in [S -> AnyBook]
    PROVE  IsMixed([cfg |-> cfg, books |-> f])
  BY DEF IsMixed

LEMMA BookIsAny ==
    ASSUME NEW cfg \in Configs, NEW b \in BooksOf(cfg)
    PROVE  b \in AnyBook
  BY DEF AnyBook

LEMMA EngineIsMixed ==
    ASSUME NEW cfg \in Configs, NEW e, IsEngine(e, cfg)
    PROVE  IsMixed(e)
<1>1. PICK S \in SUBSET Nat : /\ IsFiniteSet(S) /\ e.books \in [S -> BooksOf(cfg)]
                              /\ e = [cfg |-> cfg, books |-> e.books]
  BY EngineFacts
<1>2. e.books \in [S -> AnyBook]
  BY <1>1, BookIsAny
<1> QED BY <1>1, <1>2, MakesMixed

LEMMA AddedIsMixed ==
    ASSUME NEW e, IsMixed(e), NEW sym \in Nat, NEW b \in AnyBook
    PROVE  IsMixed(AddBook(e, sym, b)) /\ IsMixed(WithBook(e, sym, b))
<1>1. PICK S, cfg, f :
        /\ S \in SUBSET Nat /\ cfg \in Configs /\ f \in [S -> AnyBook]
        /\ IsFiniteSet(S) /\ cfg = e.cfg /\ f = e.books
        /\ e = [cfg |-> cfg, books |-> f]
  BY MixedFacts
<1>2. S \cup {sym} \in SUBSET Nat /\ IsFiniteSet(S \cup {sym})
  BY <1>1, FS_AddElement
<1>3. Emplaced(f, sym, b) \in [S \cup {sym} -> AnyBook]
  BY <1>1 DEF Emplaced
<1>4. With(f, sym, b) \in [S \cup {sym} -> AnyBook]
  BY <1>1 DEF With
<1>5. AddBook(e, sym, b) = [cfg |-> cfg, books |-> Emplaced(f, sym, b)]
  BY <1>1 DEF AddBook
<1>6. WithBook(e, sym, b) = [cfg |-> cfg, books |-> With(f, sym, b)]
  BY <1>1 DEF WithBook
<1>7. IsMixed([cfg |-> cfg, books |-> Emplaced(f, sym, b)])
  BY <1>1, <1>2, <1>3, MakesMixed
<1>8. IsMixed([cfg |-> cfg, books |-> With(f, sym, b)])
  BY <1>1, <1>2, <1>4, MakesMixed
<1> QED BY <1>5, <1>6, <1>7, <1>8

LEMMA MixedBookAt ==
    ASSUME NEW e, IsMixed(e), NEW sym
    PROVE  \E own \in Configs : BookAt(e, sym) \in BooksOf(own)
<1>1. PICK S : DOMAIN e.books = S /\ e.cfg \in Configs /\ e.books \in [S -> AnyBook]
  BY MixedFacts
<1>2. CASE sym \in S
  <2>1. BookAt(e, sym) \in AnyBook
    BY <1>1, <1>2 DEF BookAt
  <2> QED BY <2>1 DEF AnyBook
<1>3. CASE sym \notin S
  BY <1>1, <1>3, NewIsSound DEF BookAt
<1> QED BY <1>2, <1>3

LEMMA SubmittedIsMixed ==
    ASSUME NEW e, IsMixed(e), NEW sym \in Nat, NEW c \in Readable
    PROVE  IsMixed(Submitted(e, sym, c).engine)
<1>1. PICK own, b : own \in Configs /\ b \in BooksOf(own) /\ b = BookAt(e, sym)
  BY MixedBookAt
<1>2. e = [cfg |-> e.cfg, books |-> e.books]
  BY MixedFacts
<1>3. IsSubmitted(e, sym, c, b)
  BY <1>1, <1>2, SubmittedTo
<1>4. BookAfter(b, c) \in AnyBook
  BY <1>1, BookAfterFacts, BookIsAny
<1> QED BY <1>3, <1>4, AddedIsMixed DEF IsSubmitted

----------------------------------------------------------------------------
(* The books that have had a command.                                      *)

UsedOf(f) == [s \in {t \in DOMAIN f : f[t].seq > 0} |-> f[s]]

LEMMA UsedIs ==
    ASSUME NEW cfg, NEW e, IsEngine(e, cfg)
    PROVE  Used(e) = [cfg |-> cfg, books |-> UsedOf(e.books)]
<1>1. PICK f : f = e.books /\ e = [cfg |-> cfg, books |-> f]
  BY EngineFacts
<1> QED BY <1>1 DEF Used, UsedOf

LEMMA UsedFacts ==
    ASSUME NEW cfg \in Configs, NEW e, IsEngine(e, cfg)
    PROVE  /\ IsEngine(Used(e), cfg)
           /\ DOMAIN Used(e).books \subseteq DOMAIN e.books
           /\ \A s \in DOMAIN Used(e).books :
                Used(e).books[s] = e.books[s] /\ e.books[s].seq > 0
           /\ \A s : BookAt(Used(e), s) = BookAt(e, s)
<1>1. PICK S \in SUBSET Nat : /\ IsFiniteSet(S) /\ DOMAIN e.books = S /\ e.cfg = cfg
                              /\ e.books \in [S -> BooksOf(cfg)]
  BY EngineFacts
<1>2. PICK T : T = {t \in S : e.books[t].seq > 0}
  OBVIOUS
<1>3. PICK u : u = Used(e) /\ u = [cfg |-> cfg, books |-> [s \in T |-> e.books[s]]]
  BY <1>1, <1>2, UsedIs DEF UsedOf
<1>4. T \in SUBSET Nat /\ IsFiniteSet(T) /\ T \subseteq S
  BY <1>1, <1>2, FS_Subset
<1>5. [s \in T |-> e.books[s]] \in [T -> BooksOf(cfg)]
  BY <1>1, <1>4
<1>6. IsEngine(u, cfg)
  BY <1>3, <1>4, <1>5, MakesEngine
<1>7. DOMAIN u.books = T /\ u.cfg = cfg /\ \A s \in T : u.books[s] = e.books[s] /\ e.books[s].seq > 0
  BY <1>2, <1>3
<1>8. ASSUME NEW s
      PROVE  BookAt(u, s) = BookAt(e, s)
  <2>1. CASE s \in T
    BY <1>1, <1>4, <1>7, <2>1 DEF BookAt
  <2>2. CASE s \notin S
    BY <1>1, <1>4, <1>7, <2>2 DEF BookAt
  <2>3. CASE s \in S /\ s \notin T
    <3>1. e.books[s] \in BooksOf(cfg)
      BY <1>1, <2>3
    <3>2. e.books[s].seq \in Nat /\ ~(e.books[s].seq > 0)
      BY <1>2, <2>3, <3>1, BookFacts
    <3>3. e.books[s] = NewBook(cfg)
      BY <3>1, <3>2, BookFacts
    <3> QED BY <1>1, <1>7, <2>3, <3>3 DEF BookAt
  <2> QED BY <2>1, <2>2, <2>3
<1> QED BY <1>1, <1>3, <1>4, <1>6, <1>7, <1>8

\* What a command makes of the used books, it makes of all.
LEMMA UsedSubmit ==
    ASSUME NEW cfg \in Configs, NEW e, IsEngine(e, cfg), NEW u, u = Used(e),
           NEW sym \in Nat, NEW c \in Readable
    PROVE  /\ Submitted(e, sym, c).events = Submitted(u, sym, c).events
           /\ Used(Submitted(e, sym, c).engine) = Submitted(u, sym, c).engine
<1>1. IsEngine(u, cfg)
  BY UsedFacts
<1>2. PICK b \in BooksOf(cfg) : b = BookAt(e, sym) /\ b = BookAt(u, sym)
  BY UsedFacts, BookAtFacts
<1>3. PICK a \in BooksOf(cfg) : a = BookAfter(b, c) /\ a.seq > 0
  <2>1. BookAfter(b, c) \in BooksOf(cfg) /\ BookAfter(b, c).seq > b.seq
    BY BookAfterFacts
  <2>2. b.seq \in Nat /\ BookAfter(b, c).seq \in Nat
    BY <2>1, BookFacts
  <2> QED BY <2>1, <2>2
<1>0. IsSubmitted(e, sym, c, b) /\ IsSubmitted(u, sym, c, b)
  BY <1>1, <1>2, SubmittedIs
<1>4. Submitted(e, sym, c).events = Submitted(u, sym, c).events
  BY <1>0 DEF IsSubmitted
<1>5. PICK d : d = WithBook(e, sym, a) /\ d = Submitted(e, sym, c).engine
  BY <1>0, <1>3 DEF IsSubmitted
<1>6. Submitted(u, sym, c).engine = WithBook(u, sym, a)
  BY <1>0, <1>3 DEF IsSubmitted
<1>7. IsEngine(d, cfg)
  BY <1>5, SubmittedIsEngine
<1>8. PICK S \in SUBSET Nat : DOMAIN e.books = S /\ e.cfg = cfg
  BY EngineFacts
<1>9. PICK f : f = e.books
  OBVIOUS
<1>10. PICK v : v = UsedOf(f)
  OBVIOUS
<1>11. u = [cfg |-> cfg, books |-> v]
  BY <1>9, <1>10, UsedIs
<1>12. WithBook(u, sym, a) = [cfg |-> cfg, books |-> With(v, sym, a)]
  BY <1>11 DEF WithBook
<1>13. PICK g : g = With(f, sym, a)
  OBVIOUS
<1>14. d = [cfg |-> cfg, books |-> g]
  BY <1>5, <1>8, <1>9, <1>13 DEF WithBook
<1>15. Used(d) = [cfg |-> cfg, books |-> UsedOf(g)]
  BY <1>7, <1>14, UsedIs
<1>16. DOMAIN g = S \cup {sym} /\ \A s \in S \cup {sym} : g[s] = IF s = sym THEN a ELSE f[s]
  BY <1>8, <1>9, <1>13 DEF With
<1>17. PICK T \in SUBSET S : T = {t \in S : f[t].seq > 0}
  OBVIOUS
<1>18. {t \in DOMAIN g : g[t].seq > 0} = T \cup {sym}
  BY <1>3, <1>16, <1>17
<1>19. v = [s \in T |-> f[s]]
  BY <1>8, <1>9, <1>10, <1>17 DEF UsedOf
<1>20. UsedOf(g) = [s \in T \cup {sym} |-> IF s = sym THEN a ELSE f[s]]
  <2>1. UsedOf(g) = [s \in T \cup {sym} |-> g[s]]
    BY <1>18 DEF UsedOf
  <2>2. \A s \in T \cup {sym} : g[s] = IF s = sym THEN a ELSE f[s]
    BY <1>16
  <2> QED BY <2>1, <2>2
<1>21. With(v, sym, a) = [s \in T \cup {sym} |-> IF s = sym THEN a ELSE f[s]]
  BY <1>19 DEF With
<1> QED BY <1>4, <1>5, <1>6, <1>12, <1>15, <1>20, <1>21

\* A book that has had no command is as good as none.
LEMMA UsedAdd ==
    ASSUME NEW cfg \in Configs, NEW e, IsEngine(e, cfg), NEW sym \in Nat
    PROVE  /\ IsEngine(AddSymbol(e, sym, cfg), cfg)
           /\ Used(AddSymbol(e, sym, cfg)) = Used(e)
<1>1. PICK b \in BooksOf(cfg) : b = BookAt(e, sym)
  BY BookAtFacts
<1>2. PICK d : d = AddSymbol(e, sym, cfg) /\ d = WithBook(e, sym, b)
  BY <1>1, AddIsWithBook
<1>3. IsEngine(d, cfg)
  BY <1>2, WithBookIsEngine
<1>4. PICK S \in SUBSET Nat : DOMAIN e.books = S /\ e.cfg = cfg
  BY EngineFacts
<1>5. PICK f : f = e.books
  OBVIOUS
<1>6. b = IF sym \in S THEN f[sym] ELSE NewBook(cfg)
  BY <1>1, <1>4, <1>5 DEF BookAt
<1>7. NewBook(cfg).seq = 0
  BY DEF NewBook
<1>8. PICK g : g = With(f, sym, b)
  OBVIOUS
<1>9. d = [cfg |-> cfg, books |-> g]
  BY <1>2, <1>4, <1>5, <1>8 DEF WithBook
<1>10. PICK T \in SUBSET S : T = {t \in S : f[t].seq > 0}
  OBVIOUS
<1>11. Used(e) = [cfg |-> cfg, books |-> [s \in T |-> f[s]]]
  BY <1>4, <1>5, <1>10, UsedIs DEF UsedOf
<1>12. Used(d) = [cfg |-> cfg, books |-> UsedOf(g)]
  BY <1>3, <1>9, UsedIs
<1>13. DOMAIN g = S \cup {sym} /\ \A s \in S \cup {sym} : g[s] = IF s = sym THEN b ELSE f[s]
  BY <1>4, <1>5, <1>8 DEF With
<1>14. \A s \in T : s \in S \cup {sym} /\ g[s] = f[s] /\ g[s].seq > 0
  BY <1>6, <1>10, <1>13
<1>15. \A t \in S \cup {sym} : g[t].seq > 0 => t \in T
  <2> SUFFICES ASSUME NEW t \in S \cup {sym}, g[t].seq > 0 PROVE t \in T
    OBVIOUS
  <2>1. CASE t \in S
    <3>1. g[t] = f[t]
      BY <1>6, <1>13, <2>1
    <3> QED BY <1>10, <2>1, <3>1
  <2>2. CASE t \notin S
    <3>1. g[t] = NewBook(cfg)
      BY <1>6, <1>13, <2>2
    <3> QED BY <1>7, <3>1
  <2> QED BY <2>1, <2>2
<1>16. {t \in DOMAIN g : g[t].seq > 0} = T
  BY <1>13, <1>14, <1>15
<1>17. UsedOf(g) = [s \in T |-> g[s]]
  BY <1>16 DEF UsedOf
<1>18. [s \in T |-> g[s]] = [s \in T |-> f[s]]
  BY <1>14
<1> QED BY <1>2, <1>3, <1>11, <1>12, <1>17, <1>18

----------------------------------------------------------------------------
(* What reading makes of a file, one piece after the other.                *)

\* The fold leads from x over s to y.
Leads(fold, cfg, x, s, y) ==
    \E r : r[0] = x /\ Runs(fold, cfg, s, r) /\ r[Len(s)] = y

LEMMA LeadsNowhere ==
    ASSUME NEW fold, NEW cfg, NEW x
    PROVE  Leads(fold, cfg, x, <<>>, x)
<1>1. PICK r : r = [i \in {0} |-> x]
  OBVIOUS
<1>2. r[0] = x /\ Len(<<>>) = 0
  BY <1>1
<1> QED BY <1>2 DEF Leads, Runs

LEMMA LeadsOne ==
    ASSUME NEW fold, NEW cfg, NEW x, NEW l, NEW y, y = Turn(fold, cfg, x, l)
    PROVE  Leads(fold, cfg, x, <<l>>, y)
<1>1. PICK r : r = [i \in {0, 1} |-> IF i = 0 THEN x ELSE y]
  OBVIOUS
<1>2. r[0] = x /\ r[1] = y /\ Len(<<l>>) = 1 /\ <<l>>[1] = l
  BY <1>1
<1>3. \A i \in 1 .. 1 : i = 1 /\ i - 1 = 0
  OBVIOUS
<1>4. \A i \in 1 .. Len(<<l>>) : r[i] = Turn(fold, cfg, r[i - 1], <<l>>[i])
  BY <1>2, <1>3
<1> QED BY <1>2, <1>4 DEF Leads, Runs

LEMMA LeadsJoin ==
    ASSUME NEW fold, NEW cfg, NEW x, NEW y, NEW z, NEW S, NEW a \in Seq(S), NEW b \in Seq(S),
           Leads(fold, cfg, x, a, y), Leads(fold, cfg, y, b, z)
    PROVE  Leads(fold, cfg, x, a \o b, z)
<1>1. PICK ra : ra[0] = x /\ Runs(fold, cfg, a, ra) /\ ra[Len(a)] = y
  BY DEF Leads
<1>2. PICK rb : rb[0] = y /\ Runs(fold, cfg, b, rb) /\ rb[Len(b)] = z
  BY DEF Leads
<1>3. PICK m \in Nat : m = Len(a)
  OBVIOUS
<1>4. PICK n \in Nat : n = Len(b)
  OBVIOUS
<1>5. PICK w : w = a \o b
  OBVIOUS
<1>6. /\ Len(w) = m + n
      /\ \A j \in 1 .. m : w[j] = a[j]
      /\ \A j \in 1 .. n : w[m + j] = b[j]
  BY <1>3, <1>4, <1>5, ConcatFacts
<1>7. PICK r : r = [i \in 0 .. (m + n) |-> IF i <= m THEN ra[i] ELSE rb[i - m]]
  OBVIOUS
<1>8. /\ \A i \in 0 .. m : r[i] = ra[i]
      /\ \A i \in 0 .. n : r[m + i] = rb[i]
  BY <1>1, <1>2, <1>3, <1>7
<1>9. ASSUME NEW i \in 1 .. (m + n)
      PROVE  r[i] = Turn(fold, cfg, r[i - 1], w[i])
  <2>1. CASE i <= m
    <3>1. i \in 1 .. m /\ i \in 0 .. m /\ i - 1 \in 0 .. m
      BY <2>1
    <3>2. ra[i] = Turn(fold, cfg, ra[i - 1], a[i])
      BY <1>1, <1>3, <3>1 DEF Runs
    <3> QED BY <1>6, <1>8, <3>1, <3>2
  <2>2. CASE ~(i <= m)
    <3>1. PICK k \in 1 .. n : i = m + k
      <4>1. i - m \in 1 .. n /\ i = m + (i - m)
        BY <2>2
      <4> QED BY <4>1
    <3>2. k \in 0 .. n /\ k - 1 \in 0 .. n /\ i - 1 = m + (k - 1)
      BY <3>1
    <3>3. rb[k] = Turn(fold, cfg, rb[k - 1], b[k])
      BY <1>2, <1>4, <3>1 DEF Runs
    <3>4. r[i] = rb[k] /\ r[i - 1] = rb[k - 1] /\ w[i] = b[k]
      BY <1>6, <1>8, <3>1, <3>2
    <3> QED BY <3>3, <3>4
  <2> QED BY <2>1, <2>2
<1>10. Runs(fold, cfg, w, r)
  BY <1>6, <1>9 DEF Runs
<1>11. r[0] = x /\ r[Len(w)] = z
  BY <1>1, <1>2, <1>4, <1>6, <1>8
<1> QED BY <1>5, <1>10, <1>11 DEF Leads

\* A run all whose turns are known.
LEMMA LeadsBy ==
    ASSUME NEW fold, NEW cfg, NEW n \in Nat, NEW s, Len(s) = n, NEW r,
           \A i \in 1 .. n : r[i] = Turn(fold, cfg, r[i - 1], s[i])
    PROVE  Leads(fold, cfg, r[0], s, r[n])
  BY DEF Leads, Runs

----------------------------------------------------------------------------
(* The lines of a snapshot.                                                *)

\* An order as the snapshot has it, and a book of them.
Rec(side, o) == [id |-> o.id, side |-> side, price |-> o.price, qty |-> o.qty, tif |-> o.tif]

Recs == [id : Nat, side : Sides, price : Int, qty : Int, tif : Tifs]

RecsOf(b, side) == [i \in DOMAIN b.orders[side] |-> Rec(side, b.orders[side][i])]

BookOf(sym, seq, orders) == [symbol |-> sym, seq |-> seq, orders |-> orders]

\* The snapshot so far, the books and the last of them.
SnapOf(cfg, books) == [cfg |-> cfg, books |-> books]

Header(cfg) ==
    <<Field("format", "matcher-snap/1"),
      Field("pmin", cfg.min), Field("pmax", cfg.max),
      Field("max_orders", cfg.room),
      Field("index", IF cfg.index = "Tree" THEN "tree" ELSE "ladder")>>

LEMMA HeaderTurn ==
    ASSUME NEW cfg \in Configs, NEW any, NEW books
    PROVE  ParseLine(SnapOf(any, books), Header(cfg)) = SnapOf(cfg, books)
<1>1. PICK line : line = Header(cfg)
  OBVIOUS
<1>2. /\ DOMAIN line = 1 .. 5
      /\ line[1] = Field("format", "matcher-snap/1")
      /\ line[2] = Field("pmin", cfg.min)
      /\ line[3] = Field("pmax", cfg.max)
      /\ line[4] = Field("max_orders", cfg.room)
      /\ line[5] = Field("index", IF cfg.index = "Tree" THEN "tree" ELSE "ladder")
  BY <1>1 DEF Header
<1>3. /\ Get(line, "pmin") = cfg.min
      /\ Get(line, "pmax") = cfg.max
      /\ Get(line, "max_orders") = cfg.room
      /\ Get(line, "index") = IF cfg.index = "Tree" THEN "tree" ELSE "ladder"
  <2>2. Get(line, line[2].key) = line[2].val
    BY <1>2, GetsOnlyField DEF Field
  <2>3. Get(line, line[3].key) = line[3].val
    BY <1>2, GetsOnlyField DEF Field
  <2>4. Get(line, line[4].key) = line[4].val
    BY <1>2, GetsOnlyField DEF Field
  <2>5. Get(line, line[5].key) = line[5].val
    BY <1>2, GetsOnlyField DEF Field
  <2> QED BY <1>2, <2>2, <2>3, <2>4, <2>5 DEF Field
<1>4. Get(line, "rec") # "order" /\ Get(line, "rec") # "book"
  <2>1. \A i \in DOMAIN line : line[i].key # "rec"
    BY <1>2 DEF Field
  <2>2. Get(line, "rec") = NIL
    BY <2>1 DEF Get
  <2> QED BY <2>2, NilIsNoRecord
<1>5. /\ Num(line, "pmin") = cfg.min
      /\ Num(line, "pmax") = cfg.max
      /\ Num(line, "max_orders") = cfg.room
  <2>1. cfg.min \in Int /\ cfg.max \in Int /\ cfg.room \in Int
    BY DEF Configs
  <2> QED BY <1>3, <2>1, NumIsRead
<1>6. BookConfig(IF Get(line, "index") = "tree" THEN "Tree" ELSE "Ladder",
                 Num(line, "pmin"), Num(line, "pmax"), Num(line, "max_orders")) = cfg
  <2>1. cfg = [index |-> cfg.index, min |-> cfg.min, max |-> cfg.max, room |-> cfg.room]
          /\ (cfg.index = "Tree" \/ cfg.index = "Ladder")
    BY DEF Configs
  <2>2. (IF Get(line, "index") = "tree" THEN "Tree" ELSE "Ladder") = cfg.index
    BY <1>3, <2>1
  <2> QED BY <1>5, <2>1, <2>2 DEF BookConfig
<1>7. ParseLine(SnapOf(any, books), line) = [SnapOf(any, books) EXCEPT !.cfg = cfg]
  BY <1>4, <1>6 DEF ParseLine
<1> QED BY <1>1, <1>7 DEF SnapOf

BookLine(sym, seq) == <<Field("rec", "book"), Field("symbol", sym), Field("seq", seq)>>

LEMMA BookTurn ==
    ASSUME NEW cfg, NEW books, NEW sym \in Nat, NEW seq \in Nat
    PROVE  ParseLine(SnapOf(cfg, books), BookLine(sym, seq))
             = SnapOf(cfg, Append(books, BookOf(sym, seq, <<>>)))
<1>1. PICK line : line = BookLine(sym, seq)
  OBVIOUS
<1>2. /\ DOMAIN line = 1 .. 3
      /\ line[1] = Field("rec", "book")
      /\ line[2] = Field("symbol", sym)
      /\ line[3] = Field("seq", seq)
  BY <1>1 DEF BookLine
<1>3. /\ Get(line, "rec") = "book"
      /\ Get(line, "symbol") = sym
      /\ Get(line, "seq") = seq
  <2>1. Get(line, line[1].key) = line[1].val
    BY <1>2, GetsOnlyField DEF Field
  <2>2. Get(line, line[2].key) = line[2].val
    BY <1>2, GetsOnlyField DEF Field
  <2>3. Get(line, line[3].key) = line[3].val
    BY <1>2, GetsOnlyField DEF Field
  <2> QED BY <1>2, <2>1, <2>2, <2>3 DEF Field
<1>4. Num(line, "symbol") = sym /\ Num(line, "seq") = seq
  BY <1>3, NumIsRead
<1> QED BY <1>1, <1>3, <1>4 DEF ParseLine, SnapOf, BookOf

LEMMA OrderIsRead ==
    ASSUME NEW side \in Sides, NEW o \in Kept
    PROVE  /\ OrderOf(OrderLine(side, o)) = Rec(side, o)
           /\ Get(OrderLine(side, o), "rec") = "order"
<1>1. PICK line : line = OrderLine(side, o)
  OBVIOUS
<1>2. /\ DOMAIN line = 1 .. 7
      /\ line[1] = Field("rec", "order")
      /\ line[2] = Field("order_id", o.id)
      /\ line[3] = Field("side", SideText(side))
      /\ line[4] = Field("otype", "limit")
      /\ line[5] = Field("tif", TifText[o.tif])
      /\ line[6] = Field("price", o.price)
      /\ line[7] = Field("qty", o.qty)
  BY <1>1 DEF OrderLine
<1>3. /\ Get(line, "rec") = "order"
      /\ Get(line, "order_id") = o.id
      /\ Get(line, "side") = SideText(side)
      /\ Get(line, "tif") = TifText[o.tif]
      /\ Get(line, "price") = o.price
      /\ Get(line, "qty") = o.qty
  <2>1. Get(line, line[1].key) = line[1].val
    BY <1>2, GetsOnlyField DEF Field
  <2>2. Get(line, line[2].key) = line[2].val
    BY <1>2, GetsOnlyField DEF Field
  <2>3. Get(line, line[3].key) = line[3].val
    BY <1>2, GetsOnlyField DEF Field
  <2>5. Get(line, line[5].key) = line[5].val
    BY <1>2, GetsOnlyField DEF Field
  <2>6. Get(line, line[6].key) = line[6].val
    BY <1>2, GetsOnlyField DEF Field
  <2>7. Get(line, line[7].key) = line[7].val
    BY <1>2, GetsOnlyField DEF Field
  <2> QED BY <1>2, <2>1, <2>2, <2>3, <2>5, <2>6, <2>7 DEF Field
<1>4. o.id \in Int /\ o.price \in Int /\ o.qty \in Int /\ o.tif \in Tifs
  BY DEF Kept
<1>5. /\ Num(line, "order_id") = o.id /\ Num(line, "price") = o.price
      /\ Num(line, "qty") = o.qty
  BY <1>3, <1>4, NumIsRead
<1>6. SideOfText(Get(line, "side")) = side /\ TifOfText(Get(line, "tif")) = o.tif
  BY <1>3, <1>4, SideIsRead, TifIsRead
<1> QED BY <1>1, <1>3, <1>5, <1>6 DEF OrderOf, Rec

LEMMA AppendIs ==
    ASSUME NEW S, NEW q \in Seq(S), NEW y
    PROVE  Append(q, y) = [i \in 1 .. (Len(q) + 1) |-> IF i = Len(q) + 1 THEN y ELSE q[i]]
<1>1. PICK n \in Nat : n = Len(q)
  OBVIOUS
<1>2. PICK U : U = S \cup {y}
  OBVIOUS
<1>3. PICK w \in Seq(U) : w = Append(q, y)
  <2>1. q \in Seq(U) /\ y \in U
    BY <1>2
  <2>2. Append(q, y) \in Seq(U)
    BY <2>1, AppendProperties
  <2> QED BY <2>2
<1>4. /\ Len(w) = n + 1 /\ w[n + 1] = y
      /\ \A j \in 1 .. n : w[j] = q[j]
  <2>1. q \in Seq(U) /\ y \in U
    BY <1>2
  <2>2. \A j \in 1 .. n : w[j] = q[j]
    BY <1>1, <1>3, <2>1
  <2>3. Len(w) = n + 1
    BY <1>1, <1>3, <2>1
  <2>4. w[n + 1] = y
    BY <1>1, <1>3, <2>1
  <2> QED BY <2>2, <2>3, <2>4
<1>5. w = [i \in 1 .. (n + 1) |-> w[i]]
  BY <1>4
<1>6. \A i \in 1 .. (n + 1) : w[i] = IF i = n + 1 THEN y ELSE q[i]
  BY <1>4
<1>7. w = [i \in 1 .. (n + 1) |-> IF i = n + 1 THEN y ELSE q[i]]
  BY <1>5, <1>6
<1> QED BY <1>1, <1>3, <1>7

\* An order joins the last book.
LEMMA OrderTurn ==
    ASSUME NEW cfg, NEW S, NEW books \in Seq(S), NEW sym, NEW seq, NEW side \in Sides, NEW o \in Kept,
           NEW orders, BookOf(sym, seq, orders) \in S
    PROVE  ParseLine(SnapOf(cfg, Append(books, BookOf(sym, seq, orders))), OrderLine(side, o))
             = SnapOf(cfg, Append(books, BookOf(sym, seq, Append(orders, Rec(side, o)))))
<1>1. PICK k \in S : k = BookOf(sym, seq, orders)
  OBVIOUS
<1>2. PICK w : w = Append(books, k)
  OBVIOUS
<1>3. PICK n \in Nat : n = Len(books)
  OBVIOUS
<1>4. w \in Seq(S) /\ Len(w) = n + 1 /\ w[n + 1] = k /\ w # <<>> /\ DOMAIN w = 1 .. (n + 1)
  BY <1>2, <1>3, AppendAdds
<1>5. PICK line : line = OrderLine(side, o)
  OBVIOUS
<1>6. Get(line, "rec") = "order" /\ OrderOf(line) = Rec(side, o)
  BY <1>5, OrderIsRead
<1>7. PICK x : x = Append(orders, Rec(side, o))
  OBVIOUS
<1>8. PICK sp : sp = SnapOf(cfg, w) /\ sp = [cfg |-> cfg, books |-> w] /\ sp.books = w
  <2>1. PICK sp : sp = SnapOf(cfg, w)
    OBVIOUS
  <2>2. sp = [cfg |-> cfg, books |-> w]
    BY <2>1 DEF SnapOf
  <2>3. sp.books = w
    BY <2>2
  <2> QED BY <2>1, <2>2, <2>3
<1>9. ParseLine(sp, line) = SnapOf(cfg, [w EXCEPT ![n + 1] = BookOf(sym, seq, x)])
  <2>1. w[Len(w)].orders = orders
    BY <1>1, <1>4 DEF BookOf
  <2>2. [k EXCEPT !.orders = x] = BookOf(sym, seq, x)
    BY <1>1 DEF BookOf
  <2>3. [w EXCEPT ![n + 1].orders = x] = [w EXCEPT ![n + 1] = BookOf(sym, seq, x)]
    BY <1>4, <2>2
  <2>4. Append(w[Len(w)].orders, OrderOf(line)) = x
    BY <1>6, <1>7, <2>1
  <2>5. ParseLine(sp, line) = [sp EXCEPT !.books[n + 1].orders = x]
    <3>1. ParseLine(sp, line) = [sp EXCEPT !.books[Len(sp.books)].orders = Append(@, OrderOf(line))]
      BY <1>4, <1>6, <1>8 DEF ParseLine
    <3>2. Len(sp.books) = n + 1 /\ Append(sp.books[n + 1].orders, OrderOf(line)) = x
      BY <1>4, <1>8, <2>4
    <3>3. PICK m : m = Len(sp.books) /\ m = n + 1
      BY <3>2
    <3>4. PICK y : y = OrderOf(line)
      OBVIOUS
    <3>5. ParseLine(sp, line) = [sp EXCEPT !.books[m].orders = Append(sp.books[m].orders, y)]
      BY <3>1, <3>3, <3>4
    <3> QED BY <3>2, <3>3, <3>4, <3>5
  <2>6. [sp EXCEPT !.books[n + 1].orders = x] = [cfg |-> cfg, books |-> [w EXCEPT ![n + 1].orders = x]]
    BY <1>8
  <2> QED BY <2>3, <2>5, <2>6 DEF SnapOf
<1>10. [w EXCEPT ![n + 1] = BookOf(sym, seq, x)] = Append(books, BookOf(sym, seq, x))
  <2>1. PICK y : y = BookOf(sym, seq, x)
    OBVIOUS
  <2>2. Append(books, y) = [i \in 1 .. (n + 1) |-> IF i = n + 1 THEN y ELSE books[i]]
    BY <1>3, AppendIs
  <2>3. w = [i \in 1 .. (n + 1) |-> IF i = n + 1 THEN k ELSE books[i]]
    BY <1>2, <1>3, AppendIs
  <2> QED BY <2>1, <2>2, <2>3
<1> QED BY <1>1, <1>2, <1>5, <1>7, <1>8, <1>9, <1>10

\* What leads over each of some pieces leads over them all.
LEMMA GlueLeads ==
    ASSUME NEW fold, NEW cfg, NEW S, NEW s \in Rows(S), NEW y,
           \A i \in 1 .. Len(s) : Leads(fold, cfg, y[i - 1], s[i], y[i])
    PROVE  Leads(fold, cfg, y[0], FlattenSeq(s), y[Len(s)])
<1>1. PICK n \in Nat : n = Len(s) /\ \A i \in 1 .. n : s[i] \in Seq(S)
  BY RowsFacts
<1>2. CASE n = 0
  <2>1. s = <<>> /\ FlattenSeq(s) = <<>>
    BY <1>1, <1>2, RowsFacts DEF FlattenSeq
  <2> QED BY <1>1, <1>2, <2>1, LeadsNowhere
<1>3. CASE n # 0
  <2>1. n \in Nat \ {0} /\ Len(s) \in Nat \ {0}
    BY <1>1, <1>3
  <2>2. PICK f : f = GlueBody(s, Len(s), f) /\ FlattenSeq(s) = f[Len(s)]
    BY <2>1, FlattenIsGlue
  <2>3. /\ \A i \in 1 .. n : f[i] \in Seq(S)
        /\ f[1] = s[1]
        /\ \A i \in 1 .. (n - 1) : f[i + 1] = f[i] \o s[i + 1]
    <3>1. /\ \A i \in 1 .. Len(s) : f[i] \in Seq(S)
          /\ Len(s) # 0 => f[1] = s[1]
          /\ \A i \in 1 .. (Len(s) - 1) : f[i + 1] = Glue(f[i], s[i + 1])
      BY <2>2, GlueSteps
    <3> QED BY <1>1, <1>3, <3>1 DEF Glue
  <2> DEFINE T == {i \in Nat : i + 1 \in 1 .. n => Leads(fold, cfg, y[0], f[i + 1], y[i + 1])}
  <2>4. 0 \in T
    <3>1. 1 \in 1 .. n /\ 1 - 1 = 0 /\ 0 + 1 = 1
      BY <2>1
    <3>2. Leads(fold, cfg, y[1 - 1], s[1], y[1])
      BY <1>1, <3>1
    <3>3. Leads(fold, cfg, y[0], f[1], y[1])
      BY <2>3, <3>1, <3>2
    <3> QED BY <3>1, <3>3
  <2>5. ASSUME NEW i \in Nat, i \in T
        PROVE  i + 1 \in T
    <3> SUFFICES ASSUME (i + 1) + 1 \in 1 .. n
                 PROVE  Leads(fold, cfg, y[0], f[(i + 1) + 1], y[(i + 1) + 1])
      OBVIOUS
    <3>1. PICK k \in 1 .. (n - 1) : k = i + 1 /\ k \in 1 .. n /\ k + 1 \in 1 .. n
      <4>1. i + 1 \in 1 .. (n - 1) /\ i + 1 \in 1 .. n
        BY <2>1
      <4> QED BY <4>1
    <3>2. Leads(fold, cfg, y[0], f[k], y[k])
      BY <2>5, <3>1
    <3>3. (k + 1) - 1 = k
      BY <3>1
    <3>4. Leads(fold, cfg, y[(k + 1) - 1], s[k + 1], y[k + 1])
      BY <1>1, <3>1
    <3>5. f[k] \in Seq(S) /\ s[k + 1] \in Seq(S) /\ f[k + 1] = f[k] \o s[k + 1]
      BY <1>1, <2>3, <3>1
    <3>6. Leads(fold, cfg, y[k], s[k + 1], y[k + 1])
      BY <3>3, <3>4
    <3>7. Leads(fold, cfg, y[0], f[k] \o s[k + 1], y[k + 1])
      BY <3>2, <3>5, <3>6, LeadsJoin
    <3> QED BY <3>1, <3>5, <3>7
  <2> HIDE DEF T
  <2>6. \A i \in Nat : i \in T
    BY <2>4, <2>5, NatInductive
  <2>7. n - 1 \in Nat /\ (n - 1) + 1 \in 1 .. n /\ (n - 1) + 1 = n
    BY <2>1
  <2>8. n - 1 \in T
    BY <2>6, <2>7
  <2>9. Leads(fold, cfg, y[0], f[n], y[n])
    BY <2>7, <2>8 DEF T
  <2> QED BY <1>1, <2>2, <2>9
<1> QED BY <1>2, <1>3

\* A sequence that goes on with the first i of another.
UpTo(a, q, i) == a \o SubSeq(q, 1, i)

Grows(S, a, q) ==
    /\ UpTo(a, q, 0) = a /\ UpTo(a, q, Len(q)) = a \o q
    /\ \A i \in 1 .. Len(q) :
         /\ UpTo(a, q, i - 1) \in Seq(S)
         /\ UpTo(a, q, i) = Append(UpTo(a, q, i - 1), q[i])

LEMMA UpToGrows ==
    ASSUME NEW S, NEW a \in Seq(S), NEW q \in Seq(S)
    PROVE  Grows(S, a, q)
<1>1. PICK n \in Nat : n = Len(q)
  OBVIOUS
<1>2. UpTo(a, q, 0) = a
  <2>1. SubSeq(q, 1, 0) = <<>>
    OBVIOUS
  <2>2. a \o <<>> = a
    OBVIOUS
  <2> QED BY <2>1, <2>2 DEF UpTo
<1>3. UpTo(a, q, n) = a \o q
  <2>1. SubSeq(q, 1, n) = q
    BY <1>1
  <2> QED BY <2>1 DEF UpTo
<1>4. ASSUME NEW i \in 1 .. n
      PROVE  UpTo(a, q, i - 1) \in Seq(S) /\ UpTo(a, q, i) = Append(UpTo(a, q, i - 1), q[i])
  <2>1. PICK h \in Seq(S) : h = SubSeq(q, 1, i - 1)
    <3>1. SubSeq(q, 1, i - 1) \in Seq(S)
      BY <1>1
    <3> QED BY <3>1
  <2>2. q[i] \in S
    BY <1>1
  <2>3. SubSeq(q, 1, i) = h \o <<q[i]>>
    <3>1. SubSeq(q, 1, i - 1) \o SubSeq(q, i, i) = SubSeq(q, 1, i)
      BY <1>1
    <3>2. SubSeq(q, i, i) = <<q[i]>>
      BY <1>1, OnePiece
    <3> QED BY <2>1, <3>1, <3>2
  <2>4. PICK t \in Seq(S) : t = <<q[i]>>
    <3>1. <<q[i]>> \in Seq(S)
      BY <2>2
    <3> QED BY <3>1
  <2>5. (a \o h) \o <<q[i]>> = a \o (h \o <<q[i]>>)
    <3>1. Glue(Glue(a, h), t) = Glue(a, Glue(h, t))
      BY GlueAssociative
    <3> QED BY <2>4, <3>1 DEF Glue
  <2>6. a \o h \in Seq(S)
    BY <2>1, ConcatFacts
  <2>7. (a \o h) \o <<q[i]>> = Append(a \o h, q[i])
    BY <2>2, <2>6, AppendIsConcat
  <2> QED BY <2>1, <2>3, <2>5, <2>6, <2>7 DEF UpTo
<1> QED BY <1>1, <1>2, <1>3, <1>4 DEF Grows

----------------------------------------------------------------------------
(* The books and the lines of a file.                                      *)

\* The books of a snapshot, and its lines but the header.
Bks == [symbol : Nat, seq : Nat, orders : Seq(Recs)]

SnapshotLines ==
    {BookLine(sym, seq) : sym \in Nat, seq \in Nat}
      \cup {OrderLine(side, o) : side \in Sides, o \in Kept}

LEMMA SidesHaveRecs ==
    ASSUME NEW cfg, NEW b \in BooksOf(cfg), NEW side \in Sides
    PROVE  \E o \in Seq(Kept) :
             /\ o = b.orders[side] /\ Len(o) \in Nat
             /\ RecsOf(b, side) \in Seq(Recs) /\ Len(RecsOf(b, side)) = Len(o)
             /\ SideLines(b, side) \in Seq(SnapshotLines) /\ Len(SideLines(b, side)) = Len(o)
             /\ \A i \in 1 .. Len(o) :
                  /\ o[i] \in Kept
                  /\ RecsOf(b, side)[i] = Rec(side, o[i])
                  /\ SideLines(b, side)[i] = OrderLine(side, o[i])
<1>1. Sound(b.orders)
  BY BookFacts
<1>2. PICK o \in Seq(Kept) : o = b.orders[side]
  BY <1>1, SideFacts
<1>3. PICK n \in Nat : n = Len(o) /\ DOMAIN o = 1 .. n
  BY KeptFacts
<1>4. \A i \in 1 .. n : o[i] \in Kept
  BY <1>3
<1>5. RecsOf(b, side) = [i \in 1 .. n |-> Rec(side, o[i])]
  BY <1>2, <1>3 DEF RecsOf
<1>6. SideLines(b, side) = [i \in 1 .. n |-> OrderLine(side, o[i])]
  BY <1>2, <1>3 DEF SideLines
<1>7. \A i \in 1 .. n : Rec(side, o[i]) \in Recs
  BY <1>4 DEF Rec, Recs, Kept
<1>8. \A i \in 1 .. n : OrderLine(side, o[i]) \in SnapshotLines
  BY <1>4 DEF SnapshotLines
<1>9. RecsOf(b, side) \in Seq(Recs) /\ Len(RecsOf(b, side)) = n
  BY <1>5, <1>7
<1>10. SideLines(b, side) \in Seq(SnapshotLines) /\ Len(SideLines(b, side)) = n
  BY <1>6, <1>8
<1>11. \A i \in 1 .. n : /\ o[i] \in Kept
                        /\ RecsOf(b, side)[i] = Rec(side, o[i])
                        /\ SideLines(b, side)[i] = OrderLine(side, o[i])
  BY <1>4, <1>5, <1>6
<1> QED BY <1>2, <1>3, <1>9, <1>10, <1>11

\* The lines of a side's orders.
LEMMA SideLeads ==
    ASSUME NEW any, NEW cfg, NEW c, NEW b \in BooksOf(c), NEW side \in Sides,
           NEW books \in Seq(Bks), NEW sym \in Nat, NEW seq \in Nat, NEW os \in Seq(Recs)
    PROVE  Leads("parse", any,
                 SnapOf(cfg, Append(books, BookOf(sym, seq, os))),
                 SideLines(b, side),
                 SnapOf(cfg, Append(books, BookOf(sym, seq, os \o RecsOf(b, side)))))
<1>1. PICK o \in Seq(Kept) :
             /\ o = b.orders[side] /\ Len(o) \in Nat
             /\ RecsOf(b, side) \in Seq(Recs) /\ Len(RecsOf(b, side)) = Len(o)
             /\ SideLines(b, side) \in Seq(SnapshotLines) /\ Len(SideLines(b, side)) = Len(o)
             /\ \A i \in 1 .. Len(o) :
                  /\ o[i] \in Kept
                  /\ RecsOf(b, side)[i] = Rec(side, o[i])
                  /\ SideLines(b, side)[i] = OrderLine(side, o[i])
  BY SidesHaveRecs
<1>2. PICK n \in Nat : n = Len(o)
  BY <1>1
<1>3. PICK q \in Seq(Recs) : q = RecsOf(b, side) /\ Len(q) = n
  BY <1>1, <1>2
<1>4. PICK l : l = SideLines(b, side) /\ Len(l) = n
  BY <1>1, <1>2
<1>5. /\ UpTo(os, q, 0) = os /\ UpTo(os, q, n) = os \o q
      /\ \A i \in 1 .. n : /\ UpTo(os, q, i - 1) \in Seq(Recs)
                           /\ UpTo(os, q, i) = Append(UpTo(os, q, i - 1), q[i])
  <2>1. Grows(Recs, os, q)
    BY UpToGrows
  <2> QED BY <1>3, <2>1 DEF Grows
<1> DEFINE Upon(i) == SnapOf(cfg, Append(books, BookOf(sym, seq, UpTo(os, q, i))))
<1>6. PICK r : r = [i \in 0 .. n |-> Upon(i)]
  OBVIOUS
<1>7. ASSUME NEW i \in 1 .. n
      PROVE  r[i] = Turn("parse", any, r[i - 1], l[i])
  <2>1. PICK w \in Seq(Recs) : w = UpTo(os, q, i - 1)
    BY <1>5
  <2>2. BookOf(sym, seq, w) \in Bks
    BY DEF BookOf, Bks
  <2>3. o[i] \in Kept /\ q[i] = Rec(side, o[i]) /\ l[i] = OrderLine(side, o[i])
    BY <1>1, <1>2, <1>3, <1>4
  <2>4. ParseLine(SnapOf(cfg, Append(books, BookOf(sym, seq, w))), OrderLine(side, o[i]))
          = SnapOf(cfg, Append(books, BookOf(sym, seq, Append(w, Rec(side, o[i])))))
    BY <2>2, <2>3, OrderTurn
  <2>5. i \in 0 .. n /\ i - 1 \in 0 .. n
    BY <1>2
  <2>6. UpTo(os, q, i) = Append(w, q[i])
    BY <1>5, <2>1
  <2>7. r[i - 1] = SnapOf(cfg, Append(books, BookOf(sym, seq, w)))
    BY <1>6, <2>1, <2>5
  <2>8. r[i] = SnapOf(cfg, Append(books, BookOf(sym, seq, Append(w, q[i]))))
    BY <1>6, <2>5, <2>6
  <2> QED BY <2>3, <2>4, <2>7, <2>8 DEF Turn
<1>8. Leads("parse", any, r[0], l, r[n])
  BY <1>4, <1>7, LeadsBy
<1>9. r[0] = SnapOf(cfg, Append(books, BookOf(sym, seq, os)))
        /\ r[n] = SnapOf(cfg, Append(books, BookOf(sym, seq, os \o q)))
  <2>1. 0 \in 0 .. n /\ n \in 0 .. n
    BY <1>2
  <2>2. r[0] = Upon(0) /\ r[n] = Upon(n)
    BY <1>6, <2>1
  <2> QED BY <1>5, <2>2
<1> QED BY <1>3, <1>4, <1>8, <1>9

AllRecs(b) == RecsOf(b, "Bid") \o RecsOf(b, "Ask")

\* The lines of a book.
LEMMA BookLeads ==
    ASSUME NEW any, NEW cfg, NEW c, NEW b \in BooksOf(c), NEW books \in Seq(Bks), NEW sym \in Nat
    PROVE  /\ BookLines(sym, b) \in Seq(SnapshotLines)
           /\ BookOf(sym, b.seq, AllRecs(b)) \in Bks
           /\ Leads("parse", any, SnapOf(cfg, books), BookLines(sym, b),
                    SnapOf(cfg, Append(books, BookOf(sym, b.seq, AllRecs(b)))))
<1>1. PICK seq \in Nat : seq = b.seq
  BY BookFacts
<1>2. "Bid" \in Sides /\ "Ask" \in Sides
  BY DEF Sides
<1>3. PICK x \in Seq(Recs) : x = RecsOf(b, "Bid")
  BY <1>2, SidesHaveRecs
<1>4. PICK y \in Seq(Recs) : y = RecsOf(b, "Ask")
  BY <1>2, SidesHaveRecs
<1>5. PICK bids \in Seq(SnapshotLines) : bids = SideLines(b, "Bid")
  BY <1>2, SidesHaveRecs
<1>6. PICK asks \in Seq(SnapshotLines) : asks = SideLines(b, "Ask")
  BY <1>2, SidesHaveRecs
<1>7. PICK l \in Seq(SnapshotLines) : l = <<BookLine(sym, seq)>>
  <2>1. BookLine(sym, seq) \in SnapshotLines
    BY DEF SnapshotLines
  <2>2. <<BookLine(sym, seq)>> \in Seq(SnapshotLines)
    BY <2>1
  <2> QED BY <2>2
<1>8. BookLines(sym, b) = (l \o bids) \o asks
  BY <1>1, <1>5, <1>6, <1>7 DEF BookLines, BookLine
<1>9. l \o bids \in Seq(SnapshotLines) /\ (l \o bids) \o asks \in Seq(SnapshotLines)
  BY ConcatFacts
<1>10. Leads("parse", any, SnapOf(cfg, books), l,
             SnapOf(cfg, Append(books, BookOf(sym, seq, <<>>))))
  <2>1. SnapOf(cfg, Append(books, BookOf(sym, seq, <<>>)))
          = Turn("parse", any, SnapOf(cfg, books), BookLine(sym, seq))
    BY BookTurn DEF Turn
  <2> QED BY <1>7, <2>1, LeadsOne
<1>11. Leads("parse", any, SnapOf(cfg, Append(books, BookOf(sym, seq, <<>>))), bids,
             SnapOf(cfg, Append(books, BookOf(sym, seq, x))))
  <2>1. <<>> \in Seq(Recs) /\ <<>> \o x = x
    OBVIOUS
  <2>2. Leads("parse", any, SnapOf(cfg, Append(books, BookOf(sym, seq, <<>>))), bids,
              SnapOf(cfg, Append(books, BookOf(sym, seq, <<>> \o x))))
    BY <1>2, <1>3, <1>5, <2>1, SideLeads
  <2> QED BY <2>1, <2>2
<1>12. Leads("parse", any, SnapOf(cfg, Append(books, BookOf(sym, seq, x))), asks,
             SnapOf(cfg, Append(books, BookOf(sym, seq, x \o y))))
  BY <1>2, <1>4, <1>6, SideLeads
<1>13. Leads("parse", any, SnapOf(cfg, books), l \o bids,
             SnapOf(cfg, Append(books, BookOf(sym, seq, x))))
  BY <1>10, <1>11, LeadsJoin
<1>14. Leads("parse", any, SnapOf(cfg, books), (l \o bids) \o asks,
             SnapOf(cfg, Append(books, BookOf(sym, seq, x \o y))))
  BY <1>9, <1>12, <1>13, LeadsJoin
<1>15. AllRecs(b) = x \o y /\ x \o y \in Seq(Recs)
  BY <1>3, <1>4, ConcatFacts DEF AllRecs
<1>16. BookOf(sym, seq, x \o y) \in Bks
  BY <1>15 DEF BookOf, Bks
<1> QED BY <1>1, <1>8, <1>9, <1>14, <1>15, <1>16

----------------------------------------------------------------------------
(* The symbols in ascending order.                                         *)

Ascends(f, n, S) ==
    /\ f \in [1 .. n -> S] /\ \A x \in S : \E i \in 1 .. n : f[i] = x
    /\ \A i, j \in 1 .. n : i < j => f[i] < f[j]

LEMMA AscendingExists ==
    \A n \in Nat : \A S \in SUBSET Nat :
      IsFiniteSet(S) /\ Cardinality(S) = n => \E f : Ascends(f, n, S)
<1> DEFINE T == {n \in Nat : \A S \in SUBSET Nat :
                   IsFiniteSet(S) /\ Cardinality(S) = n => \E f : Ascends(f, n, S)}
<1>1. 0 \in T
  <2> SUFFICES ASSUME NEW S \in SUBSET Nat, IsFiniteSet(S), Cardinality(S) = 0
               PROVE  \E f : Ascends(f, 0, S)
    OBVIOUS
  <2>1. S = {}
    BY FS_EmptySet
  <2>2. PICK f : f = [i \in 1 .. 0 |-> 0]
    OBVIOUS
  <2>3. f \in [1 .. 0 -> S] /\ \A i \in 1 .. 0 : FALSE
    BY <2>1, <2>2
  <2>4. Ascends(f, 0, S)
    BY <2>1, <2>3 DEF Ascends
  <2> QED BY <2>4
<1>2. ASSUME NEW n \in Nat, n \in T
      PROVE  n + 1 \in T
  <2> SUFFICES ASSUME NEW S \in SUBSET Nat, IsFiniteSet(S), Cardinality(S) = n + 1
               PROVE  \E f : Ascends(f, n + 1, S)
    OBVIOUS
  <2>1. S # {}
    BY FS_EmptySet
  <2>2. PICK m \in S : \A y \in S : m <= y
    BY <2>1, NatLeast
  <2>3. PICK R : R = S \ {m} /\ R \in SUBSET Nat
    OBVIOUS
  <2>4. IsFiniteSet(R) /\ Cardinality(R) = n
    BY <2>3, FS_RemoveElement
  <2>5. PICK f : Ascends(f, n, R)
    BY <1>2, <2>3, <2>4
  <2>6. /\ f \in [1 .. n -> R] /\ \A x \in R : \E i \in 1 .. n : f[i] = x
        /\ \A i, j \in 1 .. n : i < j => f[i] < f[j]
    BY <2>5 DEF Ascends
  <2>7. PICK g : g = [i \in 1 .. (n + 1) |-> IF i = 1 THEN m ELSE f[i - 1]]
    OBVIOUS
  <2>8. g[1] = m /\ \A i \in 1 .. n : g[i + 1] = f[i] /\ f[i] \in R
    BY <2>6, <2>7
  <2>9. \A i \in 1 .. (n + 1) : i = 1 \/ \E k \in 1 .. n : i = k + 1
    <3> SUFFICES ASSUME NEW i \in 1 .. (n + 1), i # 1 PROVE \E k \in 1 .. n : i = k + 1
      OBVIOUS
    <3>1. i - 1 \in 1 .. n /\ i = (i - 1) + 1
      OBVIOUS
    <3> QED BY <3>1
  <2>10. ASSUME NEW i \in 1 .. (n + 1)
         PROVE  g[i] \in S
    BY <2>3, <2>8, <2>9
  <2>11. g \in [1 .. (n + 1) -> S]
    BY <2>7, <2>10
  <2>12. ASSUME NEW x \in S
         PROVE  \E i \in 1 .. (n + 1) : g[i] = x
    <3>1. CASE x = m
      BY <2>8, <3>1
    <3>2. CASE x # m
      <4>1. PICK k \in 1 .. n : f[k] = x
        BY <2>3, <2>6, <3>2
      <4>2. k + 1 \in 1 .. (n + 1) /\ g[k + 1] = x
        BY <2>8, <4>1
      <4> QED BY <4>2
    <3> QED BY <3>1, <3>2
  <2>13. ASSUME NEW i \in 1 .. (n + 1), NEW j \in 1 .. (n + 1), i < j
         PROVE  g[i] < g[j]
    <3>1. PICK k \in 1 .. n : j = k + 1
      BY <2>9, <2>13
    <3>2. CASE i = 1
      <4>1. f[k] \in R /\ g[j] = f[k] /\ g[i] = m
        BY <2>8, <3>1, <3>2
      <4>2. f[k] \in Nat /\ m \in Nat /\ m <= f[k] /\ f[k] # m
        BY <2>2, <2>3, <4>1
      <4> QED BY <4>1, <4>2
    <3>3. CASE i # 1
      <4>1. PICK h \in 1 .. n : i = h + 1
        BY <2>9, <3>3
      <4>2. h < k
        BY <2>13, <3>1, <4>1
      <4> QED BY <2>6, <2>8, <3>1, <4>1, <4>2
    <3> QED BY <3>2, <3>3
  <2>14. Ascends(g, n + 1, S)
    BY <2>11, <2>12, <2>13 DEF Ascends
  <2> QED BY <2>14
<1> HIDE DEF T
<1>3. \A n \in Nat : n \in T
  BY <1>1, <1>2, NatInductive
<1> QED BY <1>3 DEF T

LEMMA LiveSymbolsAscend ==
    ASSUME NEW e, IsMixed(e)
    PROVE  \E n \in Nat : /\ Len(LiveSymbols(e)) = n /\ DOMAIN LiveSymbols(e) = 1 .. n
                          /\ Ascends(LiveSymbols(e), n, DOMAIN e.books)
<1>1. PICK S \in SUBSET Nat : IsFiniteSet(S) /\ DOMAIN e.books = S
  BY MixedFacts
<1>2. PICK n \in Nat : n = Cardinality(S)
  BY <1>1, FS_CardinalityType
<1>3. PICK f : Ascends(f, n, S)
  BY <1>1, <1>2, AscendingExists
<1>4. f \in SetToSeqs(S) /\ \A i, j \in DOMAIN f : i < j => f[i] < f[j]
  <2>1. /\ f \in [1 .. n -> S]
        /\ \A i, j \in 1 .. n : i < j => f[i] < f[j]
    BY <1>3 DEF Ascends
  <2>2. \A i \in 1 .. n : f[i] \in Nat
    BY <2>1
  <2>3. \A i, j \in 1 .. n : i # j => f[i] # f[j]
    BY <2>1, <2>2
  <2> QED BY <1>2, <2>1, <2>3 DEF SetToSeqs
<1>5. PICK l : l = LiveSymbols(e)
  OBVIOUS
<1>6. l \in SetToSeqs(S) /\ \A i, j \in DOMAIN l : i < j => l[i] < l[j]
  BY <1>1, <1>4, <1>5 DEF LiveSymbols
<1>7. l \in [1 .. n -> S] /\ \A i, j \in 1 .. n : i # j => l[i] # l[j]
  BY <1>2, <1>6 DEF SetToSeqs
<1>8. DOMAIN l = 1 .. n /\ Len(l) = n
  <2>1. l \in Seq(S)
    BY <1>7
  <2> QED BY <1>7, <2>1
<1>9. \A x \in S : \E i \in 1 .. n : l[i] = x
  <2>1. PICK D : D = {l[i] : i \in 1 .. n}
    OBVIOUS
  <2>2. Cardinality(D) = n
    <3>1. \A i, j \in 1 .. n : l[i] = l[j] => i = j
      BY <1>7
    <3> QED BY <2>1, <3>1, ImageCount
  <2>3. D \in SUBSET S
    BY <1>7, <2>1
  <2>4. D = S
    BY <1>1, <1>2, <2>2, <2>3, FS_Subset
  <2> QED BY <2>1, <2>4
<1>10. Ascends(l, n, S)
  BY <1>6, <1>7, <1>8, <1>9 DEF Ascends
<1> QED BY <1>1, <1>5, <1>8, <1>10

----------------------------------------------------------------------------
(* What is read of a snapshot.                                             *)

BookRead(sym, b) == BookOf(sym, b.seq, AllRecs(b))

ReadsBook(cfg, sym, b) ==
    /\ BookLines(sym, b) \in Seq(SnapshotLines) /\ BookRead(sym, b) \in Bks
    /\ \A books \in Seq(Bks) :
         Leads("parse", cfg, SnapOf(cfg, books), BookLines(sym, b),
               SnapOf(cfg, Append(books, BookRead(sym, b))))

LEMMA BooksRead1 ==
    ASSUME NEW cfg
    PROVE  \A b \in AnyBook : \A sym \in Nat : ReadsBook(cfg, sym, b)
<1> TAKE b \in AnyBook
<1> TAKE sym \in Nat
<1>0. PICK own : b \in BooksOf(own)
  BY DEF AnyBook
<1>1. ASSUME NEW books \in Seq(Bks)
      PROVE  /\ BookLines(sym, b) \in Seq(SnapshotLines)
             /\ BookOf(sym, b.seq, AllRecs(b)) \in Bks
             /\ Leads("parse", cfg, SnapOf(cfg, books), BookLines(sym, b),
                      SnapOf(cfg, Append(books, BookOf(sym, b.seq, AllRecs(b)))))
  BY <1>0, BookLeads
<1>2. <<>> \in Seq(Bks)
  OBVIOUS
<1> QED BY <1>1, <1>2 DEF ReadsBook, BookRead

\* The books of the snapshot of an engine whose symbols are syms.
BooksRead(e, syms, n) ==
    [i \in 1 .. n |-> BookRead(syms[i], e.books[syms[i]])]

\* The lines but the header lead from no book to these.
LEMMA BodyIsRead ==
    ASSUME NEW e, IsMixed(e), NEW cfg, cfg = e.cfg, NEW n \in Nat, NEW syms,
           n = Len(syms), DOMAIN syms = 1 .. n, syms = LiveSymbols(e),
           Ascends(syms, n, DOMAIN e.books)
    PROVE  \E body \in Seq(SnapshotLines) :
             /\ EngineLines(e) = <<Header(cfg)>> \o body
             /\ Leads("parse", cfg, SnapOf(cfg, <<>>), body, SnapOf(cfg, BooksRead(e, syms, n)))
<1>1. PICK S \in SUBSET Nat : /\ DOMAIN e.books = S /\ e.cfg = cfg
                              /\ e.books \in [S -> AnyBook]
  BY MixedFacts
<1>2. ASSUME NEW i \in 1 .. n
      PROVE  syms[i] \in Nat /\ e.books[syms[i]] \in AnyBook
  BY <1>1 DEF Ascends
<1> DEFINE bk(i) == BookRead(syms[i], e.books[syms[i]])
           rows == [i \in 1 .. n |-> BookLines(syms[i], e.books[syms[i]])]
<1>3. ASSUME NEW i \in 1 .. n
      PROVE  /\ BookLines(syms[i], e.books[syms[i]]) \in Seq(SnapshotLines)
             /\ bk(i) \in Bks
             /\ \A books \in Seq(Bks) :
                  Leads("parse", cfg, SnapOf(cfg, books), BookLines(syms[i], e.books[syms[i]]),
                        SnapOf(cfg, Append(books, bk(i))))
  <2>1. PICK b \in AnyBook : b = e.books[syms[i]]
    BY <1>2
  <2>2. PICK sym \in Nat : sym = syms[i]
    BY <1>2
  <2>3. ReadsBook(cfg, sym, b)
    BY BooksRead1
  <2> QED BY <2>1, <2>2, <2>3 DEF ReadsBook
<1>4. rows \in Rows(SnapshotLines) /\ Len(rows) = n
  BY <1>3 DEF Rows
<1>5. ASSUME NEW i \in 1 .. n
      PROVE  rows[i] = BookLines(syms[i], e.books[syms[i]])
  OBVIOUS
<1> HIDE DEF rows
<1>6. PICK y : y = [i \in 0 .. n |-> SnapOf(cfg, BooksRead(e, syms, i))]
  OBVIOUS
<1>7. ASSUME NEW i \in 1 .. n
      PROVE  Leads("parse", cfg, y[i - 1], rows[i], y[i])
  <2>1. i - 1 \in 0 .. n /\ i \in 0 .. n /\ 1 .. (i - 1) \subseteq 1 .. n
    OBVIOUS
  <2>2. PICK w : w = BooksRead(e, syms, i - 1)
    OBVIOUS
  <2>3. w = [j \in 1 .. (i - 1) |-> bk(j)] /\ BooksRead(e, syms, i) = [j \in 1 .. i |-> bk(j)]
    BY <2>2 DEF BooksRead
  <2> HIDE DEF bk
  <2>4. w \in Seq(Bks) /\ Len(w) = i - 1
    <3>1. \A j \in 1 .. (i - 1) : bk(j) \in Bks
      BY <1>3, <2>1
    <3> QED BY <2>1, <2>3, <3>1
  <2>5. Append(w, bk(i)) = [j \in 1 .. i |-> bk(j)]
    <3>1. Append(w, bk(i)) = [j \in 1 .. (Len(w) + 1) |-> IF j = Len(w) + 1 THEN bk(i) ELSE w[j]]
      BY <2>4, AppendIs
    <3>2. Len(w) + 1 = i
      BY <2>4
    <3>3. Append(w, bk(i)) = [j \in 1 .. i |-> IF j = i THEN bk(i) ELSE w[j]]
      BY <3>1, <3>2
    <3>4. \A j \in 1 .. i : (IF j = i THEN bk(i) ELSE w[j]) = bk(j)
      BY <2>3
    <3> QED BY <3>3, <3>4
  <2>6. y[i - 1] = SnapOf(cfg, w) /\ y[i] = SnapOf(cfg, Append(w, bk(i)))
    BY <1>6, <2>1, <2>2, <2>3, <2>5
  <2> QED BY <1>3, <1>5, <2>4, <2>6
<1>8. Leads("parse", cfg, y[0], FlattenSeq(rows), y[n])
  BY <1>4, <1>7, GlueLeads
<1>9. FlattenSeq(rows) \in Seq(SnapshotLines)
  BY <1>4, FlattenType
<1>10. y[0] = SnapOf(cfg, <<>>) /\ y[n] = SnapOf(cfg, BooksRead(e, syms, n))
  <2>1. 0 \in 0 .. n /\ n \in 0 .. n
    OBVIOUS
  <2>2. BooksRead(e, syms, 0) = <<>>
    BY DEF BooksRead
  <2> QED BY <1>6, <2>1, <2>2
<1>11. Leads("parse", cfg, SnapOf(cfg, <<>>), FlattenSeq(rows), SnapOf(cfg, BooksRead(e, syms, n)))
  BY <1>8, <1>10
<1>12. EngineLines(e) = <<Header(cfg)>> \o FlattenSeq(rows)
  <2>1. rows = [i \in DOMAIN syms |-> BookLines(syms[i], e.books[syms[i]])]
    BY DEF rows
  <2> QED BY <1>1, <2>1 DEF EngineLines, Header
<1> QED BY <1>9, <1>11, <1>12

\* What is read before the lines of the books.
LEMMA HeaderLeads ==
    ASSUME NEW cfg \in Configs
    PROVE  Leads("parse", cfg, SnapOf(DefaultConfig, <<>>), <<Header(cfg)>>, SnapOf(cfg, <<>>))
<1>1. SnapOf(cfg, <<>>) = Turn("parse", cfg, SnapOf(DefaultConfig, <<>>), Header(cfg))
  BY HeaderTurn DEF Turn
<1> QED BY <1>1, LeadsOne

\* The header, and lines of books, are read from the first to the last.
LEMMA FileIsRead ==
    ASSUME NEW cfg \in Configs, NEW body \in Seq(SnapshotLines), NEW to,
           Leads("parse", cfg, SnapOf(cfg, <<>>), body, to)
    PROVE  IsSeq(<<Header(cfg)>> \o body) /\ Parse(<<Header(cfg)>> \o body) = to
<1>1. PICK U : U = SnapshotLines \cup {Header(cfg)}
  OBVIOUS
<1>2. <<Header(cfg)>> \in Seq(U) /\ body \in Seq(U)
  BY <1>1
<1>3. PICK file : file = <<Header(cfg)>> \o body
  OBVIOUS
<1>4. file \in Seq(U)
  BY <1>2, <1>3, ConcatFacts
<1>5. Leads("parse", cfg, SnapOf(DefaultConfig, <<>>), file, to)
  BY <1>2, <1>3, HeaderLeads, LeadsJoin
<1>6. PICK r : /\ r[0] = SnapOf(DefaultConfig, <<>>) /\ Runs("parse", cfg, file, r)
               /\ r[Len(file)] = to
  BY <1>5 DEF Leads
<1>7. Len(file) \in Nat /\ DOMAIN file = 1 .. Len(file)
  BY <1>4
<1>8. Parse(file) = to
  BY <1>6, <1>7, ParseRuns DEF SnapOf
<1>9. IsSeq(file)
  BY <1>4 DEF IsSeq
<1> QED BY <1>3, <1>8, <1>9

LEMMA BooksAreRead ==
    ASSUME NEW e, IsMixed(e), NEW cfg, cfg = e.cfg, NEW n \in Nat, NEW syms,
           n = Len(syms), DOMAIN syms = 1 .. n, syms = LiveSymbols(e),
           Ascends(syms, n, DOMAIN e.books)
    PROVE  /\ IsSeq(EngineLines(e))
           /\ Parse(EngineLines(e)) = SnapOf(cfg, BooksRead(e, syms, n))
<1>1. PICK to : to = SnapOf(cfg, BooksRead(e, syms, n))
  OBVIOUS
<1>2. PICK body \in Seq(SnapshotLines) :
        /\ EngineLines(e) = <<Header(cfg)>> \o body
        /\ Leads("parse", cfg, SnapOf(cfg, <<>>), body, to)
  BY <1>1, BodyIsRead
<1>3. cfg \in Configs
  BY MixedFacts
<1>4. IsSeq(<<Header(cfg)>> \o body) /\ Parse(<<Header(cfg)>> \o body) = to
  BY <1>2, <1>3, FileIsRead
<1> QED BY <1>1, <1>2, <1>4

----------------------------------------------------------------------------
(* What is restored.                                                       *)

LEMMA PrefixThins ==
    ASSUME NEW o \in Seq(Kept), NEW i \in 0 .. Len(o)
    PROVE  /\ SubSeq(o, 1, i) \in Seq(Kept) /\ Len(SubSeq(o, 1, i)) = i
           /\ \A j \in 1 .. i : SubSeq(o, 1, i)[j] = o[j]
           /\ Thins(o, SubSeq(o, 1, i))
<1>1. PICK n \in Nat : n = Len(o)
  OBVIOUS
<1>2. PICK p : p = SubSeq(o, 1, i)
  OBVIOUS
<1>3. p \in Seq(Kept) /\ Len(p) = i /\ \A j \in 1 .. i : p[j] = o[j]
  BY <1>1, <1>2
<1>4. PICK h : h = [j \in 1 .. i |-> j]
  OBVIOUS
<1>5. Follows(o, p, h)
  BY <1>1, <1>3, <1>4 DEF Follows
<1>6. Thins(o, p)
  BY <1>1, <1>3, <1>5 DEF Thins
<1> QED BY <1>2, <1>3, <1>6

\* The next order of a side goes to its end.
LEMMA JoinedLast ==
    ASSUME NEW side \in Sides, NEW own \in Seq(Kept), Sorted(side, own), NEW i \in 1 .. Len(own)
    PROVE  Joined(side, SubSeq(own, 1, i - 1), own[i]) = SubSeq(own, 1, i)
<1>1. PICK n \in Nat : n = Len(own) /\ DOMAIN own = 1 .. n
  OBVIOUS
<1>2. PICK k \in 0 .. n : k = i - 1
  BY <1>1
<1>3. PICK p \in Seq(Kept) : /\ p = SubSeq(own, 1, k) /\ Len(p) = k
                             /\ \A j \in 1 .. k : p[j] = own[j]
  BY <1>1, PrefixThins
<1>4. DOMAIN p = 1 .. k
  BY <1>3
<1>5. own[i] \in Kept
  BY <1>1
<1>6. Sorted(side, p)
  <2>1. 1 .. k \subseteq 1 .. n
    BY <1>2
  <2> QED BY <1>1, <1>3, <1>4, <2>1 DEF Sorted
<1>7. PICK c \in 0 .. k :
             /\ \A j \in 1 .. k : j <= c <=> AtLeastAsGood(side, p[j].price, own[i].price)
             /\ Joined(side, p, own[i]) \in Seq(Kept)
             /\ Inserted(p, Joined(side, p, own[i]), c, own[i])
  BY <1>3, <1>5, <1>6, JoinedAt
<1>8. c = k
  <2>1. \A j \in 1 .. k : AtLeastAsGood(side, p[j].price, own[i].price)
    <3> TAKE j \in 1 .. k
    <3>1. j \in DOMAIN own /\ i \in DOMAIN own /\ j <= i
      BY <1>1, <1>2
    <3> QED BY <1>3, <3>1 DEF Sorted
  <2>2. \A j \in 1 .. k : j <= c
    BY <1>7, <2>1
  <2> QED BY <1>2, <2>2
<1>9. PICK q \in Seq(Kept) : q = Joined(side, p, own[i])
  BY <1>7
<1>10. Len(q) = i /\ \A j \in 1 .. i : q[j] = own[j]
  <2>1. /\ Len(q) = k + 1
        /\ \A j \in 1 .. (k + 1) :
             q[j] = IF j <= c THEN p[j] ELSE IF j = c + 1 THEN own[i] ELSE p[j - 1]
    BY <1>3, <1>7, <1>9 DEF Inserted
  <2>2. k + 1 = i
    BY <1>2
  <2>3. \A j \in 1 .. i : j = i \/ (j \in 1 .. k /\ j <= c)
    BY <1>2, <1>8
  <2>4. ASSUME NEW j \in 1 .. i
        PROVE  q[j] = own[j]
    <3>1. CASE j = i
      BY <1>8, <2>1, <2>2, <3>1
    <3>2. CASE j \in 1 .. k /\ j <= c
      BY <1>3, <2>1, <2>2, <3>2
    <3> QED BY <2>3, <3>1, <3>2
  <2> QED BY <2>1, <2>2, <2>4
<1>11. PICK m \in Seq(Kept) : /\ m = SubSeq(own, 1, i) /\ Len(m) = i
                              /\ \A j \in 1 .. i : m[j] = own[j]
  <2>1. i \in 0 .. Len(own)
    BY <1>1
  <2> QED BY <2>1, PrefixThins
<1>12. q = m
  BY <1>10, <1>11
<1> QED BY <1>2, <1>3, <1>9, <1>11, <1>12

\* The orders o of a book as far as the first i of side s, all of the sides in
\* `done` and none of the others.
Part(o, done, s, i) ==
    [t \in Sides |-> IF t = s THEN SubSeq(o[t], 1, i) ELSE IF t \in done THEN o[t] ELSE <<>>]

LEMMA PartIsSound ==
    ASSUME NEW o, Sound(o), NEW done, NEW s \in Sides, NEW i \in 0 .. Len(o[s])
    PROVE  /\ Sound(Part(o, done, s, i))
           /\ Part(o, done, s, i)[s] = SubSeq(o[s], 1, i)
           /\ i < Len(o[s]) => Held(Part(o, done, s, i)) < Held(o)
<1>0. "Bid" \in Sides /\ "Ask" \in Sides /\ \A t \in Sides : t = "Bid" \/ t = "Ask"
  BY DEF Sides
<1>1. PICK w : w = Part(o, done, s, i)
  OBVIOUS
<1>2. \A t \in Sides : w[t] = IF t = s THEN SubSeq(o[t], 1, i) ELSE IF t \in done THEN o[t] ELSE <<>>
  BY <1>1 DEF Part
<1>3. ASSUME NEW t \in Sides
      PROVE  w[t] \in Seq(Kept) /\ Thins(o[t], w[t]) /\ CountOf(w, t) \in Nat /\ CountOf(o, t) \in Nat
             /\ CountOf(w, t) <= CountOf(o, t) /\ (t = s => CountOf(w, t) = i)
  <2>1. PICK q \in Seq(Kept) : q = o[t]
    BY SideFacts
  <2>2. PICK n \in Nat : n = Len(q) /\ n = CountOf(o, t)
    BY <2>1 DEF CountOf
  <2>3. CASE t = s
    <3>0. n = Len(o[s])
      BY <2>1, <2>2, <2>3
    <3>1. i \in 0 .. n /\ i <= n /\ i \in Nat
      BY <2>2, <3>0
    <3>2. SubSeq(q, 1, i) \in Seq(Kept) /\ Len(SubSeq(q, 1, i)) = i /\ Thins(q, SubSeq(q, 1, i))
      BY <2>2, <3>1, PrefixThins
    <3>3. w[t] = SubSeq(q, 1, i)
      BY <1>2, <2>1, <2>3
    <3> QED BY <2>1, <2>2, <3>1, <3>2, <3>3 DEF CountOf
  <2>4. CASE t # s /\ t \in done
    <3>1. w[t] = q
      BY <1>2, <2>1, <2>4
    <3>2. Thins(q, q)
      BY SameThins
    <3> QED BY <2>1, <2>2, <2>4, <3>1, <3>2 DEF CountOf
  <2>5. CASE t # s /\ t \notin done
    <3>0. SubSeq(q, 1, 0) = <<>>
      OBVIOUS
    <3>1. w[t] = SubSeq(q, 1, 0)
      BY <1>2, <2>5, <3>0
    <3>2. SubSeq(q, 1, 0) \in Seq(Kept) /\ Len(SubSeq(q, 1, 0)) = 0 /\ Thins(q, SubSeq(q, 1, 0))
      BY <2>2, PrefixThins
    <3> QED BY <2>1, <2>2, <2>5, <3>1, <3>2 DEF CountOf
  <2> QED BY <2>3, <2>4, <2>5
<1>4. ThinsBook(o, w)
  <2>1. w = [t \in Sides |-> w[t]]
    BY <1>1 DEF Part
  <2>2. w \in [Sides -> Seq(Kept)]
    BY <1>3, <2>1
  <2> QED BY <1>3, <2>2 DEF ThinsBook
<1>5. Sound(w)
  BY <1>4, ThinIsSound
<1>6. i < CountOf(o, s) => Held(w) < Held(o)
  <2> SUFFICES ASSUME i < CountOf(o, s) PROVE Held(w) < Held(o)
    OBVIOUS
  <2>1. PICK a \in Nat, b \in Nat : a = CountOf(w, "Bid") /\ b = CountOf(w, "Ask")
    BY <1>0, <1>3
  <2>2. PICK c \in Nat, d \in Nat : c = CountOf(o, "Bid") /\ d = CountOf(o, "Ask")
    BY <1>0, <1>3
  <2>3. a <= c /\ b <= d
    BY <1>0, <1>3, <2>1, <2>2
  <2>4. a < c \/ b < d
    <3>1. CASE s = "Bid"
      BY <1>3, <2>1, <2>2, <3>1
    <3>2. CASE s = "Ask"
      BY <1>3, <2>1, <2>2, <3>2
    <3> QED BY <1>0, <3>1, <3>2
  <2>5. a + b < c + d
    BY <2>3, <2>4
  <2> QED BY <2>1, <2>2, <2>5 DEF Held
<1> QED BY <1>1, <1>2, <1>5, <1>6 DEF CountOf

\* A book whose orders are that far restored.
BookSoFar(cfg, o, seq) == [cfg |-> cfg, orders |-> o, seq |-> seq]

LEMMA RestTurn ==
    ASSUME NEW cfg \in Configs, NEW o, Sound(o), NEW seq,
           NEW done, NEW s \in Sides, NEW i \in 1 .. Len(o[s]),
           Held(Part(o, done, s, i - 1)) < cfg.room
    PROVE  RestRestored(BookSoFar(cfg, Part(o, done, s, i - 1), seq), Rec(s, o[s][i]))
             = BookSoFar(cfg, Part(o, done, s, i), seq)
<1>1. PICK q \in Seq(Kept) : q = o[s] /\ Len(q) \in Nat /\ DOMAIN q = 1 .. Len(q) /\ Sorted(s, q)
  BY SideFacts
<1>2. PICK n \in Nat : n = Len(q)
  BY <1>1
<1>3. PICK k \in 0 .. n : k = i - 1 /\ k < n /\ i \in 1 .. n
  BY <1>1, <1>2
<1>4. PICK w : w = Part(o, done, s, k)
  OBVIOUS
<1>5. Sound(w) /\ w[s] = SubSeq(q, 1, k) /\ Held(w) < cfg.room
  BY <1>1, <1>2, <1>3, <1>4, PartIsSound
<1>6. ~(Cardinality(LiveIds(w)) >= cfg.room)
  <2>1. Cardinality(LiveIds(w)) = Held(w) /\ Held(w) \in Nat
    BY <1>5, LiveAreHeld
  <2>2. cfg.room \in Nat
    BY DEF Configs
  <2> QED BY <1>5, <2>1, <2>2
<1>7. PICK ord \in Kept : ord = q[i]
  BY <1>1, <1>2, <1>3
<1>8. PICK r : r = Rec(s, ord)
  OBVIOUS
<1>9. r.side = s /\ [id |-> r.id, price |-> r.price, qty |-> r.qty, tif |-> r.tif] = ord
  BY <1>8 DEF Rec, Kept
<1>10. Joined(s, w[s], ord) = SubSeq(q, 1, i)
  BY <1>1, <1>2, <1>3, <1>5, <1>7, JoinedLast
<1>11. PICK b : b = BookSoFar(cfg, w, seq)
  OBVIOUS
<1>12. b.orders = w /\ b.cfg = cfg
  BY <1>11 DEF BookSoFar
<1>13. RestRestored(b, r) = [b EXCEPT !.orders[s] = Joined(s, w[s], ord)]
  <2>1. RestRestored(b, r) = [b EXCEPT !.orders[r.side] =
            Joined(r.side, @, [id |-> r.id, price |-> r.price, qty |-> r.qty, tif |-> r.tif])]
    BY <1>6, <1>12 DEF RestRestored
  <2>2. PICK p : p = [id |-> r.id, price |-> r.price, qty |-> r.qty, tif |-> r.tif]
    OBVIOUS
  <2>3. RestRestored(b, r) = [b EXCEPT !.orders[s] = Joined(s, b.orders[s], p)]
    BY <1>9, <2>1, <2>2
  <2> QED BY <1>9, <1>12, <2>2, <2>3
<1>14. PICK z : z = SubSeq(q, 1, i)
  OBVIOUS
<1>15. RestRestored(b, r) = BookSoFar(cfg, [w EXCEPT ![s] = z], seq)
  BY <1>10, <1>11, <1>13, <1>14 DEF BookSoFar
<1>16. [w EXCEPT ![s] = z] = Part(o, done, s, i)
  BY <1>1, <1>4, <1>14 DEF Part
<1> QED BY <1>1, <1>3, <1>4, <1>7, <1>8, <1>11, <1>15, <1>16

LEMMA SideRests ==
    ASSUME NEW cfg \in Configs, NEW b \in BooksOf(cfg), NEW done, NEW s \in Sides, NEW seq
    PROVE  Leads("rest", cfg, BookSoFar(cfg, Part(b.orders, done, s, 0), seq), RecsOf(b, s),
                 BookSoFar(cfg, Part(b.orders, done, s, Len(b.orders[s])), seq))
<1>1. PICK o : o = b.orders /\ Sound(o) /\ Held(o) <= cfg.room
  BY BookFacts
<1>2. PICK q \in Seq(Kept) :
             /\ q = o[s] /\ Len(q) \in Nat /\ Len(RecsOf(b, s)) = Len(q)
             /\ \A i \in 1 .. Len(q) : RecsOf(b, s)[i] = Rec(s, q[i])
  BY <1>1, SidesHaveRecs
<1>3. PICK n \in Nat : n = Len(q)
  BY <1>2
<1>4. PICK r : r = [i \in 0 .. n |-> BookSoFar(cfg, Part(o, done, s, i), seq)]
  OBVIOUS
<1>5. ASSUME NEW i \in 1 .. n
      PROVE  r[i] = Turn("rest", cfg, r[i - 1], RecsOf(b, s)[i])
  <2>1. i \in 0 .. n /\ i - 1 \in 0 .. n /\ i \in 1 .. Len(o[s])
    BY <1>2, <1>3
  <2>5. Held(Part(o, done, s, i - 1)) < cfg.room
    <3>1. PICK w : w = Part(o, done, s, i - 1) /\ Sound(w) /\ Held(w) < Held(o)
      <4>1. i - 1 \in 0 .. Len(o[s]) /\ i - 1 < Len(o[s])
        BY <1>2, <1>3
      <4> QED BY <1>1, <4>1, PartIsSound
    <3>2. PICK x \in Nat, y \in Nat, z \in Nat : x = Held(w) /\ y = Held(o) /\ z = cfg.room
      BY <1>1, <3>1, LiveAreHeld DEF Configs
    <3>3. x < y /\ y <= z
      BY <1>1, <3>1, <3>2
    <3> QED BY <3>1, <3>2, <3>3
  <2>2. RestRestored(BookSoFar(cfg, Part(o, done, s, i - 1), seq), Rec(s, o[s][i]))
          = BookSoFar(cfg, Part(o, done, s, i), seq)
    BY <1>1, <2>1, <2>5, RestTurn
  <2>3. r[i - 1] = BookSoFar(cfg, Part(o, done, s, i - 1), seq)
        /\ r[i] = BookSoFar(cfg, Part(o, done, s, i), seq)
    BY <1>4, <2>1
  <2>4. RecsOf(b, s)[i] = Rec(s, o[s][i])
    BY <1>2, <1>3
  <2> QED BY <2>2, <2>3, <2>4 DEF Turn
<1>6. Leads("rest", cfg, r[0], RecsOf(b, s), r[n])
  BY <1>2, <1>3, <1>5, LeadsBy
<1>7. 0 \in 0 .. n /\ n \in 0 .. n
  OBVIOUS
<1>8. /\ r[0] = BookSoFar(cfg, Part(o, done, s, 0), seq)
      /\ r[n] = BookSoFar(cfg, Part(o, done, s, n), seq)
  BY <1>4, <1>7
<1> QED BY <1>1, <1>2, <1>3, <1>6, <1>8

\* A book is restored as it was.
LEMMA BookIsRestored ==
    ASSUME NEW cfg \in Configs, NEW b \in BooksOf(cfg)
    PROVE  RestoreBook(cfg, b.seq, AllRecs(b)) = b
<1>0. "Bid" \in Sides /\ "Ask" \in Sides /\ \A t \in Sides : t = "Bid" \/ t = "Ask"
  BY DEF Sides
<1>1. PICK o : o = b.orders /\ Sound(o)
  BY BookFacts
<1>2. PICK seq : seq = b.seq /\ b = BookSoFar(cfg, o, seq)
  BY <1>1, BookFacts DEF BookSoFar
<1>3. PICK x \in Seq(Kept), y \in Seq(Kept) : x = o["Bid"] /\ y = o["Ask"]
  BY <1>0, <1>1, SideFacts
<1>4. PICK n : n = Part(o, {}, "Bid", 0)
  OBVIOUS
<1>5. PICK h : h = Part(o, {}, "Bid", Len(x))
  OBVIOUS
<1>6. SubSeq(x, 1, 0) = <<>> /\ SubSeq(x, 1, Len(x)) = x
      /\ SubSeq(y, 1, 0) = <<>> /\ SubSeq(y, 1, Len(y)) = y
  OBVIOUS
<1>7. n = [side \in Sides |-> <<>>]
  BY <1>3, <1>4, <1>6 DEF Part
<1>8. h = Part(o, {"Bid"}, "Ask", 0)
  <2>1. ASSUME NEW t \in Sides
        PROVE  (IF t = "Bid" THEN SubSeq(o[t], 1, Len(x)) ELSE <<>>)
                 = (IF t = "Ask" THEN SubSeq(o[t], 1, 0) ELSE IF t \in {"Bid"} THEN o[t] ELSE <<>>)
    BY <1>0, <1>3, <1>6
  <2>2. h = [t \in Sides |-> IF t = "Bid" THEN SubSeq(o[t], 1, Len(x)) ELSE <<>>]
    BY <1>5 DEF Part
  <2> QED BY <2>1, <2>2 DEF Part
<1>9. Part(o, {"Bid"}, "Ask", Len(y)) = o
  <2>1. ASSUME NEW t \in Sides
        PROVE  (IF t = "Ask" THEN SubSeq(o[t], 1, Len(y)) ELSE IF t \in {"Bid"} THEN o[t] ELSE <<>>)
                 = o[t]
    BY <1>0, <1>3, <1>6
  <2>2. o = [t \in Sides |-> o[t]]
    BY <1>1 DEF Sound
  <2>3. Part(o, {"Bid"}, "Ask", Len(y)) = [t \in Sides |-> o[t]]
    BY <2>1 DEF Part
  <2> QED BY <2>2, <2>3
<1>10. Leads("rest", cfg, BookSoFar(cfg, n, seq), RecsOf(b, "Bid"), BookSoFar(cfg, h, seq))
  BY <1>0, <1>1, <1>3, <1>4, <1>5, SideRests
<1>11. Leads("rest", cfg, BookSoFar(cfg, h, seq), RecsOf(b, "Ask"), b)
  <2>1. Leads("rest", cfg, BookSoFar(cfg, Part(o, {"Bid"}, "Ask", 0), seq), RecsOf(b, "Ask"),
              BookSoFar(cfg, Part(o, {"Bid"}, "Ask", Len(y)), seq))
    BY <1>0, <1>1, <1>3, SideRests
  <2> QED BY <1>2, <1>8, <1>9, <2>1
<1>12. PICK u \in Seq(Recs), v \in Seq(Recs) : u = RecsOf(b, "Bid") /\ v = RecsOf(b, "Ask")
  BY <1>0, SidesHaveRecs
<1>13. u \o v \in Seq(Recs) /\ AllRecs(b) = u \o v
  BY <1>12, ConcatFacts DEF AllRecs
<1>14. Leads("rest", cfg, BookSoFar(cfg, n, seq), u \o v, b)
  BY <1>10, <1>11, <1>12, LeadsJoin
<1>15. PICK w \in Seq(Recs) : w = AllRecs(b) /\ Leads("rest", cfg, BookSoFar(cfg, n, seq), w, b)
  BY <1>13, <1>14
<1>16. BookSoFar(cfg, n, seq) = [NewBook(cfg) EXCEPT !.seq = seq]
  BY <1>7 DEF BookSoFar, NewBook
<1>17. PICK r : r[0] = BookSoFar(cfg, n, seq) /\ Runs("rest", cfg, w, r) /\ r[Len(w)] = b
  BY <1>15 DEF Leads
<1>18. Len(w) \in Nat /\ DOMAIN w = 1 .. Len(w)
  OBVIOUS
<1>19. RestoreBook(cfg, seq, w) = r[Len(w)]
  <2>1. r[0] = [NewBook(cfg) EXCEPT !.seq = seq]
    BY <1>16, <1>17
  <2>2. Runs("rest", cfg, w, r)
    BY <1>17
  <2> QED BY <1>18, <2>1, <2>2, RestoreRuns, ZenonT(30)
<1> QED BY <1>2, <1>15, <1>17, <1>19

\* The books of the first n symbols.
Chosen(f, syms, n) == [s \in {syms[j] : j \in 1 .. n} |-> f[s]]

LEMMA ChosenGrows ==
    ASSUME NEW f, NEW syms, NEW i \in Nat \ {0}
    PROVE  Emplaced(Chosen(f, syms, i - 1), syms[i], f[syms[i]]) = Chosen(f, syms, i)
<1>1. PICK D : D = {syms[j] : j \in 1 .. (i - 1)}
  OBVIOUS
<1>2. {syms[j] : j \in 1 .. i} = D \cup {syms[i]}
  <2>1. \A j \in 1 .. i : j = i \/ j \in 1 .. (i - 1)
    OBVIOUS
  <2>2. i \in 1 .. i /\ 1 .. (i - 1) \subseteq 1 .. i
    OBVIOUS
  <2> QED BY <1>1, <2>1, <2>2
<1>3. PICK g : g = Chosen(f, syms, i - 1) /\ g = [s \in D |-> f[s]]
  BY <1>1 DEF Chosen
<1>4. PICK x : x = syms[i]
  OBVIOUS
<1>5. Emplaced(g, x, f[x]) = [s \in D \cup {x} |-> IF s \in D THEN g[s] ELSE f[x]]
  BY <1>3 DEF Emplaced
<1>6. \A s \in D \cup {x} : (IF s \in D THEN g[s] ELSE f[x]) = f[s]
  BY <1>3
<1>7. Emplaced(g, x, f[x]) = [s \in D \cup {x} |-> f[s]]
  BY <1>5, <1>6
<1> QED BY <1>2, <1>3, <1>4, <1>7 DEF Chosen

\* An engine is restored from its snapshot as it was, book by book: orders in
\* priority order, numbers and configuration (write_engine(), parse() and
\* restore_engine() of snapshot.hpp).
THEOREM SnapshotRestores ==
    ASSUME NEW cfg \in Configs, NEW e, IsEngine(e, cfg)
    PROVE  IsSeq(EngineLines(e)) /\ RestoreEngine(Parse(EngineLines(e))) = e
<1>0. IsMixed(e) /\ e.cfg = cfg
  BY EngineIsMixed, EngineFacts
<1>1. PICK n \in Nat : /\ Len(LiveSymbols(e)) = n /\ DOMAIN LiveSymbols(e) = 1 .. n
                       /\ Ascends(LiveSymbols(e), n, DOMAIN e.books)
  BY <1>0, LiveSymbolsAscend
<1>2. PICK syms : syms = LiveSymbols(e)
  OBVIOUS
<1>3. PICK f : f = e.books
  OBVIOUS
<1>4. PICK S : DOMAIN f = S /\ f \in [S -> BooksOf(cfg)] /\ e = [cfg |-> cfg, books |-> f]
  BY <1>3, EngineFacts
<1>5. IsSeq(EngineLines(e)) /\ Parse(EngineLines(e)) = SnapOf(cfg, BooksRead(e, syms, n))
  BY <1>0, <1>1, <1>2, BooksAreRead
<1>6. /\ \A i \in 1 .. n : syms[i] \in S
      /\ \A x \in S : \E i \in 1 .. n : syms[i] = x
  BY <1>1, <1>2, <1>3, <1>4 DEF Ascends
<1>7. PICK books : books = BooksRead(e, syms, n)
  OBVIOUS
<1>8. books = [i \in 1 .. n |-> BookRead(syms[i], f[syms[i]])]
  BY <1>3, <1>7 DEF BooksRead
<1>9. Len(books) = n /\ DOMAIN books = 1 .. n
  BY <1>8
<1>10. PICK from : from = SnapOf(cfg, books) /\ from.cfg = cfg /\ from.books = books
  <2>1. SnapOf(cfg, books).cfg = cfg /\ SnapOf(cfg, books).books = books
    BY DEF SnapOf
  <2> QED BY <2>1
<1>11. PICK r : r = [i \in 0 .. n |-> [cfg |-> cfg, books |-> Chosen(f, syms, i)]]
  OBVIOUS
<1>12. ASSUME NEW i \in 1 .. n
       PROVE  r[i] = Turn("books", cfg, r[i - 1], books[i])
  <2>1. i \in 0 .. n /\ i - 1 \in 0 .. n /\ i \in Nat \ {0}
    OBVIOUS
  <2>2. PICK b \in BooksOf(cfg) : b = f[syms[i]]
    BY <1>4, <1>6
  <2>3. books[i] = BookOf(syms[i], b.seq, AllRecs(b))
    BY <1>8, <2>2 DEF BookRead
  <2>4. RestoreBook(cfg, b.seq, AllRecs(b)) = b
    BY BookIsRestored
  <2>5. Turn("books", cfg, r[i - 1], books[i]) = AddBook(r[i - 1], syms[i], b)
    <3>1. PICK y : /\ y = books[i]
                   /\ y.symbol = syms[i] /\ y.seq = b.seq /\ y.orders = AllRecs(b)
      BY <2>3 DEF BookOf
    <3>2. Turn("books", cfg, r[i - 1], y)
            = AddBook(r[i - 1], y.symbol, RestoreBook(cfg, y.seq, y.orders))
      BY DEF Turn
    <3> QED BY <2>4, <3>1, <3>2
  <2>6. r[i - 1] = [cfg |-> cfg, books |-> Chosen(f, syms, i - 1)]
        /\ r[i] = [cfg |-> cfg, books |-> Chosen(f, syms, i)]
    BY <1>11, <2>1
  <2>7. AddBook(r[i - 1], syms[i], b)
          = [cfg |-> cfg, books |-> Emplaced(Chosen(f, syms, i - 1), syms[i], b)]
    BY <2>6 DEF AddBook
  <2>8. Emplaced(Chosen(f, syms, i - 1), syms[i], b) = Chosen(f, syms, i)
    BY <2>1, <2>2, ChosenGrows
  <2> QED BY <2>5, <2>6, <2>7, <2>8
<1>13. r[0] = NewEngine(cfg) /\ r[n] = e
  <2>1. 0 \in 0 .. n /\ n \in 0 .. n
    OBVIOUS
  <2>2. Chosen(f, syms, 0) = <<>>
    BY DEF Chosen
  <2>3. {syms[j] : j \in 1 .. n} = S
    BY <1>6
  <2>4. Chosen(f, syms, n) = f
    BY <1>4, <2>3 DEF Chosen
  <2> QED BY <1>4, <1>11, <2>1, <2>2, <2>4 DEF NewEngine
<1>14. Runs("books", from.cfg, from.books, r)
  BY <1>9, <1>10, <1>12 DEF Runs
<1>15. RestoreEngine(from) = r[Len(from.books)]
  BY <1>9, <1>10, <1>13, <1>14, BooksRun
<1> QED BY <1>5, <1>7, <1>9, <1>10, <1>13, <1>15

----------------------------------------------------------------------------
(* The event journal.                                                      *)

\* What an engine hands over, and the lines it is printed as.
Tagged == [sym : Nat, seq : Nat, ev : Told]

Printable == {CanonicalSym(seq, sym, ev) : seq \in Nat, sym \in Nat, ev \in Told}

LEMMA PrintedFacts ==
    ASSUME NEW p \in Seq(Tagged)
    PROVE  /\ Printed(p) \in Seq(Printable) /\ Len(Printed(p)) = Len(p)
           /\ \A i \in 1 .. Len(p) :
                Printed(p)[i] = CanonicalSym(p[i].seq, p[i].sym, p[i].ev)
<1>1. PICK n \in Nat : n = Len(p) /\ DOMAIN p = 1 .. n
  OBVIOUS
<1>2. \A i \in 1 .. n : p[i] \in Tagged
  BY <1>1
<1>3. \A i \in 1 .. n : CanonicalSym(p[i].seq, p[i].sym, p[i].ev) \in Printable
  BY <1>2 DEF Tagged, Printable
<1>4. Printed(p) = [i \in 1 .. n |-> CanonicalSym(p[i].seq, p[i].sym, p[i].ev)]
  BY <1>1 DEF Printed
<1>5. Printed(p) \in Seq(Printable) /\ Len(Printed(p)) = n
  BY <1>3, <1>4
<1> QED BY <1>1, <1>4, <1>5

LEMMA PrintedSplits ==
    ASSUME NEW p \in Seq(Tagged), p # <<>>
    PROVE  /\ Tail(p) \in Seq(Tagged) /\ Len(Tail(p)) = Len(p) - 1 /\ Len(p) \in Nat \ {0}
           /\ Printed(<<Head(p)>>) \in Seq(Printable)
           /\ Printed(Tail(p)) \in Seq(Printable)
           /\ Printed(<<Head(p)>>) \o Printed(Tail(p)) = Printed(p)
<1>1. PICK t \in Seq(Tagged) : /\ t = Tail(p) /\ Len(t) = Len(p) - 1 /\ Len(p) \in Nat \ {0}
                               /\ \A i \in 1 .. (Len(p) - 1) : t[i] = p[i + 1]
  BY TailFacts
<1>2. PICK n \in Nat : n + 1 = Len(p) /\ Len(t) = n
  <2>1. Len(p) - 1 \in Nat /\ (Len(p) - 1) + 1 = Len(p)
    BY <1>1
  <2> QED BY <1>1, <2>1
<1>3. PICK h \in Seq(Tagged) : h = <<Head(p)>> /\ Len(h) = 1 /\ h[1] = p[1]
  <2>1. p[1] \in Tagged /\ Head(p) = p[1]
    BY <1>1
  <2>2. <<p[1]>> \in Seq(Tagged)
    BY <2>1
  <2> QED BY <2>1, <2>2
<1>4. PICK a \in Seq(Printable) : /\ a = Printed(h) /\ Len(a) = 1
                                  /\ a[1] = CanonicalSym(p[1].seq, p[1].sym, p[1].ev)
  <2>1. /\ Printed(h) \in Seq(Printable) /\ Len(Printed(h)) = Len(h)
        /\ \A i \in 1 .. Len(h) : Printed(h)[i] = CanonicalSym(h[i].seq, h[i].sym, h[i].ev)
    BY PrintedFacts
  <2> QED BY <1>3, <2>1
<1>5. PICK b \in Seq(Printable) : /\ b = Printed(t) /\ Len(b) = n
                                  /\ \A i \in 1 .. n :
                                       b[i] = CanonicalSym(t[i].seq, t[i].sym, t[i].ev)
  <2>1. /\ Printed(t) \in Seq(Printable) /\ Len(Printed(t)) = Len(t)
        /\ \A i \in 1 .. Len(t) : Printed(t)[i] = CanonicalSym(t[i].seq, t[i].sym, t[i].ev)
    BY PrintedFacts
  <2> QED BY <1>2, <2>1
<1>6. PICK w \in Seq(Printable) : /\ w = Printed(p) /\ Len(w) = n + 1
                                  /\ \A i \in 1 .. (n + 1) :
                                       w[i] = CanonicalSym(p[i].seq, p[i].sym, p[i].ev)
  <2>1. /\ Printed(p) \in Seq(Printable) /\ Len(Printed(p)) = Len(p)
        /\ \A i \in 1 .. Len(p) : Printed(p)[i] = CanonicalSym(p[i].seq, p[i].sym, p[i].ev)
    BY PrintedFacts
  <2> QED BY <1>2, <2>1
<1>70. PICK z : z = a \o b
  OBVIOUS
<1>7. /\ z \in Seq(Printable) /\ Len(z) = 1 + n /\ z[1] = a[1]
      /\ \A j \in 1 .. n : z[1 + j] = b[j]
  <2>1. /\ a \o b \in Seq(Printable) /\ Len(a \o b) = Len(a) + Len(b)
        /\ \A j \in 1 .. Len(a) : (a \o b)[j] = a[j]
        /\ \A j \in 1 .. Len(b) : (a \o b)[Len(a) + j] = b[j]
    BY ConcatFacts
  <2>2. 1 \in 1 .. 1
    OBVIOUS
  <2> QED BY <1>4, <1>5, <1>70, <2>1, <2>2
<1>8. ASSUME NEW i \in 1 .. (n + 1)
      PROVE  z[i] = w[i]
  <2>1. CASE i = 1
    BY <1>4, <1>6, <1>7, <2>1
  <2>2. CASE i # 1
    <3>1. PICK j \in 1 .. n : i = 1 + j
      <4>1. i - 1 \in 1 .. n /\ i = 1 + (i - 1)
        BY <2>2
      <4> QED BY <4>1
    <3>2. t[j] = p[j + 1] /\ j + 1 = i
      BY <1>1, <1>2, <3>1
    <3>3. z[i] = b[j]
      BY <1>7, <3>1
    <3> QED BY <1>5, <1>6, <3>2, <3>3
  <2> QED BY <2>1, <2>2
<1>9. z = w
  <2>1. z \in Seq(Printable) /\ Len(z) = Len(w)
    BY <1>6, <1>7
  <2>2. \A i \in 1 .. Len(z) : z[i] = w[i]
    BY <1>7, <1>8
  <2> QED BY <2>1, <2>2, SeqEqual
<1> QED BY <1>1, <1>3, <1>4, <1>5, <1>6, <1>70, <1>9

\* A command makes at least one event.
LEMMA TaggedEvents ==
    ASSUME NEW e, NEW own \in Configs, NEW b \in BooksOf(own), NEW sym \in Nat, NEW c \in Readable,
           IsSubmitted(e, sym, c, b)
    PROVE  /\ Submitted(e, sym, c).events \in Seq(Tagged)
           /\ Submitted(e, sym, c).events # <<>>
<1>3. PICK out : out = Outcome(b, c) /\ Answers(out, own.room)
  BY OutcomeAnswers
<1>4. PICK v \in Seq(Told) : v = out.events /\ Len(v) > 0
  BY <1>3 DEF Answers
<1>5. PICK n \in Nat : n = Len(v) /\ DOMAIN v = 1 .. n /\ n > 0
  BY <1>4
<1>6. PICK k \in Nat : k = b.seq
  BY BookFacts
<1>7. Submitted(e, sym, c).events = [i \in 1 .. n |-> [sym |-> sym, seq |-> k + i, ev |-> v[i]]]
  BY <1>3, <1>4, <1>5, <1>6 DEF IsSubmitted, EventsAfter
<1>8. \A i \in 1 .. n : [sym |-> sym, seq |-> k + i, ev |-> v[i]] \in Tagged
  <2>1. \A i \in 1 .. n : v[i] \in Told /\ k + i \in Nat
    BY <1>5
  <2> QED BY <2>1 DEF Tagged
<1>9. PICK s : s = [i \in 1 .. n |-> [sym |-> sym, seq |-> k + i, ev |-> v[i]]]
  OBVIOUS
<1>10. s \in Seq(Tagged) /\ Len(s) = n
  BY <1>8, <1>9
<1>11. s # <<>>
  BY <1>5, <1>10
<1> QED BY <1>7, <1>9, <1>10, <1>11

LEMMA EventsAreTagged ==
    ASSUME NEW cfg \in Configs, NEW e, IsEngine(e, cfg), NEW sym \in Nat, NEW c \in Readable
    PROVE  /\ Submitted(e, sym, c).events \in Seq(Tagged)
           /\ Submitted(e, sym, c).events # <<>>
<1>1. PICK b \in BooksOf(cfg) : b = BookAt(e, sym)
  BY BookAtFacts
<1>2. IsSubmitted(e, sym, c, b)
  BY <1>1, SubmittedIs
<1> QED BY <1>2, TaggedEvents

LEMMA MixedEvents ==
    ASSUME NEW e, IsMixed(e), NEW sym \in Nat, NEW c \in Readable
    PROVE  Submitted(e, sym, c).events \in Seq(Tagged)
<1>1. PICK own, b : own \in Configs /\ b \in BooksOf(own) /\ b = BookAt(e, sym)
  BY MixedBookAt
<1>2. IsSubmitted(e, sym, c, b)
  BY <1>1, MixedFacts, SubmittedTo
<1> QED BY <1>1, <1>2, TaggedEvents

----------------------------------------------------------------------------
(* Prefixes.                                                               *)

LEMMA PrefixFacts ==
    ASSUME NEW S
    PROVE  /\ \A s \in Seq(S) : IsPrefix(s, s) /\ IsPrefix(<<>>, s)
           /\ \A s, u \in Seq(S) : IsPrefix(s, s \o u)
           /\ \A s, t, u \in Seq(S) : IsPrefix(s, t) /\ IsPrefix(t, u) => IsPrefix(s, u)
<1>0. ASSUME NEW s \in Seq(S), NEW t \in Seq(S)
      PROVE  IsPrefix(s, t) <=> /\ Len(s) <= Len(t)
                                /\ \A i \in 1 .. Len(s) : s[i] = t[i]
  <2>1. PICK n \in Nat, m \in Nat : n = Len(s) /\ m = Len(t)
    OBVIOUS
  <2>2. CASE n <= m
    <3>1. PICK w \in Seq(S) : w = SubSeq(t, 1, n) /\ Len(w) = n /\ \A i \in 1 .. n : w[i] = t[i]
      <4>1. SubSeq(t, 1, n) \in Seq(S) /\ Len(SubSeq(t, 1, n)) = n
              /\ \A i \in 1 .. n : SubSeq(t, 1, n)[i] = t[i]
        BY <2>1, <2>2
      <4> QED BY <4>1
    <3>2. PICK v \in Seq(S) : v = SubSeq(s, 1, n) /\ v = s
      <4>1. SubSeq(s, 1, n) = s
        BY <2>1
      <4> QED BY <4>1
    <3>3. v = w <=> \A i \in 1 .. n : s[i] = t[i]
      BY <2>1, <3>1, <3>2
    <3> QED BY <2>1, <2>2, <3>1, <3>2, <3>3 DEF IsPrefix
  <2>3. CASE ~(n <= m)
    BY <2>1, <2>3 DEF IsPrefix
  <2> QED BY <2>2, <2>3
<1>1. ASSUME NEW s \in Seq(S)
      PROVE  IsPrefix(s, s) /\ IsPrefix(<<>>, s)
  <2>1. <<>> \in Seq(S) /\ Len(<<>>) = 0 /\ Len(s) \in Nat
    OBVIOUS
  <2>2. PICK n \in Nat : n = Len(s)
    OBVIOUS
  <2>3. IsPrefix(s, s)
    BY <1>0, <2>2
  <2>4. PICK v \in Seq(S) : v = <<>>
    BY <2>1
  <2>5. IsPrefix(v, s)
    <3>1. Len(v) = 0
      BY <2>1, <2>4
    <3>2. Len(v) <= Len(s) /\ \A i \in 1 .. Len(v) : v[i] = s[i]
      BY <2>2, <3>1
    <3> QED BY <1>0, <2>4, <3>2
  <2> QED BY <2>3, <2>4, <2>5
<1>2. ASSUME NEW s \in Seq(S), NEW u \in Seq(S)
      PROVE  IsPrefix(s, s \o u)
  <2>1. PICK z \in Seq(S) : z = s \o u /\ Len(z) = Len(s) + Len(u) /\ \A j \in 1 .. Len(s) : z[j] = s[j]
    <3>1. s \o u \in Seq(S) /\ Len(s \o u) = Len(s) + Len(u) /\ \A j \in 1 .. Len(s) : (s \o u)[j] = s[j]
      BY ConcatFacts
    <3> QED BY <3>1
  <2>2. PICK n \in Nat, m \in Nat : n = Len(s) /\ m = Len(u)
    OBVIOUS
  <2>3. Len(s) <= Len(z)
    BY <2>1, <2>2
  <2> QED BY <1>0, <2>1, <2>3
<1>3. ASSUME NEW s \in Seq(S), NEW t \in Seq(S), NEW u \in Seq(S),
             IsPrefix(s, t), IsPrefix(t, u)
      PROVE  IsPrefix(s, u)
  <2>1. PICK n \in Nat, m \in Nat, k \in Nat : n = Len(s) /\ m = Len(t) /\ k = Len(u)
    OBVIOUS
  <2>2. n <= m /\ \A i \in 1 .. n : s[i] = t[i]
    BY <1>0, <1>3, <2>1
  <2>3. m <= k /\ \A i \in 1 .. m : t[i] = u[i]
    BY <1>0, <1>3, <2>1
  <2>4. n <= k /\ \A i \in 1 .. n : s[i] = u[i]
    BY <2>2, <2>3
  <2> QED BY <1>0, <2>1, <2>4
<1> QED BY <1>1, <1>2, <1>3

\* The beginning of the event journal.
LEMMA PrefixIsCut ==
    ASSUME NEW S, NEW s \in Seq(S), NEW t \in Seq(S), IsPrefix(s, t)
    PROVE  SubSeq(t, 1, Len(s)) = s /\ Len(s) <= Len(t)
<1>1. SubSeq(s, 1, Len(s)) = s
  OBVIOUS
<1> QED BY <1>1 DEF IsPrefix

----------------------------------------------------------------------------
(* The numbers of events.                                                  *)

\* The field that is read is the first one with its key.
LEMMA FirstIsGot ==
    ASSUME NEW line, DOMAIN line \subseteq Nat, NEW i \in DOMAIN line,
           \A j \in DOMAIN line : line[j].key = line[i].key => i <= j
    PROVE  Get(line, line[i].key) = line[i].val
<1>1. ASSUME NEW k \in DOMAIN line, line[k].key = line[i].key,
             \A j \in DOMAIN line : line[j].key = line[i].key => k <= j
      PROVE  k = i
  <2>1. k \in Nat /\ i \in Nat /\ k <= i /\ i <= k
    BY <1>1
  <2> QED BY <2>1
<1> QED BY <1>1 DEF Get

LEMMA DetailsOfTold ==
    ASSUME NEW e \in Told
    PROVE  \E S : Details(e) \in Seq(S)
<1>1. CASE e.ev \in {"accepted", "rejected", "closed"}
  <2>1. PICK x, y : Details(e) = <<x, y>>
    BY <1>1 DEF Details
  <2>2. <<x, y>> \in Seq({x, y})
    OBVIOUS
  <2> QED BY <2>1, <2>2
<1>2. CASE e.ev = "replaced"
  <2>1. PICK x, y, z : Details(e) = <<x, y, z>>
    BY <1>2 DEF Details
  <2>2. <<x, y, z>> \in Seq({x, y, z})
    OBVIOUS
  <2> QED BY <2>1, <2>2
<1>3. CASE e.ev = "trade"
  <2>1. PICK w, x, y, z : Details(e) = <<w, x, y, z>>
    BY <1>3 DEF Details
  <2>2. <<w, x, y, z>> \in Seq({w, x, y, z})
    OBVIOUS
  <2> QED BY <2>1, <2>2
<1> QED BY <1>1, <1>2, <1>3 DEF Told

LEMMA LineTellsPlace ==
    ASSUME NEW seq \in Nat, NEW sym \in Nat, NEW e \in Told
    PROVE  /\ Get(CanonicalSym(seq, sym, e), "seq") = seq
           /\ Get(CanonicalSym(seq, sym, e), "symbol") = sym
<1>1. PICK S : Details(e) \in Seq(S)
  BY DetailsOfTold
<1>2. PICK line : line = CanonicalSym(seq, sym, e)
  OBVIOUS
<1>3. PICK n \in Nat : n = Len(Details(e))
  BY <1>1
<1>4. /\ Len(line) = 3 + n
      /\ line[1] = Field("seq", seq) /\ line[2] = Field("ev", e.ev)
      /\ line[3] = Field("symbol", sym)
  BY <1>1, <1>2, <1>3, AfterTriple DEF CanonicalSym
<1>5. DOMAIN line = 1 .. (3 + n)
  <2>1. PICK q : q = <<Field("seq", seq), Field("ev", e.ev), Field("symbol", sym)>>
    OBVIOUS
  <2>2. PICK T : q \in Seq(T)
    <3>1. q \in Seq({Field("seq", seq), Field("ev", e.ev), Field("symbol", sym)})
      BY <2>1
    <3> QED BY <3>1
  <2>3. q \in Seq(S \cup T) /\ Details(e) \in Seq(S \cup T)
    BY <1>1, <2>2
  <2>4. line \in Seq(S \cup T)
    <3>1. q \o Details(e) \in Seq(S \cup T)
      BY <2>3
    <3> QED BY <1>2, <2>1, <3>1 DEF CanonicalSym
  <2> QED BY <1>4, <2>4
<1>6. /\ line[1].key = "seq" /\ line[1].val = seq /\ line[2].key = "ev"
      /\ line[3].key = "symbol" /\ line[3].val = sym
  BY <1>4 DEF Field
<1>7. 1 \in DOMAIN line /\ 3 \in DOMAIN line /\ DOMAIN line \subseteq Nat
  BY <1>5
<1>8. Get(line, line[1].key) = line[1].val
  <2>1. \A j \in DOMAIN line : 1 <= j
    BY <1>5
  <2> QED BY <1>7, <2>1, FirstIsGot
<1>9. Get(line, line[3].key) = line[3].val
  <2>1. \A j \in DOMAIN line : line[j].key = line[3].key => 3 <= j
    <3>1. \A j \in DOMAIN line : j = 1 \/ j = 2 \/ 3 <= j
      BY <1>5
    <3> QED BY <1>6, <3>1
  <2> QED BY <1>7, <2>1, FirstIsGot
<1> QED BY <1>2, <1>6, <1>8, <1>9

\* The first n events of symbol sym.
Named(out, sym, n) == {j \in 1 .. n : Get(out[j], "symbol") = sym}

\* Every event is numbered by how many of its symbol there were with it.
Dense(out) ==
    \A i \in 1 .. Len(out) :
      Get(out[i], "seq") = Cardinality(Named(out, Get(out[i], "symbol"), i))

Numbered(e, out) ==
    /\ Dense(out)
    /\ \A sym \in Nat : BookAt(e, sym).seq = Cardinality(Named(out, sym, Len(out)))

\* More events of a symbol, with the next numbers.
Continues(q, sym, k) ==
    \A i \in 1 .. Len(q) : Get(q[i], "symbol") = sym /\ Get(q[i], "seq") = k + i

LEMMA NamedIsFinite ==
    ASSUME NEW out, NEW sym, NEW n \in Nat
    PROVE  IsFiniteSet(Named(out, sym, n)) /\ Cardinality(Named(out, sym, n)) \in Nat
<1>1. IsFiniteSet(1 .. n)
  BY FS_Interval
<1>2. Named(out, sym, n) \subseteq 1 .. n
  BY DEF Named
<1> QED BY <1>1, <1>2, FS_Subset, FS_CardinalityType

\* The numbers of o went on in z.
Continued(o, q, sym, z) ==
    /\ Dense(z)
    /\ Cardinality(Named(z, sym, Len(z))) = Cardinality(Named(o, sym, Len(o))) + Len(q)
    /\ \A s : s # sym => Named(z, s, Len(z)) = Named(o, s, Len(o))

LEMMA DenseGrows ==
    ASSUME NEW S, NEW o \in Seq(S), NEW q \in Seq(S), Dense(o), NEW sym,
           Continues(q, sym, Cardinality(Named(o, sym, Len(o))))
    PROVE  Continued(o, q, sym, o \o q)
<1>0. PICK z : z = o \o q
  OBVIOUS
<1>1. PICK n \in Nat, m \in Nat : n = Len(o) /\ m = Len(q)
  OBVIOUS
<1>a. PICK k \in Nat : k = Cardinality(Named(o, sym, n)) /\ Continues(q, sym, k)
  BY <1>1, NamedIsFinite
<1>2. /\ z \in Seq(S) /\ Len(z) = n + m
      /\ \A j \in 1 .. n : z[j] = o[j]
      /\ \A j \in 1 .. m : z[n + j] = q[j]
  <2>1. /\ o \o q \in Seq(S) /\ Len(o \o q) = Len(o) + Len(q)
        /\ \A j \in 1 .. Len(o) : (o \o q)[j] = o[j]
        /\ \A j \in 1 .. Len(q) : (o \o q)[Len(o) + j] = q[j]
    BY ConcatFacts
  <2> QED BY <1>0, <1>1, <2>1
<1>3. \A i \in 0 .. n : \A s : Named(z, s, i) = Named(o, s, i)
  <2>1. \A i \in 0 .. n : \A j \in 1 .. i : j \in 1 .. n
    OBVIOUS
  <2> QED BY <1>2, <2>1 DEF Named
<1>4. \A j \in (n + 1) .. (n + m) : Get(z[j], "symbol") = sym /\ Get(z[j], "seq") = k + (j - n)
  <2> TAKE j \in (n + 1) .. (n + m)
  <2>1. j - n \in 1 .. m /\ n + (j - n) = j
    OBVIOUS
  <2>2. z[j] = q[j - n]
    BY <1>2, <2>1
  <2>3. Get(q[j - n], "symbol") = sym /\ Get(q[j - n], "seq") = k + (j - n)
    BY <1>1, <1>a, <2>1 DEF Continues
  <2> QED BY <2>2, <2>3
<1>5. ASSUME NEW i \in 0 .. m
      PROVE  Named(z, sym, n + i) = Named(o, sym, n) \cup ((n + 1) .. (n + i))
  <2>1. \A j \in 1 .. (n + i) : j \in 1 .. n \/ j \in (n + 1) .. (n + m)
    OBVIOUS
  <2>2. \A j \in 1 .. n : j \in 1 .. (n + i)
    OBVIOUS
  <2>3. \A j \in (n + 1) .. (n + i) : j \in 1 .. (n + i) /\ j \in (n + 1) .. (n + m)
    OBVIOUS
  <2>4. \A j : j \in Named(o, sym, n) <=> j \in 1 .. n /\ Get(z[j], "symbol") = sym
    BY <1>2 DEF Named
  <2>5. \A j : j \in Named(z, sym, n + i) <=> j \in 1 .. (n + i) /\ Get(z[j], "symbol") = sym
    BY DEF Named
  <2>6. \A j : j \in (n + 1) .. (n + i) => ~(j \in 1 .. n)
    OBVIOUS
  <2>7. \A j \in 1 .. (n + i) : j \in 1 .. n \/ j \in (n + 1) .. (n + i)
    OBVIOUS
  <2> QED BY <1>4, <2>2, <2>3, <2>4, <2>5, <2>7
<1>6. ASSUME NEW i \in 0 .. m
      PROVE  Cardinality(Named(z, sym, n + i)) = k + i
  <2>1. PICK A, B : A = Named(o, sym, n) /\ B = (n + 1) .. (n + i)
    OBVIOUS
  <2>2. IsFiniteSet(A) /\ Cardinality(A) = k
    BY <1>a, <2>1, NamedIsFinite
  <2>3. IsFiniteSet(B) /\ Cardinality(B) = i
    <3>1. n + 1 \in Int /\ n + i \in Int
      OBVIOUS
    <3>2. /\ IsFiniteSet((n + 1) .. (n + i))
          /\ Cardinality((n + 1) .. (n + i)) = IF n + 1 > n + i THEN 0 ELSE (n + i) - (n + 1) + 1
      BY <3>1, FS_Interval
    <3>3. (IF n + 1 > n + i THEN 0 ELSE (n + i) - (n + 1) + 1) = i
      OBVIOUS
    <3> QED BY <2>1, <3>2, <3>3
  <2>4. A \cap B = {}
    <3>1. A \subseteq 1 .. n
      BY <2>1 DEF Named
    <3> QED BY <2>1, <3>1
  <2>5. Cardinality({}) = 0
    BY FS_EmptySet
  <2>6. Cardinality(A \cup B) = k + i
    <3>1. Cardinality(A \cup B) = Cardinality(A) + Cardinality(B) - Cardinality(A \cap B)
      BY <2>2, <2>3, FS_Union
    <3>2. Cardinality(A \cup B) = k + i - 0
      BY <2>2, <2>3, <2>4, <2>5, <3>1
    <3> QED BY <3>2
  <2> QED BY <1>5, <2>1, <2>6
<1>7. ASSUME NEW s, s # sym
      PROVE  Named(z, s, n + m) = Named(o, s, n)
  <2>1. \A j \in 1 .. (n + m) : j \in 1 .. n \/ j \in (n + 1) .. (n + m)
    OBVIOUS
  <2>2. \A j \in 1 .. n : j \in 1 .. (n + m)
    OBVIOUS
  <2> QED BY <1>2, <1>4, <1>7, <2>1, <2>2 DEF Named
<1>8. ASSUME NEW j \in 1 .. (n + m)
      PROVE  Get(z[j], "seq") = Cardinality(Named(z, Get(z[j], "symbol"), j))
  <2>1. CASE j \in 1 .. n
    <3>1. j \in 0 .. n
      BY <2>1
    <3>2. Get(o[j], "seq") = Cardinality(Named(o, Get(o[j], "symbol"), j))
      BY <1>1, <2>1 DEF Dense
    <3> QED BY <1>2, <1>3, <2>1, <3>1, <3>2
  <2>2. CASE ~(j \in 1 .. n)
    <3>1. j \in (n + 1) .. (n + m) /\ j - n \in 0 .. m /\ n + (j - n) = j
      BY <2>2
    <3>2. Get(z[j], "symbol") = sym /\ Get(z[j], "seq") = k + (j - n)
      BY <1>4, <3>1
    <3>3. Cardinality(Named(z, sym, n + (j - n))) = k + (j - n)
      BY <1>6, <3>1
    <3> QED BY <3>1, <3>2, <3>3
  <2> QED BY <2>1, <2>2
<1>9. Dense(z)
  BY <1>2, <1>8 DEF Dense
<1>10. m \in 0 .. m
  OBVIOUS
<1>11. Cardinality(Named(z, sym, Len(z))) = k + m
  BY <1>2, <1>6, <1>10
<1> QED BY <1>0, <1>1, <1>a, <1>2, <1>7, <1>9, <1>11 DEF Continued

\* The numbers of an engine go on where the event journal ends.
LEMMA NumbersGrow ==
    ASSUME NEW cfg \in Configs, NEW e, IsEngine(e, cfg), NEW sym \in Nat, NEW c \in Readable,
           NEW out \in Seq(Printable), Numbered(e, out),
           NEW d, d = Submitted(e, sym, c)
    PROVE  Numbered(d.engine, out \o Printed(d.events))
<1>1. PICK b \in BooksOf(cfg) : b = BookAt(e, sym)
  BY BookAtFacts
<1>2. d.engine = WithBook(e, sym, BookAfter(b, c)) /\ d.events = EventsAfter(b, sym, c)
  BY <1>1, SubmittedIs DEF IsSubmitted
<1>30. PICK k \in Nat : k = b.seq
  BY BookFacts
<1>31. PICK v : v = Outcome(b, c).events
  OBVIOUS
<1>3. k = b.seq /\ v = Outcome(b, c).events
  BY <1>30, <1>31
<1>4. v \in Seq(Told)
  BY <1>3, OutcomeAnswers DEF Answers
<1>5. PICK m \in Nat : m = Len(v) /\ DOMAIN v = 1 .. m
  BY <1>4
<1>6. d.events = [i \in 1 .. m |-> [sym |-> sym, seq |-> k + i, ev |-> v[i]]]
  BY <1>2, <1>3, <1>5 DEF EventsAfter
<1>7. PICK p \in Seq(Tagged) : p = d.events
  BY EventsAreTagged
<1>8. Len(p) = m /\ \A i \in 1 .. m : p[i] = [sym |-> sym, seq |-> k + i, ev |-> v[i]]
  BY <1>6, <1>7
<1>9. PICK q \in Seq(Printable) :
        /\ q = Printed(p) /\ Len(q) = m
        /\ \A i \in 1 .. m : q[i] = CanonicalSym(p[i].seq, p[i].sym, p[i].ev)
  BY <1>8, PrintedFacts
<1>10. Continues(q, sym, k)
  <2> SUFFICES ASSUME NEW i \in 1 .. m
               PROVE  Get(q[i], "symbol") = sym /\ Get(q[i], "seq") = k + i
    BY <1>9 DEF Continues
  <2>1. q[i] = CanonicalSym(k + i, sym, v[i]) /\ k + i \in Nat /\ v[i] \in Told
    <3>1. p[i].seq = k + i /\ p[i].sym = sym /\ p[i].ev = v[i]
      BY <1>8
    <3>2. v[i] \in Told
      BY <1>4, <1>5
    <3> QED BY <1>9, <3>1, <3>2
  <2> QED BY <2>1, LineTellsPlace
<1>11. k = Cardinality(Named(out, sym, Len(out))) /\ Dense(out)
  BY <1>1, <1>3 DEF Numbered
<1>12. PICK z : z = out \o q
  OBVIOUS
<1>13. /\ Dense(z) /\ Cardinality(Named(z, sym, Len(z))) = k + m
       /\ \A s : s # sym => Named(z, s, Len(z)) = Named(out, s, Len(out))
  <2>1. Continued(out, q, sym, out \o q)
    BY <1>10, <1>11, DenseGrows
  <2> QED BY <1>9, <1>11, <1>12, <2>1 DEF Continued
<1>14. ASSUME NEW s \in Nat
       PROVE  BookAt(d.engine, s).seq = Cardinality(Named(z, s, Len(z)))
  <2>1. PICK f, w : f = e.books /\ w = BookAfter(b, c)
    OBVIOUS
  <2>2. d.engine = [cfg |-> e.cfg, books |-> With(f, sym, w)]
    BY <1>2, <2>1 DEF WithBook
  <2>3. CASE s = sym
    <3>1. BookAt(d.engine, s) = w
      BY <2>2, <2>3, WithFacts DEF BookAt
    <3>2. w.seq = k + m
      BY <1>3, <1>5, <2>1 DEF BookAfter
    <3> QED BY <1>13, <2>3, <3>1, <3>2
  <2>4. CASE s # sym
    <3>1. BookAt(d.engine, s) = BookAt(e, s)
      <4>1. /\ s \in DOMAIN With(f, sym, w) <=> s \in DOMAIN f
            /\ s \in DOMAIN f => With(f, sym, w)[s] = f[s]
        BY <2>4 DEF With
      <4> QED BY <2>1, <2>2, <4>1 DEF BookAt
    <3>2. BookAt(e, s).seq = Cardinality(Named(out, s, Len(out)))
      BY DEF Numbered
    <3> QED BY <1>13, <2>4, <3>1, <3>2
  <2> QED BY <2>3, <2>4
<1> QED BY <1>7, <1>9, <1>12, <1>13, <1>14 DEF Numbered

LEMMA NumbersBegin ==
    ASSUME NEW cfg
    PROVE  Numbered(NewEngine(cfg), <<>>)
<1>1. Dense(<<>>)
  BY DEF Dense
<1>2. ASSUME NEW sym
      PROVE  BookAt(NewEngine(cfg), sym).seq = Cardinality(Named(<<>>, sym, Len(<<>>)))
  <2>1. Named(<<>>, sym, Len(<<>>)) = {}
    BY DEF Named
  <2>2. BookAt(NewEngine(cfg), sym) = NewBook(cfg)
    BY DEF BookAt, NewEngine
  <2>3. Cardinality({}) = 0
    BY FS_EmptySet
  <2>4. NewBook(cfg).seq = 0
    BY DEF NewBook
  <2> QED BY <2>1, <2>2, <2>3, <2>4
<1> QED BY <1>1, <1>2 DEF Numbered

\* A beginning of a journal is numbered like it.
LEMMA DenseBegins ==
    ASSUME NEW S, NEW s \in Seq(S), NEW t \in Seq(S), IsPrefix(s, t), Dense(t)
    PROVE  Dense(s)
<1>1. PICK n \in Nat, m \in Nat : n = Len(s) /\ m = Len(t) /\ n <= m
  BY PrefixIsCut
<1>2. \A i \in 1 .. n : s[i] = t[i]
  BY <1>1, PrefixIsCut
<1>3. ASSUME NEW i \in 1 .. n
      PROVE  Get(s[i], "seq") = Cardinality(Named(s, Get(s[i], "symbol"), i))
  <2>1. i \in 1 .. m /\ \A j \in 1 .. i : j \in 1 .. n
    BY <1>1
  <2>2. \A sym : Named(s, sym, i) = Named(t, sym, i)
    BY <1>2, <2>1 DEF Named
  <2>3. Get(t[i], "seq") = Cardinality(Named(t, Get(t[i], "symbol"), i))
    BY <1>1, <2>1 DEF Dense
  <2> QED BY <1>2, <2>2, <2>3
<1> QED BY <1>1, <1>3 DEF Dense

----------------------------------------------------------------------------
(* The run without a crash.                                                *)

\* The engine and the event journal after one more command.
Done(x, c) ==
    [engine |-> Submitted(x.engine, c.sym, c.cmd).engine,
     egress |-> x.egress \o Printed(Submitted(x.engine, c.sym, c.cmd).events)]

IsCommand(c) == c.sym \in Nat /\ c.cmd \in Constructed

\* An engine all whose books have had a command, and its events, numbered.
IsIdeal(x) ==
    /\ IsEngine(x.engine, Config) /\ Used(x.engine) = x.engine
    /\ x.egress \in Seq(Printable) /\ Numbered(x.engine, x.egress)

LEMMA DoneIsIdeal ==
    ASSUME Config \in Configs, NEW x, IsIdeal(x), NEW c, IsCommand(c)
    PROVE  IsIdeal(Done(x, c)) /\ IsPrefix(x.egress, Done(x, c).egress)
<1>1. PICK e : e = x.engine /\ IsEngine(e, Config) /\ Used(e) = e
  BY DEF IsIdeal
<1>2. PICK sym \in Nat, k \in Readable : sym = c.sym /\ k = c.cmd
  BY ConstructedIsReadable DEF IsCommand
<1>3. IsEngine(Submitted(e, sym, k).engine, Config)
  BY <1>1, SubmittedIsEngine
<1>4. Used(Submitted(e, sym, k).engine) = Submitted(e, sym, k).engine
  BY <1>1, UsedSubmit
<1>5. PICK v \in Seq(Tagged) : v = Submitted(e, sym, k).events
  BY <1>1, EventsAreTagged
<1>6. PICK a \in Seq(Printable), b \in Seq(Printable) : a = x.egress /\ b = Printed(v)
  BY PrintedFacts DEF IsIdeal
<1>7. a \o b \in Seq(Printable)
  BY ConcatFacts
<1>8. IsPrefix(a, a \o b)
  BY PrefixFacts
<1>9. PICK d : d = Done(x, c)
  OBVIOUS
<1>10. d.engine = Submitted(e, sym, k).engine /\ d.egress = a \o b
  <2>1. d.engine = Submitted(x.engine, c.sym, c.cmd).engine
    BY <1>9 DEF Done
  <2>2. d.egress = x.egress \o Printed(Submitted(x.engine, c.sym, c.cmd).events)
    BY <1>9 DEF Done
  <2> QED BY <1>1, <1>2, <1>5, <1>6, <2>1, <2>2
<1>11. Numbered(d.engine, d.egress)
  <2>1. Numbered(e, a)
    BY <1>1, <1>6 DEF IsIdeal
  <2>2. Numbered(Submitted(e, sym, k).engine, a \o Printed(Submitted(e, sym, k).events))
    BY <1>1, <2>1, NumbersGrow
  <2> QED BY <1>5, <1>6, <1>10, <2>2
<1> QED BY <1>3, <1>4, <1>6, <1>7, <1>8, <1>9, <1>10, <1>11 DEF IsIdeal

\* An engine that has the books of x gets those of Done(x, c), with its events.
LEMMA DoneAlike ==
    ASSUME Config \in Configs, NEW x, IsIdeal(x), NEW c, IsCommand(c),
           NEW e, IsEngine(e, Config), Used(e) = x.engine,
           NEW done, done = Submitted(e, c.sym, c.cmd)
    PROVE  /\ IsEngine(done.engine, Config) /\ Used(done.engine) = Done(x, c).engine
           /\ done.events \in Seq(Tagged) /\ done.events # <<>>
           /\ x.egress \o Printed(done.events) = Done(x, c).egress
<1>1. PICK u : u = x.engine /\ u = Used(e)
  OBVIOUS
<1>2. PICK sym \in Nat, k \in Readable : sym = c.sym /\ k = c.cmd
  BY ConstructedIsReadable DEF IsCommand
<1>3. done = Submitted(e, sym, k)
  BY <1>2
<1>4. IsEngine(done.engine, Config)
  BY <1>3, SubmittedIsEngine
<1>5. done.events \in Seq(Tagged) /\ done.events # <<>>
  BY <1>3, EventsAreTagged
<1>6. /\ Submitted(e, sym, k).events = Submitted(u, sym, k).events
      /\ Used(Submitted(e, sym, k).engine) = Submitted(u, sym, k).engine
  BY <1>1, UsedSubmit
<1>7. /\ Done(x, c).engine = Submitted(u, sym, k).engine
      /\ Done(x, c).egress = x.egress \o Printed(Submitted(u, sym, k).events)
  BY <1>1, <1>2 DEF Done
<1> QED BY <1>3, <1>4, <1>5, <1>6, <1>7

----------------------------------------------------------------------------
(* Recovery.                                                               *)

\* The engine and the event journal before and after a command, and its line.
IsTurn(x, y, c, line) ==
    IsCommand(c) /\ line = Written(c.sym, c.cmd) /\ y = Done(x, c)

\* The journal jr has the lines of the commands snt, and idl is the run of them.
Chronicle(snt, jr, idl) ==
    /\ IsSeq(snt) /\ IsSeq(jr) /\ IsSeq(idl)
    /\ Len(snt) \in Nat /\ Len(jr) = Len(snt) /\ Len(idl) = Len(snt) + 1
    /\ \A i \in 1 .. Len(snt) : snt[i] \in Commands /\ IsTurn(idl[i], idl[i + 1], snt[i], jr[i])
    /\ idl[1] = [engine |-> NewEngine(Config), egress |-> <<>>]
    /\ \A i \in 1 .. (Len(snt) + 1) : IsIdeal(idl[i])
    /\ \A i, j \in 1 .. (Len(snt) + 1) : i <= j => IsPrefix(idl[i].egress, idl[j].egress)

LEMMA ChronicleBegins ==
    ASSUME Config \in Configs
    PROVE  Chronicle(<<>>, <<>>, <<[engine |-> NewEngine(Config), egress |-> <<>>]>>)
<1>1. PICK x : x = [engine |-> NewEngine(Config), egress |-> <<>>]
  OBVIOUS
<1>2. IsEngine(NewEngine(Config), Config)
  BY NewIsEngine
<1>3. Used(NewEngine(Config)) = NewEngine(Config)
  <2>1. Used(NewEngine(Config)) = [cfg |-> Config, books |-> UsedOf(NewEngine(Config).books)]
    BY <1>2, UsedIs
  <2>2. NewEngine(Config).books = <<>>
    BY DEF NewEngine
  <2>3. UsedOf(<<>>) = <<>>
    BY DEF UsedOf
  <2> QED BY <2>1, <2>2, <2>3 DEF NewEngine
<1>4. IsIdeal(x)
  BY <1>1, <1>2, <1>3, NumbersBegin DEF IsIdeal
<1>5. IsPrefix(x.egress, x.egress)
  BY <1>4, PrefixFacts DEF IsIdeal
<1>6. PICK s : s = <<x>>
  OBVIOUS
<1>7. IsSeq(s) /\ Len(s) = 1 /\ s[1] = x
  BY <1>6 DEF IsSeq
<1>8. IsSeq(<<>>) /\ Len(<<>>) = 0
  BY DEF IsSeq
<1>9. Chronicle(<<>>, <<>>, s)
  BY <1>1, <1>4, <1>5, <1>7, <1>8 DEF Chronicle
<1> QED BY <1>1, <1>6, <1>9

LEMMA ChronicleGrows ==
    ASSUME Config \in Configs, NEW snt, NEW jr, NEW idl, Chronicle(snt, jr, idl),
           NEW c \in Commands, IsCommand(c)
    PROVE  Chronicle(Append(snt, c), Append(jr, Written(c.sym, c.cmd)),
                     Append(idl, Done(idl[Len(idl)], c)))
<1>1. PICK n \in Nat : n = Len(snt) /\ Len(jr) = n /\ Len(idl) = n + 1
  BY DEF Chronicle
<1>2. PICK x, y, w : x = idl[n + 1] /\ y = Done(x, c) /\ w = Written(c.sym, c.cmd)
  OBVIOUS
<1>3. IsIdeal(x)
  <2>1. n + 1 \in 1 .. (n + 1)
    OBVIOUS
  <2> QED BY <1>1, <1>2, <2>1 DEF Chronicle
<1>4. IsIdeal(y) /\ IsPrefix(x.egress, y.egress)
  BY <1>2, <1>3, DoneIsIdeal
<1>50. PICK s, r, d : s = Append(snt, c) /\ r = Append(jr, w) /\ d = Append(idl, y)
  OBVIOUS
<1>51. IsSeq(snt) /\ IsSeq(jr) /\ IsSeq(idl)
  BY DEF Chronicle
<1>5. IsSeq(s) /\ Len(s) = n + 1 /\ s[n + 1] = c /\ \A i \in 1 .. n : s[i] = snt[i]
  <2>1. /\ IsSeq(Append(snt, c)) /\ Len(Append(snt, c)) = Len(snt) + 1
        /\ Append(snt, c)[Len(snt) + 1] = c
        /\ \A i \in 1 .. Len(snt) : Append(snt, c)[i] = snt[i]
    BY <1>51, Appended
  <2> QED BY <1>1, <1>50, <2>1
<1>6. IsSeq(r) /\ Len(r) = n + 1 /\ r[n + 1] = w /\ \A i \in 1 .. n : r[i] = jr[i]
  <2>1. /\ IsSeq(Append(jr, w)) /\ Len(Append(jr, w)) = Len(jr) + 1
        /\ Append(jr, w)[Len(jr) + 1] = w
        /\ \A i \in 1 .. Len(jr) : Append(jr, w)[i] = jr[i]
    BY <1>51, Appended
  <2> QED BY <1>1, <1>50, <2>1
<1>7. IsSeq(d) /\ Len(d) = n + 2 /\ d[n + 2] = y /\ \A i \in 1 .. (n + 1) : d[i] = idl[i]
  <2>1. /\ IsSeq(Append(idl, y)) /\ Len(Append(idl, y)) = Len(idl) + 1
        /\ Append(idl, y)[Len(idl) + 1] = y
        /\ \A i \in 1 .. Len(idl) : Append(idl, y)[i] = idl[i]
    BY <1>51, Appended
  <2>2. (n + 1) + 1 = n + 2
    OBVIOUS
  <2> QED BY <1>1, <1>50, <2>1, <2>2
<1>8. ASSUME NEW i \in 1 .. (n + 1)
      PROVE  s[i] \in Commands /\ IsTurn(d[i], d[i + 1], s[i], r[i])
  <2>1. CASE i = n + 1
    <3>1. d[i] = x /\ d[i + 1] = y /\ s[i] = c /\ r[i] = w
      <4>1. i \in 1 .. (n + 1) /\ i + 1 = n + 2
        BY <2>1
      <4> QED BY <1>2, <1>5, <1>6, <1>7, <2>1, <4>1
    <3> QED BY <1>2, <3>1 DEF IsTurn
  <2>2. CASE i # n + 1
    <3>1. i \in 1 .. n /\ i + 1 \in 1 .. (n + 1)
      BY <2>2
    <3>2. d[i] = idl[i] /\ d[i + 1] = idl[i + 1] /\ s[i] = snt[i] /\ r[i] = jr[i]
      BY <1>5, <1>6, <1>7, <3>1
    <3>3. snt[i] \in Commands /\ IsTurn(idl[i], idl[i + 1], snt[i], jr[i])
      BY <1>1, <3>1 DEF Chronicle
    <3> QED BY <3>2, <3>3
  <2> QED BY <2>1, <2>2
<1>9. d[1] = [engine |-> NewEngine(Config), egress |-> <<>>]
  <2>1. 1 \in 1 .. (n + 1)
    OBVIOUS
  <2> QED BY <1>7, <2>1 DEF Chronicle
<1>10. \A i \in 1 .. (n + 1) : IsIdeal(idl[i])
  BY <1>1 DEF Chronicle
<1>11. \A i \in 1 .. ((n + 1) + 1) : IsIdeal(d[i])
  <2>1. \A i \in 1 .. ((n + 1) + 1) : i \in 1 .. (n + 1) \/ i = n + 2
    OBVIOUS
  <2> QED BY <1>4, <1>7, <1>10, <2>1
<1>12. ASSUME NEW i \in 1 .. ((n + 1) + 1), NEW j \in 1 .. ((n + 1) + 1), i <= j
       PROVE  IsPrefix(d[i].egress, d[j].egress)
  <2>1. CASE j = n + 2
    <3>1. CASE i = n + 2
      BY <1>4, <1>7, <2>1, <3>1, PrefixFacts DEF IsIdeal
    <3>2. CASE i # n + 2
      <4>1. i \in 1 .. (n + 1) /\ n + 1 \in 1 .. (n + 1) /\ i <= n + 1
        BY <3>2
      <4>2. IsPrefix(idl[i].egress, x.egress)
        BY <1>1, <1>2, <4>1 DEF Chronicle
      <4>3. /\ idl[i].egress \in Seq(Printable) /\ x.egress \in Seq(Printable)
            /\ y.egress \in Seq(Printable)
        BY <1>3, <1>4, <1>10, <4>1 DEF IsIdeal
      <4>4. IsPrefix(idl[i].egress, y.egress)
        BY <1>4, <4>2, <4>3, PrefixFacts
      <4> QED BY <1>7, <2>1, <4>1, <4>4
    <3> QED BY <3>1, <3>2
  <2>2. CASE j # n + 2
    <3>1. i \in 1 .. (n + 1) /\ j \in 1 .. (n + 1)
      BY <1>12, <2>2
    <3>2. IsPrefix(idl[i].egress, idl[j].egress)
      BY <1>1, <1>12, <3>1 DEF Chronicle
    <3> QED BY <1>7, <3>1, <3>2
  <2> QED BY <2>1, <2>2
<1>13. Chronicle(s, r, d)
  <2>1. Len(d) = (n + 1) + 1 /\ n + 1 \in Nat
    BY <1>7
  <2> QED BY <1>5, <1>6, <1>7, <1>8, <1>9, <1>11, <1>12, <2>1 DEF Chronicle
<1>14. idl[Len(idl)] = x
  BY <1>1, <1>2
<1> QED BY <1>2, <1>50, <1>13, <1>14

\* What the commands recorded so far have made.
Latest(snt, idl) == idl[Len(snt) + 1]

\* An engine in memory, and an event journal, that are those of x.
Alike(e, out, x) == Used(e) = x.engine /\ out = x.egress

\* The event journal is a beginning of that of the run without a crash.
IsBeginning(out, x) == out \in Seq(Printable) /\ IsPrefix(out, x.egress)

\* The snapshot is of an engine that the run had, and its events are out.
IsSaved(sn, snt, idl, out) ==
    /\ IsEngine(sn.of, Config) /\ sn.file = EngineLines(sn.of)
    /\ sn.at \in 0 .. Len(snt)
    /\ Used(sn.of) = idl[sn.at + 1].engine
    /\ sn.mark = Len(idl[sn.at + 1].egress)
    /\ IsPrefix(idl[sn.at + 1].egress, out)

\* What the phase tells of the engine in memory and of the event journal.
Serving(ph, pend, e, out, snt, idl) ==
    /\ ph = "ready" =>
         pend = <<>> /\ Alike(e, out, Latest(snt, idl))
    /\ ph = "recorded" =>
         pend = <<>> /\ Len(snt) > 0 /\ Alike(e, out, idl[Len(snt)])
    /\ ph = "emitting" =>
         /\ pend \in Seq(Tagged) /\ pend # <<>>
         /\ Alike(e, out \o Printed(pend), Latest(snt, idl))

Recovering(ph, pend, e, out, at0, ps, snt, idl) ==
    /\ ph = "down" => pend = <<>>
    /\ ph = "replaying" =>
         pend = <<>> /\ ps \in at0 .. Len(snt) /\ Alike(e, out, idl[ps + 1])

Going == {"ready", "recorded", "emitting", "down", "replaying"}

RecoveryInv ==
    /\ Chronicle(sent, journal, ideal)
    /\ IsSaved(snap, sent, ideal, egress)
    /\ IsBeginning(egress, Latest(sent, ideal))
    /\ IsEngine(engine, Config)
    /\ pos \in 0 .. Len(sent)
    /\ phase \in Going
    /\ Serving(phase, pending, engine, egress, sent, ideal)
    /\ Recovering(phase, pending, engine, egress, snap.at, pos, sent, ideal)
    /\ Len(sent) <= MaxCommands /\ crashes \in 0 .. MaxCrashes

\* The facts of a chronicle that the steps use.
LEMMA ChronicleFacts ==
    ASSUME NEW snt, NEW jr, NEW idl, Chronicle(snt, jr, idl)
    PROVE  /\ Len(snt) \in Nat /\ Len(jr) = Len(snt) /\ Len(idl) = Len(snt) + 1
           /\ snt \in Seq(Commands)
           /\ \A i \in 0 .. Len(snt) : IsIdeal(idl[i + 1])
           /\ IsIdeal(Latest(snt, idl)) /\ idl[Len(idl)] = Latest(snt, idl)
           /\ \A i, j \in 0 .. Len(snt) : i <= j => IsPrefix(idl[i + 1].egress, idl[j + 1].egress)
           /\ \A i \in 0 .. Len(snt) : IsPrefix(idl[i + 1].egress, Latest(snt, idl).egress)
           /\ \A i \in 1 .. Len(snt) : IsTurn(idl[i], idl[i + 1], snt[i], jr[i])
<1>1. PICK n \in Nat : n = Len(snt) /\ Len(jr) = n /\ Len(idl) = n + 1
  BY DEF Chronicle
<1>2. \A i \in 0 .. n : i + 1 \in 1 .. (n + 1) /\ i + 1 <= n + 1
  OBVIOUS
<1>3. n + 1 \in 1 .. (n + 1)
  OBVIOUS
<1>4. snt \in Seq(Commands)
  <2>1. IsSeq(snt) /\ \A i \in 1 .. n : snt[i] \in Commands
    BY <1>1 DEF Chronicle
  <2>2. PICK X : snt \in Seq(X)
    BY <2>1 DEF IsSeq
  <2> QED BY <1>1, <2>1, <2>2
<1>5. \A i \in 0 .. n : IsIdeal(idl[i + 1])
  BY <1>1, <1>2 DEF Chronicle
<1>6. \A i \in 0 .. n : IsPrefix(idl[i + 1].egress, idl[n + 1].egress)
  BY <1>1, <1>2, <1>3 DEF Chronicle
<1>7. IsIdeal(idl[n + 1])
  BY <1>1, <1>3 DEF Chronicle
<1>8. \A i \in 1 .. n : IsTurn(idl[i], idl[i + 1], snt[i], jr[i])
  BY <1>1 DEF Chronicle
<1>9. \A i, j \in 0 .. n : i <= j => IsPrefix(idl[i + 1].egress, idl[j + 1].egress)
  <2>1. \A i, j \in 0 .. n : i <= j => i + 1 <= j + 1
    OBVIOUS
  <2> QED BY <1>1, <1>2, <2>1 DEF Chronicle
<1> QED BY <1>1, <1>4, <1>5, <1>6, <1>7, <1>8, <1>9 DEF Latest

----------------------------------------------------------------------------
(* The steps of recovery keep its invariant.                               *)

\* A book added has the configuration of the engine, and the commands are those
\* of Command's constructors.
Sane ==
    /\ Config \in Configs /\ OwnConfigs \subseteq {Config}
    /\ \A c \in Commands : IsCommand(c)
    /\ MaxCommands \in Nat /\ MaxCrashes \in Nat

\* And no write is cut short.
Setup == Sane /\ Tears = {}

\* An engine that has the books of before a command gets those of after it.
LEMMA TurnAlike ==
    ASSUME Config \in Configs, NEW x, IsIdeal(x), NEW y, NEW c, NEW line, IsTurn(x, y, c, line),
           NEW e, IsEngine(e, Config), NEW out, Alike(e, out, x),
           NEW done, done = Submitted(e, c.sym, c.cmd)
    PROVE  /\ IsEngine(done.engine, Config)
           /\ Alike(done.engine, out \o Printed(done.events), y)
           /\ done.events \in Seq(Tagged) /\ done.events # <<>>
           /\ Parsed(line) = [ok |-> TRUE, sym |-> c.sym, cmd |-> c.cmd]
<1>1. IsCommand(c) /\ line = Written(c.sym, c.cmd) /\ y = Done(x, c)
  BY DEF IsTurn
<1>2. Used(e) = x.engine /\ out = x.egress
  BY DEF Alike
<1>3. /\ IsEngine(done.engine, Config) /\ Used(done.engine) = Done(x, c).engine
      /\ done.events \in Seq(Tagged) /\ done.events # <<>>
      /\ x.egress \o Printed(done.events) = Done(x, c).egress
  <2>1. /\ Config \in Configs /\ IsIdeal(x) /\ IsCommand(c) /\ IsEngine(e, Config)
        /\ Used(e) = x.engine /\ done = Submitted(e, c.sym, c.cmd)
    BY <1>1, <1>2
  <2> QED BY ONLY <2>1, DoneAlike, ZenonT(60)
<1>4. Parsed(line) = [ok |-> TRUE, sym |-> c.sym, cmd |-> c.cmd]
  <2>1. c.sym \in Nat /\ c.cmd \in Constructed
    BY <1>1 DEF IsCommand
  <2> QED BY <1>1, <2>1, ParseInvertsWrite
<1> QED BY <1>1, <1>2, <1>3, <1>4 DEF Alike

LEMMA InitIsSound ==
    ASSUME Sane, Init
    PROVE  RecoveryInv
<1>1. PICK x : x = [engine |-> NewEngine(Config), egress |-> <<>>]
  OBVIOUS
<1>2. ideal = <<x>> /\ ideal[1] = x /\ sent = <<>> /\ Len(sent) = 0 /\ journal = <<>>
  BY <1>1 DEF Init
<1>3. Chronicle(sent, journal, ideal)
  BY <1>1, <1>2, ChronicleBegins DEF Sane
<1>4. IsEngine(NewEngine(Config), Config)
  BY NewIsEngine
<1>5. IsIdeal(x) /\ Latest(sent, ideal) = x
  <2>1. 1 \in 1 .. (0 + 1) /\ 0 + 1 = 1
    OBVIOUS
  <2> QED BY <1>2, <1>3, <2>1 DEF Chronicle, Latest
<1>6. x.egress = <<>> /\ x.engine = NewEngine(Config) /\ Len(x.egress) = 0
  BY <1>1
<1>7. IsPrefix(x.egress, x.egress) /\ x.egress \in Seq(Printable)
  BY <1>5, PrefixFacts DEF IsIdeal
<1>8. Used(NewEngine(Config)) = NewEngine(Config)
  BY <1>5, <1>6 DEF IsIdeal
<1>9. /\ egress = x.egress /\ engine = NewEngine(Config) /\ pending = <<>> /\ pos = 0
      /\ phase = "ready" /\ crashes = 0
      /\ snap.of = NewEngine(Config) /\ snap.file = EngineLines(NewEngine(Config))
      /\ snap.at = 0 /\ snap.mark = 0
  BY <1>6 DEF Init
<1>10. IsSaved(snap, sent, ideal, egress)
  <2>1. 0 \in 0 .. 0 /\ 0 + 1 = 1
    OBVIOUS
  <2> QED BY <1>2, <1>4, <1>6, <1>7, <1>8, <1>9, <2>1 DEF IsSaved
<1>11. IsBeginning(egress, Latest(sent, ideal))
  BY <1>5, <1>7, <1>9 DEF IsBeginning
<1>12. Serving(phase, pending, engine, egress, sent, ideal)
  BY <1>5, <1>6, <1>8, <1>9 DEF Serving, Alike
<1>13. Recovering(phase, pending, engine, egress, snap.at, pos, sent, ideal)
  BY <1>9 DEF Recovering
<1>14. pos \in 0 .. Len(sent) /\ Len(sent) <= MaxCommands /\ crashes \in 0 .. MaxCrashes
  BY <1>2, <1>9 DEF Sane
<1> QED BY <1>3, <1>4, <1>9, <1>10, <1>11, <1>12, <1>13, <1>14 DEF RecoveryInv, Going

LEMMA AddKeeps ==
    ASSUME Sane, RecoveryInv, NEW c \in Commands, NEW cfg \in OwnConfigs, AddOwnSymbol(c.sym, cfg)
    PROVE  RecoveryInv'
<1>1. cfg = Config /\ Config \in Configs /\ c.sym \in Nat
  BY DEF Sane, IsCommand
<1>2. IsEngine(engine', Config) /\ Used(engine') = Used(engine)
  <2>1. engine' = AddSymbol(engine, c.sym, Config) /\ IsEngine(engine, Config)
    BY <1>1 DEF AddOwnSymbol, RecoveryInv
  <2> QED BY <1>1, <2>1, UsedAdd
<1>3. phase = "ready" /\ phase' = "ready"
  BY DEF AddOwnSymbol
<1>4. /\ UNCHANGED <<journal, egress, snap, pending, pos, sent, ideal, crashes>>
  BY DEF AddOwnSymbol, files
<1>5. Serving(phase', pending', engine', egress', sent', ideal')
  BY <1>2, <1>3, <1>4 DEF RecoveryInv, Serving, Alike
<1>6. Recovering(phase', pending', engine', egress', snap.at', pos', sent', ideal')
  BY <1>3 DEF Recovering
<1> QED BY <1>2, <1>3, <1>4, <1>5, <1>6 DEF RecoveryInv

LEMMA RecordKeeps ==
    ASSUME Sane, RecoveryInv, NEW c \in Commands, Record(c)
    PROVE  RecoveryInv'
<1>1. PICK n \in Nat : n = Len(sent) /\ Len(journal) = n /\ Len(ideal) = n + 1
  BY ChronicleFacts DEF RecoveryInv
<1>2. PICK x, y, w : x = ideal[n + 1] /\ y = Done(x, c) /\ w = Written(c.sym, c.cmd)
  OBVIOUS
<1>3. /\ phase = "ready" /\ n < MaxCommands
      /\ journal' = Append(journal, w) /\ sent' = Append(sent, c) /\ ideal' = Append(ideal, y)
      /\ phase' = "recorded"
      /\ UNCHANGED <<egress, snap, engine, pending, pos, crashes>>
  BY <1>1, <1>2 DEF Record, Done
<1>4. Chronicle(sent', journal', ideal')
  <2>1. Chronicle(sent, journal, ideal) /\ IsCommand(c) /\ Config \in Configs
    BY DEF RecoveryInv, Sane
  <2>2. Chronicle(Append(sent, c), Append(journal, Written(c.sym, c.cmd)),
                  Append(ideal, Done(ideal[Len(ideal)], c)))
    BY <2>1, ChronicleGrows
  <2> QED BY <1>1, <1>2, <1>3, <2>2
<1>5. Len(sent') = n + 1 /\ \A i \in 1 .. (n + 1) : ideal'[i] = ideal[i]
  <2>1. IsSeq(sent) /\ IsSeq(ideal)
    BY DEF RecoveryInv, Chronicle
  <2> QED BY <1>1, <1>3, <2>1, Appended
<1>6. Alike(engine, egress, x) /\ pending = <<>>
  BY <1>1, <1>2, <1>3 DEF RecoveryInv, Serving, Latest
<1>7. ideal'[n + 1] = x
  <2>1. n + 1 \in 1 .. (n + 1)
    OBVIOUS
  <2> QED BY <1>2, <1>5, <2>1
<1>8. IsSaved(snap', sent', ideal', egress')
  <2>1. snap.at \in 0 .. n /\ snap.at \in 0 .. (n + 1) /\ snap.at + 1 \in 1 .. (n + 1)
    <3>1. snap.at \in 0 .. n
      BY <1>1 DEF RecoveryInv, IsSaved
    <3> QED BY <3>1
  <2>2. ideal'[snap.at + 1] = ideal[snap.at + 1]
    BY <1>5, <2>1
  <2> QED BY <1>3, <1>5, <2>1, <2>2 DEF RecoveryInv, IsSaved
<1>9. IsBeginning(egress', Latest(sent', ideal'))
  <2>1. n \in 0 .. Len(sent')
    BY <1>5
  <2>2. IsPrefix(ideal'[n + 1].egress, Latest(sent', ideal').egress)
    BY <1>4, <2>1, ChronicleFacts
  <2>3. egress = x.egress /\ egress \in Seq(Printable)
    BY <1>6 DEF RecoveryInv, Alike, IsBeginning
  <2> QED BY <1>3, <1>7, <2>2, <2>3 DEF IsBeginning
<1>10. Serving(phase', pending', engine', egress', sent', ideal')
  BY <1>3, <1>5, <1>6, <1>7 DEF Serving
<1>11. Recovering(phase', pending', engine', egress', snap.at', pos', sent', ideal')
  BY <1>3 DEF Recovering
<1>12. pos' \in 0 .. Len(sent') /\ Len(sent') <= MaxCommands /\ crashes' \in 0 .. MaxCrashes
  <2>1. pos \in 0 .. n /\ MaxCommands \in Nat /\ crashes \in 0 .. MaxCrashes
    BY <1>1 DEF RecoveryInv, Sane
  <2> QED BY <1>3, <1>5, <2>1
<1>13. IsEngine(engine', Config) /\ phase' \in Going
  BY <1>3 DEF RecoveryInv, Going
<1> QED BY <1>4, <1>8, <1>9, <1>10, <1>11, <1>12, <1>13 DEF RecoveryInv

LEMMA SubmitKeeps ==
    ASSUME Sane, RecoveryInv, Submit
    PROVE  RecoveryInv'
<1>1. PICK n \in Nat : n = Len(sent) /\ n > 0
  BY ChronicleFacts DEF RecoveryInv, Submit, Serving
<1>2. PICK c, done : c = sent[n] /\ done = Submitted(engine, c.sym, c.cmd)
  OBVIOUS
<1>3. /\ phase = "recorded" /\ engine' = done.engine /\ pending' = done.events
      /\ phase' = "emitting"
      /\ UNCHANGED <<journal, egress, snap, pos, sent, ideal, crashes>>
  BY <1>1, <1>2 DEF Submit, files
<1>4. n \in 1 .. n /\ n - 1 \in 0 .. n /\ (n - 1) + 1 = n
  BY <1>1
<1>5. IsTurn(ideal[n], ideal[n + 1], c, journal[n]) /\ IsIdeal(ideal[n])
  BY <1>1, <1>2, <1>4, ChronicleFacts DEF RecoveryInv
<1>6. Alike(engine, egress, ideal[n]) /\ IsEngine(engine, Config) /\ Config \in Configs
  BY <1>1, <1>3 DEF RecoveryInv, Serving, Sane
<1>7. /\ IsEngine(done.engine, Config)
      /\ Alike(done.engine, egress \o Printed(done.events), ideal[n + 1])
      /\ done.events \in Seq(Tagged) /\ done.events # <<>>
  BY <1>2, <1>5, <1>6, TurnAlike
<1>8. Serving(phase', pending', engine', egress', sent', ideal')
  BY <1>1, <1>3, <1>7 DEF Serving, Latest
<1>9. Recovering(phase', pending', engine', egress', snap.at', pos', sent', ideal')
  BY <1>3 DEF Recovering
<1> QED BY <1>3, <1>7, <1>8, <1>9 DEF RecoveryInv, Going

LEMMA NoneIsEmpty ==
    ASSUME NEW S, NEW q \in Seq(S)
    PROVE  Len(q) = 0 <=> q = <<>>
<1>1. <<>> \in Seq(S) /\ Len(<<>>) = 0
  OBVIOUS
<1>2. ASSUME Len(q) = 0 PROVE q = <<>>
  BY <1>2
<1> QED BY <1>1, <1>2

LEMMA DeliverKeeps ==
    ASSUME Sane, RecoveryInv, Deliver
    PROVE  RecoveryInv'
<1>1. PICK p \in Seq(Tagged) : p = pending /\ p # <<>>
  BY DEF RecoveryInv, Deliver, Serving
<1>2. PICK h \in Seq(Printable), t \in Seq(Printable) :
        h = Printed(<<Head(p)>>) /\ t = Printed(Tail(p)) /\ h \o t = Printed(p)
  BY <1>1, PrintedSplits
<1>3. /\ phase = "emitting" /\ egress' = egress \o h /\ pending' = Tail(p)
      /\ phase' = (IF Len(p) = 1 THEN "ready" ELSE "emitting")
      /\ UNCHANGED <<journal, snap, engine, pos, sent, ideal, crashes>>
  BY <1>1, <1>2 DEF Deliver
<1>4. PICK o \in Seq(Printable) : o = egress
  BY DEF RecoveryInv, IsBeginning
<1>5. PICK z \in Seq(Printable) : z = o \o h
  BY ConcatFacts
<1>6. z \o t = o \o Printed(p)
  <2>1. (o \o h) \o t = o \o (h \o t)
    BY ConcatAssociative
  <2> QED BY <1>2, <1>5, <2>1
<1>7. egress' = z /\ IsPrefix(o, z) /\ IsPrefix(z, z \o t)
  BY <1>3, <1>4, <1>5, PrefixFacts
<1>8. PICK x : x = Latest(sent, ideal) /\ IsIdeal(x)
  BY ChronicleFacts DEF RecoveryInv
<1>9. Used(engine) = x.engine /\ z \o t = x.egress
  <2>1. Alike(engine, egress \o Printed(pending), x)
    BY <1>3, <1>8 DEF RecoveryInv, Serving
  <2> QED BY <1>1, <1>4, <1>6, <2>1 DEF Alike
<1>10. /\ Tail(p) \in Seq(Tagged) /\ Len(Tail(p)) = Len(p) - 1 /\ Len(p) \in Nat \ {0}
  BY <1>1, PrintedSplits
<1>11. Serving(phase', pending', engine', egress', sent', ideal')
  <2>1. CASE Len(p) = 1
    <3>1. Len(Tail(p)) = 0
      BY <1>10, <2>1
    <3>2. Len(t) = 0
      BY <1>2, <1>10, <3>1, PrintedFacts
    <3>3. z \o t = z
      BY <3>2
    <3>4. Tail(p) = <<>>
      BY <1>10, <3>1, NoneIsEmpty
    <3> QED BY <1>3, <1>7, <1>8, <1>9, <2>1, <3>3, <3>4 DEF Serving, Alike
  <2>2. CASE Len(p) # 1
    <3>1. Tail(p) # <<>>
      <4>1. Len(Tail(p)) # 0
        BY <1>10, <2>2
      <4> QED BY <1>10, <4>1, NoneIsEmpty
    <3> QED BY <1>2, <1>3, <1>7, <1>8, <1>9, <1>10, <2>2, <3>1 DEF Serving, Alike
  <2> QED BY <2>1, <2>2
<1>12. Recovering(phase', pending', engine', egress', snap.at', pos', sent', ideal')
  BY <1>3 DEF Recovering
<1>13. IsSaved(snap', sent', ideal', egress')
  <2>1. PICK k \in 0 .. Len(sent) : k = snap.at
    BY DEF RecoveryInv, IsSaved
  <2>2. PICK q \in Seq(Printable) : q = ideal[snap.at + 1].egress
    BY <2>1, ChronicleFacts DEF RecoveryInv, IsIdeal
  <2>3. IsPrefix(q, o)
    BY <1>4, <2>2 DEF RecoveryInv, IsSaved
  <2>4. IsPrefix(q, z)
    BY <1>7, <2>3, PrefixFacts
  <2> QED BY <1>3, <1>7, <2>2, <2>4 DEF RecoveryInv, IsSaved
<1>14. IsBeginning(egress', Latest(sent', ideal'))
  BY <1>3, <1>7, <1>8, <1>9 DEF IsBeginning, Latest
<1>15. phase' \in Going
  BY <1>3 DEF Going
<1> QED BY <1>3, <1>11, <1>12, <1>13, <1>14, <1>15 DEF RecoveryInv

LEMMA SnapshotKeeps ==
    ASSUME Sane, RecoveryInv, TakeSnapshot
    PROVE  RecoveryInv'
<1>1. PICK n \in Nat : n = Len(sent) /\ Len(journal) = n
  BY ChronicleFacts DEF RecoveryInv
<1>2. /\ phase = "ready" /\ phase' = "ready"
      /\ UNCHANGED <<journal, egress, engine, pending, pos, sent, ideal, crashes>>
      /\ snap'.file = EngineLines(engine) /\ snap'.at = n
      /\ snap'.mark = Len(egress) /\ snap'.of = engine
  BY <1>1 DEF TakeSnapshot
<1>3. Alike(engine, egress, ideal[n + 1])
  BY <1>1, <1>2 DEF RecoveryInv, Serving, Latest
<1>4. IsPrefix(egress, egress)
  BY PrefixFacts DEF RecoveryInv, IsBeginning
<1>5. IsSaved(snap', sent', ideal', egress')
  <2>1. n \in 0 .. n
    OBVIOUS
  <2> QED BY <1>1, <1>2, <1>3, <1>4, <2>1 DEF RecoveryInv, IsSaved, Alike
<1>6. Serving(phase', pending', engine', egress', sent', ideal')
  BY <1>2 DEF RecoveryInv, Serving
<1>7. Recovering(phase', pending', engine', egress', snap.at', pos', sent', ideal')
  BY <1>2 DEF Recovering
<1> QED BY <1>2, <1>5, <1>6, <1>7 DEF RecoveryInv

LEMMA CrashKeeps ==
    ASSUME Sane, RecoveryInv, Crash
    PROVE  RecoveryInv'
<1>1. /\ phase' = "down" /\ pending' = <<>> /\ crashes' = crashes + 1 /\ crashes < MaxCrashes
      /\ UNCHANGED <<journal, egress, snap, engine, pos, sent, ideal>>
  BY DEF Crash, GoDown
<1>2. crashes' \in 0 .. MaxCrashes
  BY <1>1 DEF RecoveryInv, Sane
<1>3. Serving(phase', pending', engine', egress', sent', ideal')
  BY <1>1 DEF Serving
<1>4. Recovering(phase', pending', engine', egress', snap.at', pos', sent', ideal')
  BY <1>1 DEF Recovering
<1> QED BY <1>1, <1>2, <1>3, <1>4 DEF RecoveryInv, Going

\* Recovery begins with the engine the snapshot was taken of.
LEMMA RestartKeeps ==
    ASSUME Sane, RecoveryInv, Restart
    PROVE  RecoveryInv'
<1>1. PICK n \in Nat, k \in Nat : n = Len(sent) /\ k = snap.at /\ k \in 0 .. n
  <2>1. Len(sent) \in Nat /\ snap.at \in 0 .. Len(sent)
    BY ChronicleFacts DEF RecoveryInv, IsSaved
  <2> QED BY <2>1
<1>2. /\ phase' = "replaying" /\ pos' = k
      /\ engine' = RestoreEngine(Parse(snap.file)) /\ egress' = SubSeq(egress, 1, snap.mark)
      /\ UNCHANGED <<journal, snap, pending, sent, ideal, crashes>> /\ phase = "down"
  BY <1>1 DEF Restart
<1>3. engine' = snap.of /\ IsEngine(snap.of, Config)
  <2>1. IsEngine(snap.of, Config) /\ snap.file = EngineLines(snap.of) /\ Config \in Configs
    BY DEF RecoveryInv, IsSaved, Sane
  <2>2. RestoreEngine(Parse(EngineLines(snap.of))) = snap.of
    BY <2>1, SnapshotRestores
  <2> QED BY <1>2, <2>1, <2>2
<1>4. PICK x : x = ideal[k + 1] /\ IsIdeal(x) /\ IsPrefix(x.egress, Latest(sent, ideal).egress)
  BY <1>1, ChronicleFacts DEF RecoveryInv
<1>5. PICK q \in Seq(Printable) : q = x.egress
  BY <1>4 DEF IsIdeal
<1>6. egress' = q
  <2>1. IsPrefix(q, egress) /\ snap.mark = Len(q) /\ egress \in Seq(Printable)
    BY <1>1, <1>4, <1>5 DEF RecoveryInv, IsSaved, IsBeginning
  <2> QED BY <1>2, <2>1, PrefixIsCut
<1>7. Alike(engine', egress', x)
  BY <1>1, <1>3, <1>4, <1>5, <1>6 DEF RecoveryInv, IsSaved, Alike
<1>8. IsPrefix(q, q)
  BY PrefixFacts
<1>9. IsSaved(snap', sent', ideal', egress')
  BY <1>1, <1>2, <1>4, <1>5, <1>6, <1>8 DEF RecoveryInv, IsSaved
<1>10. IsBeginning(egress', Latest(sent', ideal'))
  BY <1>2, <1>4, <1>5, <1>6 DEF IsBeginning, Latest
<1>11. Serving(phase', pending', engine', egress', sent', ideal')
  BY <1>2 DEF Serving
<1>12. Recovering(phase', pending', engine', egress', snap.at', pos', sent', ideal')
  <2>1. pending = <<>> /\ k \in k .. n
    BY <1>1, <1>2 DEF RecoveryInv, Recovering
  <2> QED BY <1>1, <1>2, <1>4, <1>7, <2>1 DEF Recovering
<1>13. pos' \in 0 .. Len(sent')
  BY <1>1, <1>2
<1>14. IsEngine(engine', Config) /\ phase' \in Going
  BY <1>2, <1>3 DEF Going
<1> QED BY <1>2, <1>9, <1>10, <1>11, <1>12, <1>13, <1>14 DEF RecoveryInv

\* What a line of the journal is read as, and what it does.
LEMMA LineIsReplayed ==
    ASSUME Sane, RecoveryInv, phase = "replaying", pos < Len(journal)
    PROVE  \E c, done :
             /\ pos + 1 \in 1 .. Len(sent) /\ c = sent[pos + 1] /\ c \in Commands
             /\ Parsed(journal[pos + 1]) = [ok |-> TRUE, sym |-> c.sym, cmd |-> c.cmd]
             /\ done = Submitted(engine, c.sym, c.cmd)
             /\ IsEngine(done.engine, Config)
             /\ Alike(done.engine, egress \o Printed(done.events), ideal[pos + 2])
<1>1. PICK n \in Nat, k \in Nat : n = Len(sent) /\ n = Len(journal) /\ k = pos /\ k \in 0 .. n
  <2>1. Len(sent) \in Nat /\ pos \in 0 .. Len(sent) /\ Len(journal) = Len(sent)
    BY ChronicleFacts DEF RecoveryInv
  <2> QED BY <2>1
<1>2. k + 1 \in 1 .. n /\ (k + 1) + 1 = k + 2
  <2>1. k < n
    BY <1>1
  <2> QED BY <1>1, <2>1
<1>3. PICK c, done : c = sent[k + 1] /\ done = Submitted(engine, c.sym, c.cmd)
  OBVIOUS
<1>4. PICK x, y, line : x = ideal[k + 1] /\ y = ideal[k + 2] /\ line = journal[k + 1]
  OBVIOUS
<1>5. IsTurn(x, y, c, line)
  <2>1. \A i \in 1 .. n : IsTurn(ideal[i], ideal[i + 1], sent[i], journal[i])
    BY <1>1, ChronicleFacts DEF RecoveryInv
  <2>2. IsTurn(ideal[k + 1], ideal[(k + 1) + 1], sent[k + 1], journal[k + 1])
    BY <1>2, <2>1
  <2> QED BY <1>2, <1>3, <1>4, <2>2
<1>6. IsIdeal(x) /\ c \in Commands
  <2>1. \A i \in 0 .. n : IsIdeal(ideal[i + 1])
    BY <1>1, ChronicleFacts DEF RecoveryInv
  <2>2. \A i \in 1 .. n : sent[i] \in Commands
    BY <1>1 DEF RecoveryInv, Chronicle
  <2> QED BY <1>1, <1>2, <1>3, <1>4, <2>1, <2>2
<1>7. Alike(engine, egress, x) /\ IsEngine(engine, Config) /\ Config \in Configs
  BY <1>1, <1>4 DEF RecoveryInv, Recovering, Sane
<1>8. /\ IsEngine(done.engine, Config)
      /\ Alike(done.engine, egress \o Printed(done.events), y)
      /\ Parsed(line) = [ok |-> TRUE, sym |-> c.sym, cmd |-> c.cmd]
  BY <1>3, <1>5, <1>6, <1>7, TurnAlike
<1> QED BY <1>1, <1>2, <1>3, <1>4, <1>6, <1>8

LEMMA ReplayKeeps ==
    ASSUME Sane, RecoveryInv, ReplayLine
    PROVE  RecoveryInv'
<1>1. PICK n \in Nat, k \in Nat, m \in Nat :
        /\ n = Len(sent) /\ n = Len(journal) /\ k = pos /\ k < n
        /\ m = snap.at /\ m <= k
  <2>1. Len(sent) \in Nat /\ pos \in 0 .. Len(sent) /\ Len(journal) = Len(sent)
    BY ChronicleFacts DEF RecoveryInv
  <2>2. pos \in snap.at .. Len(sent) /\ snap.at \in 0 .. Len(sent)
    BY DEF ReplayLine, RecoveryInv, Recovering, IsSaved
  <2>3. pos < Len(journal)
    BY DEF ReplayLine
  <2> QED BY <2>1, <2>2, <2>3
<1>2. PICK c, done :
        /\ Parsed(journal[k + 1]) = [ok |-> TRUE, sym |-> c.sym, cmd |-> c.cmd]
        /\ done = Submitted(engine, c.sym, c.cmd)
        /\ IsEngine(done.engine, Config)
        /\ Alike(done.engine, egress \o Printed(done.events), ideal[k + 2])
  <2>1. phase = "replaying" /\ pos < Len(journal)
    BY DEF ReplayLine
  <2> QED BY <1>1, <2>1, LineIsReplayed
<1>3. /\ engine' = done.engine /\ egress' = egress \o Printed(done.events)
      /\ pos' = k + 1 /\ phase = "replaying" /\ phase' = "replaying"
      /\ UNCHANGED <<journal, snap, pending, sent, ideal, crashes>>
  <2>1. PICK read : read = Parsed(journal[k + 1]) /\ read.sym = c.sym /\ read.cmd = c.cmd
    BY <1>2
  <2>2. \E d \in {Submitted(engine, read.sym, read.cmd)} :
           engine' = d.engine /\ egress' = egress \o Printed(d.events)
    BY <1>1, <2>1 DEF ReplayLine
  <2>3. engine' = done.engine /\ egress' = egress \o Printed(done.events)
    BY <1>2, <2>1, <2>2
  <2> QED BY <1>1, <2>3 DEF ReplayLine
<1>4. k + 1 \in 0 .. n /\ k + 1 \in m .. n /\ (k + 1) + 1 = k + 2 /\ m <= k + 1
  BY <1>1
<1>5. PICK x : x = ideal[k + 2] /\ IsIdeal(x) /\ IsPrefix(x.egress, Latest(sent, ideal).egress)
               /\ IsPrefix(ideal[m + 1].egress, x.egress)
  <2>1. /\ \A i \in 0 .. n : IsIdeal(ideal[i + 1])
        /\ \A i \in 0 .. n : IsPrefix(ideal[i + 1].egress, Latest(sent, ideal).egress)
        /\ \A i, j \in 0 .. n : i <= j => IsPrefix(ideal[i + 1].egress, ideal[j + 1].egress)
    BY <1>1, ChronicleFacts DEF RecoveryInv
  <2> QED BY <1>4, <2>1
<1>6. Alike(engine', egress', x)
  BY <1>2, <1>3, <1>5
<1>7. egress' = x.egress /\ egress' \in Seq(Printable)
  BY <1>5, <1>6 DEF Alike, IsIdeal
<1>8. IsSaved(snap', sent', ideal', egress')
  BY <1>1, <1>3, <1>5, <1>7 DEF RecoveryInv, IsSaved
<1>9. IsBeginning(egress', Latest(sent', ideal'))
  BY <1>3, <1>5, <1>7 DEF IsBeginning, Latest
<1>10. Serving(phase', pending', engine', egress', sent', ideal')
  BY <1>3 DEF Serving
<1>11. Recovering(phase', pending', engine', egress', snap.at', pos', sent', ideal')
  <2>1. pending = <<>>
    BY <1>3 DEF RecoveryInv, Recovering
  <2> QED BY <1>1, <1>3, <1>4, <1>5, <1>6, <2>1 DEF Recovering
<1>12. pos' \in 0 .. Len(sent')
  BY <1>1, <1>3, <1>4
<1>13. IsEngine(engine', Config) /\ phase' \in Going
  BY <1>2, <1>3 DEF Going
<1> QED BY <1>3, <1>8, <1>9, <1>10, <1>11, <1>12, <1>13 DEF RecoveryInv

\* No line of the journal is refused.
LEMMA NothingIsRefused ==
    ASSUME Sane, RecoveryInv
    PROVE  ~Refuse
<1> SUFFICES ASSUME Refuse PROVE FALSE
  OBVIOUS
<1>1. phase = "replaying" /\ pos < Len(journal) /\ ~Parsed(journal[pos + 1]).ok
  BY DEF Refuse
<1>2. PICK c : Parsed(journal[pos + 1]) = [ok |-> TRUE, sym |-> c.sym, cmd |-> c.cmd]
  BY <1>1, LineIsReplayed
<1> QED BY <1>1, <1>2

LEMMA ResumeKeeps ==
    ASSUME Sane, RecoveryInv, Resume
    PROVE  RecoveryInv'
<1>1. /\ phase = "replaying" /\ phase' = "ready" /\ pos = Len(sent)
      /\ UNCHANGED <<journal, egress, snap, engine, pending, pos, sent, ideal, crashes>>
  BY ChronicleFacts DEF Resume, files, RecoveryInv
<1>2. Serving(phase', pending', engine', egress', sent', ideal')
  BY <1>1 DEF RecoveryInv, Recovering, Serving, Latest
<1>3. Recovering(phase', pending', engine', egress', snap.at', pos', sent', ideal')
  BY <1>1 DEF Recovering
<1> QED BY <1>1, <1>2, <1>3 DEF RecoveryInv, Going

\* A step that cuts no write short.
LEMMA StepKeeps ==
    ASSUME Sane, RecoveryInv, [Next]_vars, ~CrashWhileSaving,
           \A c \in Commands : ~CrashWhileRecording(c)
    PROVE  RecoveryInv'
<1>1. CASE UNCHANGED vars
  BY <1>1 DEF RecoveryInv, vars, files
<1>2. CASE Recover
  BY <1>2, RestartKeeps, ReplayKeeps, NothingIsRefused, ResumeKeeps DEF Recover
<1> QED BY <1>1, <1>2, RecordKeeps, AddKeeps, SubmitKeeps, DeliverKeeps,
           SnapshotKeeps, CrashKeeps DEF Next

LEMMA NextKeeps ==
    ASSUME Setup, RecoveryInv, [Next]_vars
    PROVE  RecoveryInv'
<1>1. ~CrashWhileSaving /\ \A c \in Commands : ~CrashWhileRecording(c)
  BY DEF CrashWhileSaving, CrashWhileRecording, Setup
<1> QED BY <1>1, StepKeeps DEF Setup

\* The invariant of recovery: the journal is the run without a crash, line by
\* line, and the snapshot, the engine and the event journal are all at a place
\* of it that the phase tells (Recovery.Spec).
THEOREM RecoveryHolds ==
    ASSUME Setup
    PROVE  Spec => []RecoveryInv
<1>1. Init => RecoveryInv
  BY InitIsSound DEF Setup
<1>2. RecoveryInv /\ [Next]_vars => RecoveryInv'
  BY NextKeeps
<1> QED BY <1>1, <1>2, PTL DEF Spec

----------------------------------------------------------------------------
(* What recovery promises.                                                 *)

\* The model's own shape (TypeOK of Recovery).
THEOREM RecoveryTypeOK ==
    ASSUME Setup
    PROVE  Spec => []TypeOK
<1>1. ASSUME RecoveryInv
      PROVE  TypeOK
  <2>1. /\ Len(sent) \in Nat /\ Len(journal) = Len(sent) /\ sent \in Seq(Commands)
        /\ snap.at \in 0 .. Len(sent) /\ pos \in 0 .. Len(sent)
    BY <1>1, ChronicleFacts DEF RecoveryInv, IsSaved
  <2>2. snap.mark <= Len(egress)
    <3>1. PICK q : q = ideal[snap.at + 1].egress /\ q \in Seq(Printable)
      BY <1>1, <2>1, ChronicleFacts DEF RecoveryInv, IsIdeal
    <3>2. IsPrefix(q, egress) /\ snap.mark = Len(q) /\ egress \in Seq(Printable)
      BY <1>1, <3>1 DEF RecoveryInv, IsSaved, IsBeginning
    <3> QED BY <3>1, <3>2, PrefixIsCut
  <2>3. phase \in Phases /\ (pending # <<>> <=> phase = "emitting")
    BY <1>1 DEF RecoveryInv, Serving, Recovering, Going, Phases
  <2>4. Len(sent) <= MaxCommands /\ crashes \in 0 .. MaxCrashes
    BY <1>1 DEF RecoveryInv
  <2> QED BY <2>1, <2>2, <2>3, <2>4 DEF TypeOK
<1> QED BY <1>1, RecoveryHolds, PTL

\* Whenever the engine serves, its books and their numbering are those of a run
\* without a crash, whatever crashes there were (recover() of
\* bench/matcherrecover.cpp, restore_engine() and the journal's replay).
THEOREM RecoversTheRun ==
    ASSUME Setup
    PROVE  Spec => []RecoversUninterrupted
<1>1. ASSUME RecoveryInv
      PROVE  RecoversUninterrupted
  <2>1. WithoutCrash = Latest(sent, ideal)
    BY <1>1, ChronicleFacts DEF RecoveryInv, WithoutCrash
  <2> QED BY <1>1, <2>1 DEF RecoveryInv, Serving, Alike, RecoversUninterrupted
<1> QED BY <1>1, RecoveryHolds, PTL

\* The event journal is always a beginning of what a run without a crash
\* prints, and all of it when the engine serves.
THEOREM RecoversTheEvents ==
    ASSUME Setup
    PROVE  Spec => []EventsAreRepeated
<1>1. ASSUME RecoveryInv
      PROVE  EventsAreRepeated
  <2>1. WithoutCrash = Latest(sent, ideal)
    BY <1>1, ChronicleFacts DEF RecoveryInv, WithoutCrash
  <2>2. IsPrefix(egress, WithoutCrash.egress)
    BY <1>1, <2>1 DEF RecoveryInv, IsBeginning
  <2>3. phase = "ready" => egress = WithoutCrash.egress
    BY <1>1, <2>1 DEF RecoveryInv, Serving, Alike
  <2> QED BY <2>2, <2>3 DEF EventsAreRepeated
<1> QED BY <1>1, RecoveryHolds, PTL

\* The events of each symbol in the event journal are numbered 1, 2, 3, ...,
\* whatever crashes and snapshots came between (submit_tagged() of engine.hpp,
\* the numbers of restore()).
THEOREM RecoveryKeepsNumbers ==
    ASSUME Setup
    PROVE  Spec => []NumbersAreDense
<1>1. ASSUME RecoveryInv
      PROVE  NumbersAreDense
  <2>1. PICK x : x = Latest(sent, ideal) /\ IsIdeal(x)
    BY <1>1, ChronicleFacts DEF RecoveryInv
  <2>2. PICK o \in Seq(Printable), t \in Seq(Printable) : o = egress /\ t = x.egress /\ Dense(t)
    BY <1>1, <2>1 DEF RecoveryInv, IsBeginning, IsIdeal, Numbered
  <2>3. IsPrefix(o, t)
    BY <1>1, <2>1, <2>2 DEF RecoveryInv, IsBeginning
  <2>4. Dense(o) /\ DOMAIN o = 1 .. Len(o)
    BY <2>2, <2>3, DenseBegins
  <2> QED BY <2>2, <2>4 DEF Dense, Named, NumbersAreDense
<1> QED BY <1>1, RecoveryHolds, PTL

\* A snapshot of the engine that serves is restored to that engine.
THEOREM ServingRoundTrips ==
    ASSUME Setup
    PROVE  Spec => []RoundTrips
<1>1. ASSUME RecoveryInv
      PROVE  RoundTrips
  <2>1. IsEngine(engine, Config) /\ Config \in Configs
    BY <1>1 DEF RecoveryInv, Setup, Sane
  <2>2. RestoreEngine(Parse(EngineLines(engine))) = engine
    BY <2>1, SnapshotRestores
  <2> QED BY <2>2 DEF RoundTrips
<1> QED BY <1>1, RecoveryHolds, PTL

\* What add_symbol() does to the books there are: nothing.
LEMMA AddKeepsBooks ==
    ASSUME NEW cfg, NEW e, IsEngine(e, cfg), NEW sym
    PROVE  \A s \in DOMAIN e.books :
             /\ s \in DOMAIN AddSymbol(e, sym, cfg).books
             /\ AddSymbol(e, sym, cfg).books[s] = e.books[s]
<1>1. AddSymbol(e, sym, cfg) = WithBook(e, sym, BookAt(e, sym))
  BY AddIsWithBook
<1>2. PICK f, b : f = e.books /\ b = BookAt(e, sym)
  OBVIOUS
<1>3. AddSymbol(e, sym, cfg).books = With(f, sym, b)
  BY <1>1, <1>2 DEF WithBook
<1>4. sym \in DOMAIN f => b = f[sym]
  BY <1>2 DEF BookAt
<1>5. \A s \in DOMAIN f : s \in DOMAIN With(f, sym, b) /\ With(f, sym, b)[s] = f[s]
  BY <1>4 DEF With
<1> QED BY <1>2, <1>3, <1>5

\* What a command does to them: its own gets events, with their numbers.
LEMMA SubmitKeepsBooks ==
    ASSUME NEW cfg \in Configs, NEW e, IsEngine(e, cfg), NEW sym \in Nat, NEW c \in Readable
    PROVE  \A s \in DOMAIN e.books :
             /\ s \in DOMAIN Submitted(e, sym, c).engine.books
             /\ Submitted(e, sym, c).engine.books[s].cfg = e.books[s].cfg
             /\ Submitted(e, sym, c).engine.books[s].seq >= e.books[s].seq
<1>1. PICK b \in BooksOf(cfg) : b = BookAt(e, sym)
  BY BookAtFacts
<1>2. PICK g : g = Submitted(e, sym, c).engine.books /\ g = With(e.books, sym, BookAfter(b, c))
  <2>1. IsSubmitted(e, sym, c, b)
    BY <1>1, SubmittedIs
  <2> QED BY <2>1 DEF IsSubmitted, WithBook
<1>3. /\ BookAfter(b, c).cfg = b.cfg /\ BookAfter(b, c).seq > b.seq
      /\ BookAfter(b, c).seq \in Nat /\ b.seq \in Nat
  <2>1. BookAfter(b, c) \in BooksOf(cfg) /\ BookAfter(b, c).seq > b.seq
    BY BookAfterFacts
  <2> QED BY <2>1, BookFacts
<1>4. SUFFICES ASSUME NEW s \in DOMAIN e.books
               PROVE  s \in DOMAIN g /\ g[s].cfg = e.books[s].cfg /\ g[s].seq >= e.books[s].seq
  BY <1>2
<1>5. PICK S \in SUBSET Nat : DOMAIN e.books = S /\ e.books \in [S -> BooksOf(cfg)]
  BY EngineFacts
<1>6. e.books[s].seq \in Nat
  BY <1>4, <1>5, BookFacts
<1>7. s \in DOMAIN g /\ g[s] = (IF s = sym THEN BookAfter(b, c) ELSE e.books[s])
  BY <1>2, <1>4 DEF With
<1>8. s = sym => b = e.books[s]
  BY <1>1, <1>4 DEF BookAt
<1> QED BY <1>3, <1>6, <1>7, <1>8

\* No book that is in memory is made anew by serving: add_symbol() does not
\* touch it, and a command only adds to its numbers (engine.hpp).
THEOREM ServingKeepsBooks ==
    ASSUME Setup
    PROVE  Spec => BooksAreKept
<1>1. ASSUME RecoveryInv, [Next]_vars
      PROVE  [BookIsKept]_vars
  <2> SUFFICES ASSUME phase' \notin {"down", "replaying"}
               PROVE  BookIsKept \/ UNCHANGED vars
    BY DEF BookIsKept
  <2>1. IsEngine(engine, Config) /\ Config \in Configs
    BY <1>1 DEF RecoveryInv, Setup, Sane
  <2>2. PICK S \in SUBSET Nat : DOMAIN engine.books = S /\ engine.books \in [S -> BooksOf(Config)]
    BY <2>1, EngineFacts
  <2>3. \A s \in DOMAIN engine.books : engine.books[s].seq \in Nat
    BY <2>2, BookFacts
  <2>4. CASE engine' = engine
    <3>1. \A s \in DOMAIN engine.books : engine.books[s].seq >= engine.books[s].seq
      BY <2>3
    <3> QED BY <2>4, <3>1 DEF BookIsKept
  <2>5. ASSUME NEW c \in Commands, NEW cfg \in OwnConfigs, AddOwnSymbol(c.sym, cfg)
        PROVE  BookIsKept
    <3>1. engine' = AddSymbol(engine, c.sym, Config)
      BY <2>5 DEF AddOwnSymbol, Setup, Sane
    <3>2. \A s \in DOMAIN engine.books :
             s \in DOMAIN engine'.books /\ engine'.books[s] = engine.books[s]
      BY <2>1, <3>1, AddKeepsBooks
    <3>3. \A s \in DOMAIN engine.books : engine'.books[s].seq >= engine.books[s].seq
      BY <2>3, <3>2
    <3> QED BY <3>2, <3>3 DEF BookIsKept
  <2>6. CASE Submit
    <3>1. PICK c : engine' = Submitted(engine, c.sym, c.cmd).engine /\ c = sent[Len(sent)]
      BY <2>6 DEF Submit
    <3>2. IsCommand(c)
      <4>1. PICK n \in Nat : n = Len(sent) /\ n > 0
        BY <1>1, <2>6, ChronicleFacts DEF RecoveryInv, Submit, Serving
      <4>2. n \in 1 .. n
        BY <4>1
      <4>3. c \in Commands
        BY <1>1, <3>1, <4>1, <4>2 DEF RecoveryInv, Chronicle
      <4> QED BY <4>3 DEF Setup, Sane
    <3>3. c.sym \in Nat /\ c.cmd \in Readable
      BY <3>2, ConstructedIsReadable DEF IsCommand
    <3> QED BY <2>1, <3>1, <3>3, SubmitKeepsBooks DEF BookIsKept
  <2>7. CASE Recover
    BY <1>1, <2>4, <2>7, NothingIsRefused DEF Recover, Restart, ReplayLine, Resume, Setup
  <2>8. ASSUME NEW c \in Commands, Record(c) \/ CrashWhileRecording(c)
        PROVE  engine' = engine
    BY <2>8 DEF Record, CrashWhileRecording, GoDown
  <2>9. CASE Deliver \/ TakeSnapshot \/ Crash \/ CrashWhileSaving
    BY <2>4, <2>9 DEF Deliver, TakeSnapshot, Crash, CrashWhileSaving, GoDown
  <2> QED BY <1>1, <2>4, <2>5, <2>6, <2>7, <2>8, <2>9 DEF Next
<1> QED BY <1>1, RecoveryHolds, PTL DEF Spec, BooksAreKept

----------------------------------------------------------------------------
(* The durable log.                                                        *)

\* The engines of the run without a crash.
EnginesOf(idl) == [i \in DOMAIN idl |-> idl[i].engine]

LEMMA EnginesGrow ==
    ASSUME NEW idl, IsSeq(idl), NEW y
    PROVE  /\ EnginesOf(Append(idl, y)) = Append(EnginesOf(idl), y.engine)
           /\ Len(EnginesOf(idl)) = Len(idl)
           /\ \A i \in 1 .. Len(idl) : EnginesOf(idl)[i] = idl[i].engine
<1>1. PICK n \in Nat : n = Len(idl) /\ DOMAIN idl = 1 .. n
  BY DEF IsSeq
<1>2. PICK d : d = Append(idl, y)
  OBVIOUS
<1>3. IsSeq(d) /\ Len(d) = n + 1 /\ d[n + 1] = y /\ \A i \in 1 .. n : d[i] = idl[i]
  BY <1>1, <1>2, Appended
<1>4. DOMAIN d = 1 .. (n + 1)
  BY <1>3 DEF IsSeq
<1>5. EnginesOf(idl) = [i \in 1 .. n |-> idl[i].engine]
  BY <1>1 DEF EnginesOf
<1>6. EnginesOf(d) = [i \in 1 .. (n + 1) |-> d[i].engine]
  BY <1>4 DEF EnginesOf
<1>7. PICK f, g : f = EnginesOf(idl) /\ g = EnginesOf(d)
  OBVIOUS
<1>8. IsSeq(f) /\ Len(f) = n /\ \A i \in 1 .. n : f[i] = idl[i].engine
  <2>1. f = [i \in 1 .. n |-> idl[i].engine]
    BY <1>5, <1>7
  <2>2. PICK T : T = {f[i] : i \in DOMAIN f}
    OBVIOUS
  <2>3. DOMAIN f = 1 .. n /\ \A i \in 1 .. n : f[i] \in T
    BY <2>1, <2>2
  <2>4. f \in Seq(T) /\ Len(f) = n
    BY <2>1, <2>3
  <2> QED BY <2>1, <2>2, <2>4 DEF IsSeq
<1>9. PICK h : h = Append(f, y.engine)
  OBVIOUS
<1>10. IsSeq(h) /\ Len(h) = n + 1 /\ h[n + 1] = y.engine /\ \A i \in 1 .. n : h[i] = f[i]
  BY <1>8, <1>9, Appended
<1>11. IsSeq(g) /\ Len(g) = n + 1 /\ \A i \in 1 .. (n + 1) : g[i] = d[i].engine
  <2>1. g = [i \in 1 .. (n + 1) |-> d[i].engine]
    BY <1>6, <1>7
  <2>2. PICK T : T = {g[i] : i \in DOMAIN g}
    OBVIOUS
  <2>3. DOMAIN g = 1 .. (n + 1) /\ \A i \in 1 .. (n + 1) : g[i] \in T
    BY <2>1, <2>2
  <2>4. g \in Seq(T) /\ Len(g) = n + 1
    BY <2>1, <2>3
  <2> QED BY <2>1, <2>2, <2>4 DEF IsSeq
<1>12. ASSUME NEW i \in 1 .. (n + 1)
       PROVE  g[i] = h[i]
  <2>1. i \in 1 .. n \/ i = n + 1
    OBVIOUS
  <2> QED BY <1>3, <1>8, <1>10, <1>11, <2>1
<1>13. g = h
  BY <1>10, <1>11, <1>12 DEF IsSeq
<1> QED BY <1>1, <1>2, <1>7, <1>8, <1>9, <1>13

LEMMA BeginsAsDurableLog ==
    ASSUME Setup, Init
    PROVE  Durable!Init
<1>1. RecoveryInv
  BY InitIsSound DEF Setup
<1>2. PICK x : x = [engine |-> NewEngine(Config), egress |-> <<>>] /\ ideal = <<x>>
  BY DEF Init
<1>3. EnginesOf(ideal) = <<NewEngine(Config)>>
  <2>1. EnginesOf(<<x>>) = <<x.engine>>
    BY DEF EnginesOf
  <2> QED BY <1>2, <2>1
<1>4. Used(NewEngine(Config)) = NewEngine(Config)
  <2>1. 1 \in 1 .. (0 + 1) /\ Len(sent) = 0 /\ ideal[1] = x
    BY <1>2 DEF Init
  <2>2. IsIdeal(x)
    BY <1>1, <2>1 DEF RecoveryInv, Chronicle
  <2> QED BY <1>2, <2>2 DEF IsIdeal
<1>5. /\ sent = <<>> /\ engine = NewEngine(Config) /\ snap.of = NewEngine(Config) /\ snap.at = 0
      /\ pos = 0 /\ phase = "ready"
  BY DEF Init
<1> QED BY <1>3, <1>4, <1>5 DEF Durable!Init, EnginesOf

LEMMA RecordIsDurable ==
    ASSUME Setup, RecoveryInv, NEW c \in Commands, Record(c)
    PROVE  Durable!Record(c)
<1>1. PICK n \in Nat : n = Len(sent) /\ Len(ideal) = n + 1
  BY ChronicleFacts DEF RecoveryInv
<1>2. PICK x, y : x = ideal[n + 1] /\ y = Submitted(x.engine, c.sym, c.cmd).engine
  OBVIOUS
<1>30. PICK z : z = [engine |-> y,
                    egress |-> x.egress \o Printed(Submitted(x.engine, c.sym, c.cmd).events)]
  OBVIOUS
<1>3. ideal' = Append(ideal, z) /\ z.engine = y
  <2>1. z.engine = y
    BY <1>30
  <2>2. ideal' = Append(ideal, z)
    BY <1>1, <1>2, <1>30 DEF Record
  <2> QED BY <2>1, <2>2
<1>4. /\ phase = "ready" /\ phase' = "recorded" /\ sent' = Append(sent, c)
      /\ UNCHANGED <<snap, engine, pos>>
  BY DEF Record
<1>5. /\ EnginesOf(ideal') = Append(EnginesOf(ideal), y)
      /\ Len(EnginesOf(ideal)) = n + 1 /\ EnginesOf(ideal)[n + 1] = x.engine
  <2>1. IsSeq(ideal) /\ n + 1 \in 1 .. (n + 1)
    BY DEF RecoveryInv, Chronicle
  <2>2. EnginesOf(Append(ideal, z)) = Append(EnginesOf(ideal), z.engine)
    BY <2>1, EnginesGrow
  <2>3. /\ Len(EnginesOf(ideal)) = Len(ideal)
        /\ \A i \in 1 .. Len(ideal) : EnginesOf(ideal)[i] = ideal[i].engine
    BY <2>1, EnginesGrow
  <2> QED BY <1>1, <1>2, <1>3, <2>1, <2>2, <2>3
<1>6. EnginesOf(ideal')
        = Append(EnginesOf(ideal),
                 Submitted(EnginesOf(ideal)[Len(EnginesOf(ideal))], c.sym, c.cmd).engine)
  BY <1>2, <1>5
<1> QED BY <1>4, <1>6 DEF Durable!Record, EnginesOf

LEMMA SubmitIsDurable ==
    ASSUME Setup, RecoveryInv, Submit
    PROVE  Durable!Submit
<1>1. PICK n \in Nat : n = Len(sent) /\ n > 0
  BY ChronicleFacts DEF RecoveryInv, Submit, Serving
<1>2. PICK c, done : c = sent[n] /\ done = Submitted(engine, c.sym, c.cmd)
  OBVIOUS
<1>3. /\ phase = "recorded" /\ engine' = done.engine /\ phase' = "emitting"
      /\ UNCHANGED <<snap, pos, sent, ideal>>
  BY <1>1, <1>2 DEF Submit, files
<1>4. IsEngine(engine, Config) /\ Config \in Configs /\ c.sym \in Nat /\ c.cmd \in Readable
  <2>1. n \in 1 .. n
    BY <1>1
  <2>2. IsCommand(c)
    BY <1>1, <1>2, <2>1 DEF RecoveryInv, Chronicle, Setup, Sane
  <2> QED BY <2>2, ConstructedIsReadable DEF RecoveryInv, Setup, Sane, IsCommand
<1>5. Used(engine') = Submitted(Used(engine), c.sym, c.cmd).engine
  BY <1>2, <1>3, <1>4, UsedSubmit
<1> QED BY <1>1, <1>2, <1>3, <1>5 DEF Durable!Submit

LEMMA ReplayIsDurable ==
    ASSUME Setup, RecoveryInv, ReplayLine
    PROVE  Durable!Replay
<1>1. phase = "replaying" /\ pos < Len(journal) /\ Len(journal) = Len(sent)
  BY ChronicleFacts DEF ReplayLine, RecoveryInv
<1>2. PICK c : /\ c = sent[pos + 1] /\ c \in Commands
               /\ Parsed(journal[pos + 1]) = [ok |-> TRUE, sym |-> c.sym, cmd |-> c.cmd]
  BY <1>1, LineIsReplayed DEF Setup
<1>3. PICK read : read = Parsed(journal[pos + 1]) /\ read.sym = c.sym /\ read.cmd = c.cmd
  BY <1>2
<1>4. engine' = Submitted(engine, c.sym, c.cmd).engine
  <2>1. \E d \in {Submitted(engine, read.sym, read.cmd)} : engine' = d.engine
    BY <1>3 DEF ReplayLine
  <2> QED BY <1>3, <2>1
<1>5. IsEngine(engine, Config) /\ Config \in Configs /\ c.sym \in Nat /\ c.cmd \in Readable
  BY <1>2, ConstructedIsReadable DEF RecoveryInv, Setup, Sane, IsCommand
<1>6. Used(engine') = Submitted(Used(engine), c.sym, c.cmd).engine
  BY <1>4, <1>5, UsedSubmit
<1>7. pos' = pos + 1 /\ UNCHANGED <<snap, phase, sent, ideal>>
  BY DEF ReplayLine
<1> QED BY <1>1, <1>2, <1>6, <1>7 DEF Durable!Replay

LEMMA RestartIsDurable ==
    ASSUME Setup, RecoveryInv, Restart
    PROVE  Durable!Restart
<1>1. engine' = snap.of
  <2>1. IsEngine(snap.of, Config) /\ snap.file = EngineLines(snap.of) /\ Config \in Configs
    BY DEF RecoveryInv, IsSaved, Setup, Sane
  <2>2. RestoreEngine(Parse(EngineLines(snap.of))) = snap.of
    BY <2>1, SnapshotRestores
  <2> QED BY <2>1, <2>2 DEF Restart
<1>2. /\ phase = "down" /\ phase' = "replaying" /\ pos' = snap.at
      /\ UNCHANGED <<snap, sent, ideal>>
  BY DEF Restart
<1> QED BY <1>1, <1>2 DEF Durable!Restart

LEMMA NextIsDurable ==
    ASSUME Setup, RecoveryInv, [Next]_vars
    PROVE  [Durable!Next]_(Durable!vars)
<1>1. CASE UNCHANGED vars
  BY <1>1 DEF vars, files, Durable!vars
<1>2. ASSUME NEW c \in Commands, Record(c)
      PROVE  Durable!Next
  BY <1>2, RecordIsDurable DEF Durable!Next
<1>3. ASSUME NEW c \in Commands, CrashWhileRecording(c)
      PROVE  FALSE
  BY <1>3 DEF CrashWhileRecording, Setup, Sane
<1>4. CASE CrashWhileSaving
  BY <1>4 DEF CrashWhileSaving, Setup, Sane
<1>5. ASSUME NEW c \in Commands, NEW cfg \in OwnConfigs, AddOwnSymbol(c.sym, cfg)
      PROVE  UNCHANGED Durable!vars
  <2>1. cfg = Config /\ Config \in Configs /\ c.sym \in Nat /\ IsEngine(engine, Config)
    BY <1>5 DEF Setup, Sane, IsCommand, RecoveryInv
  <2>2. Used(engine') = Used(engine)
    BY <1>5, <2>1, UsedAdd DEF AddOwnSymbol
  <2> QED BY <1>5, <2>2 DEF AddOwnSymbol, files, Durable!vars
<1>6. CASE Submit
  BY <1>6, SubmitIsDurable DEF Durable!Next
<1>7. CASE Deliver
  <2>1. phase = "emitting" /\ phase' \in {"ready", "emitting"}
    BY <1>7 DEF Deliver
  <2> QED BY <1>7, <2>1 DEF Deliver, Durable!vars
<1>8. CASE TakeSnapshot
  <2>1. Len(journal) = Len(sent)
    BY ChronicleFacts DEF RecoveryInv
  <2>2. Durable!Save
    BY <1>8, <2>1 DEF TakeSnapshot, Durable!Save
  <2> QED BY <2>2 DEF Durable!Next
<1>9. CASE Crash
  <2>1. Durable!Crash
    BY <1>9 DEF Crash, GoDown, Durable!Crash
  <2> QED BY <2>1 DEF Durable!Next
<1>10. CASE Recover
  <2>1. CASE Resume
    <3>1. Len(journal) = Len(sent)
      BY ChronicleFacts DEF RecoveryInv
    <3>2. Durable!Resume
      BY <2>1, <3>1 DEF Resume, files, Durable!Resume
    <3> QED BY <3>2 DEF Durable!Next
  <2> QED BY <1>10, <2>1, RestartIsDurable, ReplayIsDurable, NothingIsRefused
          DEF Setup, Recover, Durable!Next
<1> QED BY <1>1, <1>2, <1>3, <1>4, <1>5, <1>6, <1>7, <1>8, <1>9, <1>10 DEF Next

\* An engine with its journal, its snapshots and its recovery is a durable log:
\* the books that have had a command are its state.
THEOREM RecoveryIsDurable ==
    ASSUME Setup
    PROVE  Spec => ImplementsDurableLog
<1>1. Init => Durable!Init
  BY BeginsAsDurableLog
<1>2. RecoveryInv /\ [Next]_vars => [Durable!Next]_(Durable!vars)
  BY NextIsDurable
<1> QED BY <1>1, <1>2, RecoveryHolds, PTL DEF Spec, ImplementsDurableLog, Durable!Spec

----------------------------------------------------------------------------
(* The programs that read a stream.                                        *)

\* What parse_command() makes of a line has a kind.
LEMMA ReadHasKind ==
    ASSUME NEW line, Parsed(line).ok
    PROVE  Parsed(line).cmd.kind # "None"
<1>1. PICK id, price, qty : /\ id = Num(line, "order_id") /\ price = Num(line, "price")
                            /\ qty = Num(line, "qty")
  OBVIOUS
<1>2. Get(line, "cmd") \in {"new", "cancel", "replace"}
  BY DEF Parsed
<1>3. CASE Get(line, "cmd") = "new"
  <2>1. Parsed(line).cmd.kind = "New"
    BY <1>3 DEF Parsed
  <2> QED BY <2>1
<1>4. CASE Get(line, "cmd") = "cancel"
  <2>1. Parsed(line).cmd.kind = "Cancel"
    BY <1>4 DEF Parsed, CancelOf, Changing
  <2> QED BY <2>1
<1>5. CASE Get(line, "cmd") = "replace"
  <2>1. Parsed(line).cmd.kind = "Replace"
    BY <1>5 DEF Parsed, ReplaceOf, Changing
  <2> QED BY <2>1
<1> QED BY <1>2, <1>3, <1>4, <1>5

IsTool(tool) == /\ tool = [engine |-> tool.engine, out |-> tool.out, ok |-> tool.ok]
                /\ tool.ok \in BOOLEAN

\* What a program that ends at the first malformed line makes of a line.
HasRead(tool, sym, read, tagged, next) ==
    /\ IsTool(next) /\ (next.ok <=> tool.ok /\ read.ok)
    /\ tool.ok /\ read.ok =>
         /\ next.engine = Submitted(tool.engine, sym, read.cmd).engine
         /\ next.out = tool.out \o Shown(Submitted(tool.engine, sym, read.cmd).events, tagged)

LEMMA StrictStep ==
    ASSUME NEW tool, IsTool(tool)
    PROVE  \A sym, read, tagged :
             HasRead(tool, sym, read, tagged, ReadStrictly(tool, sym, read, tagged))
<1> TAKE sym, read, tagged
<1>1. PICK e, o, k : tool = [engine |-> e, out |-> o, ok |-> k] /\ k \in BOOLEAN
  BY DEF IsTool
<1>2. tool.engine = e /\ tool.out = o /\ tool.ok = k
  BY <1>1
<1>3. PICK done : done = Submitted(e, sym, read.cmd)
  OBVIOUS
<1>4. PICK next : next = ReadStrictly(tool, sym, read, tagged)
  OBVIOUS
<1>5. CASE k /\ read.ok
  <2>1. PICK out : out = o \o Shown(done.events, tagged)
    OBVIOUS
  <2>2. next = [engine |-> done.engine, out |-> out, ok |-> k]
    BY <1>1, <1>3, <1>4, <1>5, <2>1 DEF ReadStrictly
  <2>3. IsTool(next) /\ next.engine = done.engine /\ next.out = out /\ next.ok
    BY <1>1, <1>5, <2>2 DEF IsTool
  <2> QED BY <1>2, <1>3, <1>4, <1>5, <2>1, <2>3 DEF HasRead
<1>6. CASE ~(k /\ read.ok)
  <2>1. next = [engine |-> e, out |-> o, ok |-> FALSE]
    BY <1>1, <1>4, <1>6 DEF ReadStrictly
  <2>2. IsTool(next) /\ ~next.ok
    BY <2>1 DEF IsTool
  <2> QED BY <1>2, <1>4, <1>6, <2>2 DEF HasRead
<1> QED BY <1>5, <1>6

\* As long as every line was a command, matchersnap has applied the same.
SameEngines == /\ IsTool(run) /\ IsTool(fuzz) /\ fuzz.ok = run.ok
               /\ run.ok => run.engine = dump.engine

LEMMA ToolsBeginAlike == ToolsInit => SameEngines
<1> SUFFICES ASSUME ToolsInit PROVE SameEngines
  OBVIOUS
<1> PICK cfg, cfg2, cmd :
      /\ run = [engine |-> NewEngine(cfg), out |-> <<>>, ok |-> TRUE]
      /\ fuzz = [engine |-> NewEngine(cfg2), out |-> <<>>, ok |-> TRUE]
      /\ dump = [engine |-> NewEngine(cfg), cmd |-> cmd]
  BY DEF ToolsInit
<1>1. IsTool(run) /\ IsTool(fuzz) /\ run.ok /\ fuzz.ok
  BY DEF IsTool
<1>2. run.engine = dump.engine
  OBVIOUS
<1> QED BY <1>1, <1>2 DEF SameEngines

LEMMA ReadKeepsAlike == SameEngines /\ [ToolsNext]_toolVars => SameEngines'
<1> SUFFICES ASSUME SameEngines, [ToolsNext]_toolVars PROVE SameEngines'
  OBVIOUS
<1>1. CASE UNCHANGED toolVars
  BY <1>1 DEF toolVars, SameEngines, IsTool
<1>2. ASSUME NEW line \in FileLines, ReadLine(line)
      PROVE  SameEngines'
  <2>1. /\ run' = ReadStrictly(run, Parsed(line).sym, Parsed(line), TRUE)
        /\ fuzz' = ReadStrictly(fuzz, FuzzSymbol(Parsed(line)), Parsed(line), header.engine)
        /\ dump' = ReadRegardless(Parsed(line))
    BY <1>2 DEF ReadLine
  <2> PICK read : read = Parsed(line)
    OBVIOUS
  <2>2. /\ IsTool(run') /\ (run'.ok <=> run.ok /\ read.ok)
        /\ run.ok /\ read.ok => run'.engine = Submitted(run.engine, read.sym, read.cmd).engine
    <3>1. HasRead(run, read.sym, read, TRUE, run')
      BY <2>1, StrictStep DEF SameEngines
    <3> QED BY <3>1 DEF HasRead
  <2>3. IsTool(fuzz') /\ (fuzz'.ok <=> fuzz.ok /\ read.ok)
    <3>1. HasRead(fuzz, FuzzSymbol(read), read, header.engine, fuzz')
      BY <2>1, StrictStep DEF SameEngines
    <3> QED BY <3>1 DEF HasRead
  <2>4. ASSUME run.ok, read.ok
        PROVE  run'.engine = dump'.engine
    <3>1. read.cmd.kind # "None"
      BY <2>4, ReadHasKind
    <3>2. dump'.engine = Submitted(dump.engine, read.sym, read.cmd).engine
      BY <2>1, <2>4, <3>1 DEF ReadRegardless
    <3> QED BY <2>2, <2>4, <3>2 DEF SameEngines
  <2>5. run.ok = fuzz.ok /\ run'.ok = fuzz'.ok
    <3>1. run.ok = fuzz.ok
      BY DEF SameEngines
    <3> QED BY <2>2, <2>3, <3>1 DEF IsTool
  <2> QED BY <2>2, <2>3, <2>4, <2>5 DEF SameEngines
<1> QED BY <1>1, <1>2 DEF ToolsNext

\* However many lines a file has, and whatever their numbers are: a file that
\* matcherrun reads to the end gets the same snapshot from matcherrun --snap
\* and from matchersnap, which ignores what parse_command() returns.
THEOREM SnapshotsAreTheSame == ToolsSpec => []SnapshotsAgree
<1>1. SameEngines => SnapshotsAgree
  BY DEF SameEngines, SnapshotsAgree
<1>2. ToolsSpec => []SameEngines
  BY ToolsBeginAlike, ReadKeepsAlike, PTL DEF ToolsSpec
<1> QED BY <1>1, <1>2, PTL

\* The lines of events that write_canonical() writes.
Bare == {Canonical(seq, ev) : seq \in Nat, ev \in Told}

\* A sequence of fields none of which is a symbol.
HasNoSymbol(d) == \E S : d \in Seq(S) /\ \A f \in S : f.key # "symbol"

LEMMA NoSymbolAmong ==
    ASSUME NEW S, NEW d \in Seq(S), \A f \in S : f.key # "symbol"
    PROVE  HasNoSymbol(d)
  BY DEF HasNoSymbol

LEMMA DetailsHaveNoSymbol ==
    ASSUME NEW e \in Told
    PROVE  HasNoSymbol(Details(e))
<1>1. CASE e.ev \in {"accepted", "rejected", "closed"}
  <2>1. PICK x, y : Details(e) = <<x, y>> /\ x.key # "symbol" /\ y.key # "symbol"
    BY <1>1 DEF Details, Field
  <2>2. PICK S : S = {x, y}
    OBVIOUS
  <2>3. <<x, y>> \in Seq(S) /\ \A f \in S : f.key # "symbol"
    BY <2>1, <2>2
  <2>4. PICK d : d = <<x, y>>
    OBVIOUS
  <2>5. HasNoSymbol(d)
    BY <2>3, <2>4, NoSymbolAmong
  <2> QED BY <2>1, <2>4, <2>5
<1>2. CASE e.ev = "replaced"
  <2>1. PICK x, y, z : /\ Details(e) = <<x, y, z>>
                       /\ x.key # "symbol" /\ y.key # "symbol" /\ z.key # "symbol"
    BY <1>2 DEF Details, Field
  <2>2. PICK S : S = {x, y, z}
    OBVIOUS
  <2>3. <<x, y, z>> \in Seq(S) /\ \A f \in S : f.key # "symbol"
    BY <2>1, <2>2
  <2>4. PICK d : d = <<x, y, z>>
    OBVIOUS
  <2>5. HasNoSymbol(d)
    BY <2>3, <2>4, NoSymbolAmong
  <2> QED BY <2>1, <2>4, <2>5
<1>3. CASE e.ev = "trade"
  <2>1. PICK w, x, y, z : /\ Details(e) = <<w, x, y, z>> /\ w.key # "symbol"
                          /\ x.key # "symbol" /\ y.key # "symbol" /\ z.key # "symbol"
    BY <1>3 DEF Details, Field
  <2>2. PICK S : S = {w, x, y, z}
    OBVIOUS
  <2>3. <<w, x, y, z>> \in Seq(S) /\ \A f \in S : f.key # "symbol"
    BY <2>1, <2>2
  <2>4. PICK d : d = <<w, x, y, z>>
    OBVIOUS
  <2>5. HasNoSymbol(d)
    BY <2>3, <2>4, NoSymbolAmong
  <2> QED BY <2>1, <2>4, <2>5
<1> QED BY <1>1, <1>2, <1>3 DEF Told

\* A line without a symbol is left as it is, and one with a symbol loses it.
LEMMA SymbolIsDropped ==
    ASSUME NEW d, HasNoSymbol(d), NEW x, NEW y, NEW z,
           x.key # "symbol", y.key # "symbol", z.key = "symbol"
    PROVE  /\ Nameless(<<x, y, z>> \o d) = <<x, y>> \o d
           /\ Nameless(<<x, y>> \o d) = <<x, y>> \o d
<1>1. PICK S : d \in Seq(S) /\ \A f \in S : f.key # "symbol"
  BY DEF HasNoSymbol
<1>2. PICK n \in Nat : n = Len(d) /\ \A i \in 1 .. n : d[i] \in S
  BY <1>1
<1>3. PICK T : T = S \cup {x, y, z}
  OBVIOUS
<1>4. PICK p : p = <<x, y>> \o d
  OBVIOUS
<1>5. PICK q : q = <<x, y, z>> \o d
  OBVIOUS
<1>6. d \in Seq(T) /\ <<x, y>> \in Seq(T) /\ <<x, y, z>> \in Seq(T)
  BY <1>1, <1>3
<1>7. p \in Seq(T) /\ q \in Seq(T)
  BY <1>4, <1>5, <1>6, ConcatProperties
<1>8. Len(p) = 2 + n /\ p[1] = x /\ p[2] = y /\ \A i \in 1 .. n : p[2 + i] = d[i]
  BY <1>1, <1>2, <1>4, AfterPair
<1>9. /\ Len(q) = 3 + n /\ q[1] = x /\ q[2] = y /\ q[3] = z
      /\ \A i \in 1 .. n : q[3 + i] = d[i]
  BY <1>1, <1>2, <1>5, AfterTriple
<1>10. \A i \in DOMAIN p : p[i].key # "symbol"
  <2>1. ASSUME NEW i \in DOMAIN p
        PROVE  p[i].key # "symbol"
    <3>1. i \in 1 .. (2 + n)
      BY <1>7, <1>8, <2>1
    <3>2. CASE i = 1 \/ i = 2
      BY <1>8, <3>2
    <3>3. CASE i # 1 /\ i # 2
      <4>1. PICK j \in 1 .. n : i = 2 + j
        <5>1. i - 2 \in 1 .. n /\ i = 2 + (i - 2)
          BY <3>1, <3>3
        <5> QED BY <5>1
      <4>2. p[i] = d[j] /\ d[j] \in S
        BY <1>2, <1>8, <4>1
      <4> QED BY <1>1, <4>2
    <3> QED BY <3>2, <3>3
  <2> QED BY <2>1
<1>11. \A i \in DOMAIN q : q[i].key = "symbol" <=> i = 3
  <2>1. ASSUME NEW i \in DOMAIN q
        PROVE  q[i].key = "symbol" <=> i = 3
    <3>1. i \in 1 .. (3 + n)
      BY <1>7, <1>9, <2>1
    <3>2. CASE i = 1 \/ i = 2 \/ i = 3
      BY <1>9, <3>2
    <3>3. CASE i # 1 /\ i # 2 /\ i # 3
      <4>1. PICK j \in 1 .. n : i = 3 + j
        <5>1. i - 3 \in 1 .. n /\ i = 3 + (i - 3)
          BY <3>1, <3>3
        <5> QED BY <5>1
      <4>2. q[i] = d[j] /\ d[j] \in S
        BY <1>2, <1>9, <4>1
      <4> QED BY <1>1, <3>3, <4>2
    <3> QED BY <3>2, <3>3
  <2> QED BY <2>1
<1>12. Nameless(p) = p
  <2>1. {k \in DOMAIN p : p[k].key = "symbol"} = {}
    BY <1>10
  <2> QED BY <2>1 DEF Nameless
<1>13. 3 \in DOMAIN q
  BY <1>7, <1>9
<1>14. Nameless(q) = RemoveAt(q, 3)
  <2>1. {k \in DOMAIN q : q[k].key = "symbol"} = {3}
    BY <1>11, <1>13
  <2>2. (CHOOSE k \in {3} : TRUE) = 3
    OBVIOUS
  <2>3. {3} # {}
    OBVIOUS
  <2> QED BY <2>1, <2>2, <2>3 DEF Nameless
<1>15. PICK r \in Seq(T) : r = RemoveAt(q, 3) /\ Drops(q, r, 3)
  BY <1>7, <1>13, CutDrops DEF RemoveAt, Cut
<1>16. Len(r) = 2 + n
  BY <1>9, <1>15 DEF Drops
<1>17. ASSUME NEW i \in 1 .. (2 + n)
       PROVE  r[i] = p[i]
  <2>1. r[i] = IF i < 3 THEN q[i] ELSE q[i + 1]
    BY <1>9, <1>15 DEF Drops
  <2>2. CASE i < 3
    <3>1. i = 1 \/ i = 2
      BY <2>2
    <3> QED BY <1>8, <1>9, <2>1, <2>2, <3>1
  <2>3. CASE ~(i < 3)
    <3>1. PICK j \in 1 .. n : i = 2 + j /\ i + 1 = 3 + j
      <4>1. i - 2 \in 1 .. n /\ i = 2 + (i - 2) /\ i + 1 = 3 + (i - 2)
        BY <2>3
      <4> QED BY <4>1
    <3> QED BY <1>8, <1>9, <2>1, <2>3, <3>1
  <2> QED BY <2>2, <2>3
<1>18. r = p
  BY <1>7, <1>8, <1>15, <1>16, <1>17, SeqEqual
<1> QED BY <1>4, <1>5, <1>12, <1>14, <1>15, <1>18

LEMMA LinesButForSymbol ==
    ASSUME NEW seq, NEW sym, NEW e \in Told
    PROVE  /\ Nameless(CanonicalSym(seq, sym, e)) = Canonical(seq, e)
           /\ Nameless(Canonical(seq, e)) = Canonical(seq, e)
<1>1. PICK x, y, z : x = Field("seq", seq) /\ y = Field("ev", e.ev) /\ z = Field("symbol", sym)
  OBVIOUS
<1>2. x.key # "symbol" /\ y.key # "symbol" /\ z.key = "symbol"
  BY <1>1 DEF Field
<1>3. PICK d : d = Details(e) /\ HasNoSymbol(d)
  BY DetailsHaveNoSymbol
<1>4. /\ Nameless(<<x, y, z>> \o d) = <<x, y>> \o d
      /\ Nameless(<<x, y>> \o d) = <<x, y>> \o d
  BY <1>2, <1>3, SymbolIsDropped
<1> QED BY <1>1, <1>3, <1>4 DEF Canonical, CanonicalSym

LEMMA WithoutSymbolJoins ==
    ASSUME NEW S, NEW a \in Seq(S), NEW b \in Seq(S)
    PROVE  WithoutSymbol(a \o b) = WithoutSymbol(a) \o WithoutSymbol(b)
<1>1. PICK m \in Nat, n \in Nat : m = Len(a) /\ n = Len(b)
  OBVIOUS
<1>2. PICK c : c = a \o b
  OBVIOUS
<1>3. /\ c \in Seq(S) /\ Len(c) = m + n
      /\ \A j \in 1 .. m : c[j] = a[j]
      /\ \A j \in 1 .. n : c[m + j] = b[j]
  BY <1>1, <1>2, ConcatFacts
<1>4. PICK u, v, w : u = WithoutSymbol(a) /\ v = WithoutSymbol(b) /\ w = WithoutSymbol(c)
  OBVIOUS
<1>5. PICK T : T = {Nameless(x) : x \in S}
  OBVIOUS
<1>6. \A i \in 1 .. m : a[i] \in S
  BY <1>1
<1>7. \A i \in 1 .. n : b[i] \in S
  BY <1>1
<1>8. \A i \in 1 .. (m + n) : c[i] \in S
  BY <1>3
<1>9. u \in Seq(T) /\ Len(u) = m /\ \A i \in 1 .. m : u[i] = Nameless(a[i])
  <2>1. u = [i \in 1 .. m |-> Nameless(a[i])]
    BY <1>1, <1>4 DEF WithoutSymbol
  <2> QED BY <1>5, <1>6, <2>1
<1>10. v \in Seq(T) /\ Len(v) = n /\ \A i \in 1 .. n : v[i] = Nameless(b[i])
  <2>1. v = [i \in 1 .. n |-> Nameless(b[i])]
    BY <1>1, <1>4 DEF WithoutSymbol
  <2> QED BY <1>5, <1>7, <2>1
<1>11. w \in Seq(T) /\ Len(w) = m + n /\ \A i \in 1 .. (m + n) : w[i] = Nameless(c[i])
  <2>1. w = [i \in 1 .. (m + n) |-> Nameless(c[i])]
    BY <1>3, <1>4 DEF WithoutSymbol
  <2> QED BY <1>5, <1>8, <2>1
<1>12. PICK z : z = u \o v
  OBVIOUS
<1>13. /\ z \in Seq(T) /\ Len(z) = m + n
       /\ \A j \in 1 .. m : z[j] = u[j]
       /\ \A j \in 1 .. n : z[m + j] = v[j]
  <2>1. u \in Seq(T) /\ v \in Seq(T)
    BY <1>9, <1>10
  <2>2. /\ u \o v \in Seq(T) /\ Len(u \o v) = Len(u) + Len(v)
        /\ \A j \in 1 .. Len(u) : (u \o v)[j] = u[j]
        /\ \A j \in 1 .. Len(v) : (u \o v)[Len(u) + j] = v[j]
    BY <2>1, ConcatFacts
  <2> QED BY <1>9, <1>10, <1>12, <2>2
<1>14. ASSUME NEW i \in 1 .. (m + n)
       PROVE  z[i] = w[i]
  <2>1. CASE i \in 1 .. m
    <3>1. c[i] = a[i] /\ u[i] = Nameless(a[i]) /\ z[i] = u[i]
      BY <1>3, <1>9, <1>13, <2>1
    <3>2. w[i] = Nameless(c[i])
      BY <1>11
    <3> QED BY <3>1, <3>2
  <2>2. CASE i \notin 1 .. m
    <3>1. PICK j \in 1 .. n : i = m + j
      <4>1. i - m \in 1 .. n /\ i = m + (i - m)
        BY <2>2
      <4> QED BY <4>1
    <3>2. c[i] = b[j] /\ v[j] = Nameless(b[j])
      BY <1>3, <1>10, <3>1
    <3>3. z[i] = v[j]
      BY <1>13, <3>1
    <3>4. w[i] = Nameless(c[i])
      BY <1>11
    <3> QED BY <3>2, <3>3, <3>4
  <2> QED BY <2>1, <2>2
<1>15. z = w
  BY <1>11, <1>13, <1>14, SeqEqual
<1> QED BY <1>2, <1>4, <1>12, <1>15

\* What matcherrun has of symbol s is what matcherfuzz has of its book.
Mirrors(cfg, e, out, f, bare, s) ==
    /\ IsEngine(e, cfg) /\ IsEngine(f, cfg) /\ BookAt(e, s) = BookAt(f, 0)
    /\ out \in Seq(Printable) /\ bare \in Seq(Bare)
    /\ WithoutSymbol(bare) = WithoutSymbol(out)

\* What an engine's book makes of a command, whatever symbol it has.
Takes(cfg, e, sym, c, b) ==
    /\ IsEngine(Submitted(e, sym, c).engine, cfg)
    /\ BookAt(Submitted(e, sym, c).engine, sym) = BookAfter(b, c)
    /\ Submitted(e, sym, c).events = EventsAfter(b, sym, c)

LEMMA BookTakes ==
    ASSUME NEW cfg \in Configs, NEW e, IsEngine(e, cfg), NEW sym \in Nat, NEW c \in Readable,
           NEW b, b = BookAt(e, sym)
    PROVE  Takes(cfg, e, sym, c, b)
<1>1. IsSubmitted(e, sym, c, b)
  BY SubmittedIs
<1>2. Submitted(e, sym, c).engine = WithBook(e, sym, BookAfter(b, c))
  BY <1>1 DEF IsSubmitted
<1>3. PICK f, a : f = e.books /\ a = BookAfter(b, c)
  OBVIOUS
<1>4. BookAt(WithBook(e, sym, a), sym) = a
  BY WithFacts DEF BookAt, WithBook
<1>5. Submitted(e, sym, c).events = EventsAfter(b, sym, c)
  BY <1>1 DEF IsSubmitted
<1> QED BY <1>2, <1>3, <1>4, <1>5, SubmittedIsEngine DEF Takes

LEMMA ShownAlike ==
    ASSUME NEW cfg \in Configs, NEW b \in BooksOf(cfg), NEW c \in Readable, NEW s \in Nat
    PROVE  /\ Shown(EventsAfter(b, s, c), TRUE) \in Seq(Printable)
           /\ Shown(EventsAfter(b, 0, c), FALSE) \in Seq(Bare)
           /\ WithoutSymbol(Shown(EventsAfter(b, 0, c), FALSE))
                = WithoutSymbol(Shown(EventsAfter(b, s, c), TRUE))
<1>1. PICK out : out = Outcome(b, c) /\ Answers(out, cfg.room)
  BY OutcomeAnswers
<1>2. PICK v \in Seq(Told) : v = out.events
  BY <1>1 DEF Answers
<1>3. PICK n \in Nat : n = Len(v) /\ DOMAIN v = 1 .. n
  BY <1>2
<1>4. \A i \in 1 .. n : v[i] \in Told
  BY <1>2, <1>3
<1>5. PICK k \in Nat : k = b.seq
  BY BookFacts
<1>6. PICK x : x = [i \in 1 .. n |-> CanonicalSym(k + i, s, v[i])]
  OBVIOUS
<1>7. PICK y : y = [i \in 1 .. n |-> Canonical(k + i, v[i])]
  OBVIOUS
<1>8. \A t : EventsAfter(b, t, c) = [i \in 1 .. n |-> [sym |-> t, seq |-> k + i, ev |-> v[i]]]
  BY <1>1, <1>2, <1>3, <1>5 DEF EventsAfter
<1>9. Shown(EventsAfter(b, s, c), TRUE) = x
  <2>1. PICK ev : /\ ev = EventsAfter(b, s, c)
                  /\ ev = [i \in 1 .. n |-> [sym |-> s, seq |-> k + i, ev |-> v[i]]]
    BY <1>8
  <2>2. DOMAIN ev = 1 .. n
    BY <2>1
  <2>3. \A i \in 1 .. n : CanonicalSym(ev[i].seq, ev[i].sym, ev[i].ev)
                            = CanonicalSym(k + i, s, v[i])
    BY <2>1
  <2>4. Printed(ev) = x
    BY <1>6, <2>2, <2>3 DEF Printed
  <2> QED BY <2>1, <2>4 DEF Shown
<1>10. Shown(EventsAfter(b, 0, c), FALSE) = y
  <2>1. PICK ev : /\ ev = EventsAfter(b, 0, c)
                  /\ ev = [i \in 1 .. n |-> [sym |-> 0, seq |-> k + i, ev |-> v[i]]]
    BY <1>8
  <2>2. DOMAIN ev = 1 .. n
    BY <2>1
  <2>3. \A i \in 1 .. n : Canonical(ev[i].seq, ev[i].ev) = Canonical(k + i, v[i])
    BY <2>1
  <2>4. [i \in DOMAIN ev |-> Canonical(ev[i].seq, ev[i].ev)] = y
    BY <1>7, <2>2, <2>3
  <2> QED BY <2>1, <2>4 DEF Shown
<1>11. \A i \in 1 .. n : /\ CanonicalSym(k + i, s, v[i]) \in Printable
                         /\ Canonical(k + i, v[i]) \in Bare
  <2>1. \A i \in 1 .. n : k + i \in Nat
    OBVIOUS
  <2> QED BY <1>4, <2>1 DEF Printable, Bare
<1>12. x \in Seq(Printable) /\ y \in Seq(Bare)
  BY <1>6, <1>7, <1>11
<1>13. \A i \in 1 .. n : Nameless(CanonicalSym(k + i, s, v[i])) = Nameless(Canonical(k + i, v[i]))
  BY <1>4, LinesButForSymbol
<1>14. WithoutSymbol(x) = [i \in 1 .. n |-> Nameless(CanonicalSym(k + i, s, v[i]))]
  BY <1>6 DEF WithoutSymbol
<1>15. WithoutSymbol(y) = [i \in 1 .. n |-> Nameless(Canonical(k + i, v[i]))]
  BY <1>7 DEF WithoutSymbol
<1>16. WithoutSymbol(x) = WithoutSymbol(y)
  BY <1>13, <1>14, <1>15
<1> QED BY <1>9, <1>10, <1>12, <1>16

LEMMA MirrorStep ==
    ASSUME NEW cfg \in Configs, NEW e, NEW out, NEW f, NEW bare, NEW s \in Nat,
           Mirrors(cfg, e, out, f, bare, s), NEW c \in Readable
    PROVE  Mirrors(cfg, Submitted(e, s, c).engine,
                   out \o Shown(Submitted(e, s, c).events, TRUE),
                   Submitted(f, 0, c).engine,
                   bare \o Shown(Submitted(f, 0, c).events, FALSE), s)
<1>1. PICK b \in BooksOf(cfg) : b = BookAt(e, s) /\ b = BookAt(f, 0)
  BY BookAtFacts DEF Mirrors
<1>2. IsEngine(e, cfg) /\ IsEngine(f, cfg) /\ 0 \in Nat
  BY DEF Mirrors
<1>3. /\ IsEngine(Submitted(e, s, c).engine, cfg)
      /\ BookAt(Submitted(e, s, c).engine, s) = BookAfter(b, c)
      /\ Submitted(e, s, c).events = EventsAfter(b, s, c)
  <2>1. Takes(cfg, e, s, c, b)
    BY <1>1, <1>2, BookTakes
  <2> QED BY <2>1 DEF Takes
<1>4. /\ IsEngine(Submitted(f, 0, c).engine, cfg)
      /\ BookAt(Submitted(f, 0, c).engine, 0) = BookAfter(b, c)
      /\ Submitted(f, 0, c).events = EventsAfter(b, 0, c)
  <2>1. Takes(cfg, f, 0, c, b)
    BY <1>1, <1>2, BookTakes
  <2> QED BY <2>1 DEF Takes
<1>5. PICK x \in Seq(Printable) : x = Shown(EventsAfter(b, s, c), TRUE)
  BY ShownAlike
<1>6. PICK y \in Seq(Bare) : y = Shown(EventsAfter(b, 0, c), FALSE)
  BY ShownAlike
<1>7. WithoutSymbol(y) = WithoutSymbol(x)
  BY <1>5, <1>6, ShownAlike
<1>8. /\ out \in Seq(Printable) /\ bare \in Seq(Bare)
      /\ WithoutSymbol(bare) = WithoutSymbol(out)
  BY DEF Mirrors
<1>9. WithoutSymbol(out \o x) = WithoutSymbol(out) \o WithoutSymbol(x)
  BY <1>5, <1>8, WithoutSymbolJoins
<1>10. WithoutSymbol(bare \o y) = WithoutSymbol(bare) \o WithoutSymbol(y)
  BY <1>6, <1>8, WithoutSymbolJoins
<1>11. out \o x \in Seq(Printable) /\ bare \o y \in Seq(Bare)
  BY <1>5, <1>6, <1>8, ConcatProperties
<1>12. WithoutSymbol(bare \o y) = WithoutSymbol(out \o x)
  BY <1>7, <1>8, <1>9, <1>10
<1> QED BY <1>3, <1>4, <1>5, <1>6, <1>11, <1>12 DEF Mirrors

\* The numbers of the lines are numbers: get_u64() and get_i64() return no
\* other, and what is not there is 0 or a default.
NumbersAreRead ==
    /\ \A first \in Headers :
         /\ Num(first, "pmin") \in Int /\ Or(Get(first, "pmax"), 1000000) \in Int
         /\ Or(Get(first, "max_orders"), 65536) \in Nat
    /\ \A line \in FileLines :
         /\ Num(line, "symbol") \in Nat /\ Num(line, "order_id") \in Nat
         /\ Num(line, "price") \in Int /\ Num(line, "qty") \in Nat

LEMMA ReplaceIsReadable ==
    \A id \in Nat, price \in Int, qty \in Nat : ReplaceOf(id, price, qty) \in Readable
  BY DEF Readable

LEMMA NumbersMakeCommand ==
    ASSUME NEW line, Num(line, "symbol") \in Nat, Num(line, "order_id") \in Nat,
           Num(line, "price") \in Int, Num(line, "qty") \in Nat
    PROVE  /\ Parsed(line).sym \in Nat
           /\ Parsed(line).ok => Parsed(line).cmd \in Readable
<1>1. PICK id \in Nat, price \in Int, qty \in Nat :
        id = Num(line, "order_id") /\ price = Num(line, "price") /\ qty = Num(line, "qty")
  OBVIOUS
<1>2. Parsed(line).sym \in Nat
  BY DEF Parsed
<1>3. PICK side \in Sides : side = SideOfText(Get(line, "side"))
  BY DEF SideOfText, Sides
<1>4. PICK otype \in {"Limit", "Market"} : otype = OTypeOfText(Get(line, "otype"))
  BY DEF OTypeOfText
<1>5. PICK tif \in Tifs : tif = TifOfText(Get(line, "tif"))
  BY DEF TifOfText, Tifs
<1>6. ASSUME Parsed(line).ok
      PROVE  Parsed(line).cmd \in Readable
  <2>1. Get(line, "cmd") \in {"new", "cancel", "replace"}
    BY <1>6 DEF Parsed
  <2>2. CASE Get(line, "cmd") = "new"
    <3>1. Parsed(line).cmd = [kind |-> "New", id |-> id, price |-> price, qty |-> qty,
                              side |-> side, otype |-> otype, tif |-> tif]
      BY <1>1, <1>3, <1>4, <1>5, <2>2 DEF Parsed
    <3> QED BY <3>1 DEF Readable
  <2>3. CASE Get(line, "cmd") = "cancel"
    <3>1. Parsed(line).cmd = CancelOf(id)
      BY <1>1, <2>3 DEF Parsed
    <3> QED BY <3>1 DEF Readable
  <2>4. CASE Get(line, "cmd") = "replace"
    <3>1. Parsed(line).cmd = ReplaceOf(id, price, qty)
      BY <1>1, <2>4 DEF Parsed
    <3> QED BY <3>1, ReplaceIsReadable
  <2> QED BY <2>1, <2>2, <2>3, <2>4
<1> QED BY <1>2, <1>6

LEMMA CommandIsReadable ==
    ASSUME NumbersAreRead, NEW line \in FileLines
    PROVE  /\ Parsed(line).sym \in Nat
           /\ Parsed(line).ok => Parsed(line).cmd \in Readable
<1>1. /\ Num(line, "symbol") \in Nat /\ Num(line, "order_id") \in Nat
      /\ Num(line, "price") \in Int /\ Num(line, "qty") \in Nat
  BY DEF NumbersAreRead
<1> QED BY <1>1, NumbersMakeCommand

LEMMA HeaderIsRead ==
    ASSUME NumbersAreRead, NEW first \in Headers
    PROVE  HeaderOf(first).cfg \in Configs
<1>1. PICK min \in Int, max \in Int, room \in Nat :
        /\ min = Num(first, "pmin") /\ max = Or(Get(first, "pmax"), 1000000)
        /\ room = Or(Get(first, "max_orders"), 65536)
  BY DEF NumbersAreRead
<1>2. PICK index \in {"Tree", "Ladder"} :
        index = IF Get(first, "index") = "tree" THEN "Tree" ELSE "Ladder"
  OBVIOUS
<1>3. HeaderOf(first).cfg = [index |-> index, min |-> min, max |-> max, room |-> room]
  BY <1>1, <1>2 DEF HeaderOf, BookConfig
<1> QED BY <1>3 DEF Configs

\* The lines are all for symbol s.
NameOnly(ls, s) == \A i \in DOMAIN ls : Parsed(ls[i]).sym = s

\* The programs with an engine agree whatever the symbols are, and matcherfuzz
\* with a book on the symbol there is.
StreamInv ==
    /\ SameEngines /\ lines \in Seq(FileLines) /\ header.cfg \in Configs
    /\ header.cfg.index = "Ladder" /\ run.ok /\ header.engine =>
         fuzz.engine = run.engine /\ fuzz.out = run.out
    /\ header.cfg.index = "Ladder" /\ run.ok /\ ~header.engine =>
         \A s \in Nat :
           NameOnly(lines, s) =>
             Mirrors(header.cfg, run.engine, run.out, fuzz.engine, fuzz.out, s)

LEMMA StreamsBegin ==
    ASSUME NumbersAreRead, ToolsInit
    PROVE  StreamInv
<1>1. PICK first \in Headers : /\ header = HeaderOf(first) /\ lines = <<>>
        /\ run = [engine |-> NewEngine(header.cfg), out |-> <<>>, ok |-> TRUE]
        /\ fuzz = [engine |-> NewEngine([header.cfg EXCEPT !.index = "Ladder"]),
                   out |-> <<>>, ok |-> TRUE]
  BY DEF ToolsInit
<1>2. PICK cfg \in Configs : cfg = header.cfg
  BY <1>1, HeaderIsRead
<1>3. lines \in Seq(FileLines)
  BY <1>1
<1>4. cfg.index = "Ladder" => [cfg EXCEPT !.index = "Ladder"] = cfg
  BY DEF Configs
<1>5. cfg.index = "Ladder" =>
        /\ run.engine = NewEngine(cfg) /\ fuzz.engine = NewEngine(cfg)
        /\ run.out = <<>> /\ fuzz.out = <<>>
  BY <1>1, <1>2, <1>4
<1>6. ASSUME NEW s
      PROVE  Mirrors(cfg, NewEngine(cfg), <<>>, NewEngine(cfg), <<>>, s)
  <2>1. IsEngine(NewEngine(cfg), cfg)
    BY NewIsEngine
  <2>2. BookAt(NewEngine(cfg), s) = NewBook(cfg) /\ BookAt(NewEngine(cfg), 0) = NewBook(cfg)
    BY DEF BookAt, NewEngine
  <2>3. <<>> \in Seq(Printable) /\ <<>> \in Seq(Bare)
    OBVIOUS
  <2> QED BY <2>1, <2>2, <2>3 DEF Mirrors
<1> QED BY <1>2, <1>3, <1>5, <1>6, ToolsBeginAlike DEF StreamInv

LEMMA ReadKeepsStreams ==
    ASSUME NumbersAreRead, StreamInv, [ToolsNext]_toolVars
    PROVE  StreamInv'
<1>1. SameEngines'
  BY ReadKeepsAlike DEF StreamInv
<1>2. CASE UNCHANGED toolVars
  BY <1>1, <1>2 DEF toolVars, StreamInv
<1>3. ASSUME NEW line \in FileLines, ReadLine(line)
      PROVE  StreamInv'
  <2>1. PICK cfg \in Configs : cfg = header.cfg
    BY DEF StreamInv
  <2>2. PICK read : read = Parsed(line)
    OBVIOUS
  <2>3. read.sym \in Nat /\ (read.ok => read.cmd \in Readable)
    BY <2>2, CommandIsReadable
  <2>4. /\ lines' = Append(lines, line) /\ header' = header
        /\ run' = ReadStrictly(run, read.sym, read, TRUE)
        /\ fuzz' = ReadStrictly(fuzz, FuzzSymbol(read), read, header.engine)
    BY <1>3, <2>2 DEF ReadLine
  <2>5. lines' \in Seq(FileLines)
    BY <2>4 DEF StreamInv
  <2>6. IsTool(run) /\ IsTool(fuzz) /\ fuzz.ok = run.ok
    BY DEF StreamInv, SameEngines
  <2>7. HasRead(run, read.sym, read, TRUE, run')
    BY <2>4, <2>6, StrictStep
  <2>8. HasRead(fuzz, FuzzSymbol(read), read, header.engine, fuzz')
    BY <2>4, <2>6, StrictStep
  <2>9. run'.ok => run.ok /\ read.ok /\ fuzz.ok
    BY <2>6, <2>7 DEF HasRead
  <2>10. ASSUME run'.ok
         PROVE  /\ run'.engine = Submitted(run.engine, read.sym, read.cmd).engine
                /\ run'.out = run.out
                     \o Shown(Submitted(run.engine, read.sym, read.cmd).events, TRUE)
    BY <2>7, <2>9, <2>10 DEF HasRead
  <2>11. ASSUME run'.ok
         PROVE  /\ fuzz'.engine = Submitted(fuzz.engine, FuzzSymbol(read), read.cmd).engine
                /\ fuzz'.out = fuzz.out
                     \o Shown(Submitted(fuzz.engine, FuzzSymbol(read), read.cmd).events,
                              header.engine)
    BY <2>8, <2>9, <2>11 DEF HasRead
  <2>12. ASSUME cfg.index = "Ladder", run'.ok, header.engine
         PROVE  fuzz'.engine = run'.engine /\ fuzz'.out = run'.out
    <3>1. FuzzSymbol(read) = read.sym
      BY <2>12 DEF FuzzSymbol
    <3>2. \A events : Shown(events, header.engine) = Shown(events, TRUE)
      BY <2>12 DEF Shown
    <3>3. fuzz.engine = run.engine /\ fuzz.out = run.out
      BY <2>1, <2>9, <2>12 DEF StreamInv
    <3> QED BY <2>10, <2>11, <2>12, <3>1, <3>2, <3>3
  <2>13. ASSUME cfg.index = "Ladder", run'.ok, ~header.engine,
                NEW s \in Nat, NameOnly(lines', s)
         PROVE  Mirrors(cfg, run'.engine, run'.out, fuzz'.engine, fuzz'.out, s)
    <3>1. FuzzSymbol(read) = 0
      BY <2>13 DEF FuzzSymbol
    <3>2. \A events : Shown(events, header.engine) = Shown(events, FALSE)
      BY <2>13 DEF Shown
    <3>3. NameOnly(lines, s) /\ read.sym = s
      <4>1. PICK old \in Seq(FileLines), new \in Seq(FileLines) :
              old = lines /\ new = lines' /\ new = Append(old, line)
        BY <2>4, <2>5 DEF StreamInv
      <4>2. PICK n \in Nat : /\ n = Len(old) /\ DOMAIN old = 1 .. n
                             /\ DOMAIN new = 1 .. (n + 1) /\ new[n + 1] = line
                             /\ \A i \in 1 .. n : new[i] = old[i]
        BY <4>1
      <4>3. n + 1 \in DOMAIN new /\ \A i \in DOMAIN old : i \in DOMAIN new
        BY <4>2
      <4>4. \A i \in DOMAIN new : Parsed(new[i]).sym = s
        BY <2>13, <4>1 DEF NameOnly
      <4>5. \A i \in DOMAIN old : Parsed(old[i]).sym = s
        BY <4>2, <4>3, <4>4
      <4> QED BY <2>2, <4>1, <4>2, <4>3, <4>4, <4>5 DEF NameOnly
    <3>4. Mirrors(cfg, run.engine, run.out, fuzz.engine, fuzz.out, s)
      BY <2>1, <2>9, <2>13, <3>3 DEF StreamInv
    <3>5. PICK c \in Readable : c = read.cmd
      BY <2>3, <2>9, <2>13
    <3>6. Mirrors(cfg, Submitted(run.engine, s, c).engine,
                  run.out \o Shown(Submitted(run.engine, s, c).events, TRUE),
                  Submitted(fuzz.engine, 0, c).engine,
                  fuzz.out \o Shown(Submitted(fuzz.engine, 0, c).events, FALSE), s)
      BY <3>4, MirrorStep
    <3>7. /\ run'.engine = Submitted(run.engine, s, c).engine
          /\ run'.out = run.out \o Shown(Submitted(run.engine, s, c).events, TRUE)
      BY <2>10, <2>13, <3>3, <3>5
    <3>8. /\ fuzz'.engine = Submitted(fuzz.engine, 0, c).engine
          /\ fuzz'.out = fuzz.out \o Shown(Submitted(fuzz.engine, 0, c).events, FALSE)
      BY <2>11, <2>13, <3>1, <3>2, <3>5
    <3> QED BY <3>6, <3>7, <3>8
  <2>14. header'.cfg = cfg /\ header'.engine = header.engine
    BY <2>1, <2>4
  <2> QED BY <1>1, <2>5, <2>12, <2>13, <2>14 DEF StreamInv
<1> QED BY <1>2, <1>3 DEF ToolsNext

\* The set of the symbols of lines that name one symbol only.
LEMMA OnlySymbol ==
    ASSUME NumbersAreRead, NEW ls \in Seq(FileLines),
           Cardinality({Parsed(ls[i]).sym : i \in DOMAIN ls}) = 1
    PROVE  \E s \in Nat : NameOnly(ls, s)
<1>1. PICK n \in Nat : n = Len(ls) /\ DOMAIN ls = 1 .. n /\ \A i \in 1 .. n : ls[i] \in FileLines
  OBVIOUS
<1>2. PICK f : f = [i \in 1 .. n |-> Parsed(ls[i]).sym]
  OBVIOUS
<1>3. PICK S : S = {f[i] : i \in 1 .. n} /\ Cardinality(S) = 1
  BY <1>1, <1>2
<1>4. IsFiniteSet(1 .. n)
  BY FS_Interval
<1>5. IsFiniteSet(S)
  <2>1. f \in Surjection(1 .. n, S)
    BY <1>2, <1>3 DEF Surjection
  <2> QED BY <1>4, <2>1, FS_Surjection
<1>6. PICK s : S = {s}
  BY <1>3, <1>5, FS_Singleton
<1>7. \A i \in 1 .. n : Parsed(ls[i]).sym = s
  BY <1>2, <1>3, <1>6
<1>8. 1 \in 1 .. n
  <2>1. s \in S
    BY <1>6
  <2> QED BY <1>3, <2>1
<1>9. s \in Nat
  BY <1>1, <1>7, <1>8, CommandIsReadable
<1> QED BY <1>1, <1>7, <1>9 DEF NameOnly

\* Whatever the lines are, as long as their numbers are read as numbers:
\* matcherfuzz ends where matcherrun does, prints the same with an engine, and
\* the same but for the symbols with a book, when the file has a single symbol
\* and the header asks for the ladder.
THEOREM StreamsAreTheSame ==
    ASSUME NumbersAreRead
    PROVE  ToolsSpec => []StreamsAgree
<1>1. ToolsInit => StreamInv
  BY StreamsBegin
<1>2. StreamInv /\ [ToolsNext]_toolVars => StreamInv'
  BY ReadKeepsStreams
<1>3. StreamInv => StreamsAgree
  <2> SUFFICES ASSUME StreamInv, header.cfg.index = "Ladder" PROVE StreamsAgree
    BY DEF StreamsAgree
  <2>1. fuzz.ok = run.ok
    BY DEF StreamInv, SameEngines
  <2>2. run.ok /\ header.engine => fuzz.out = run.out
    BY DEF StreamInv
  <2>3. ASSUME run.ok, Cardinality({Parsed(lines[i]).sym : i \in DOMAIN lines}) = 1
        PROVE  WithoutSymbol(fuzz.out) = WithoutSymbol(run.out)
    <3>1. CASE header.engine
      BY <2>2, <2>3, <3>1
    <3>2. CASE ~header.engine
      <4>1. PICK s \in Nat : NameOnly(lines, s)
        BY <2>3, OnlySymbol DEF StreamInv
      <4>2. Mirrors(header.cfg, run.engine, run.out, fuzz.engine, fuzz.out, s)
        BY <2>3, <3>2, <4>1 DEF StreamInv
      <4> QED BY <4>2 DEF Mirrors
    <3> QED BY <3>1, <3>2
  <2> QED BY <2>1, <2>2, <2>3 DEF StreamsAgree
<1> QED BY <1>1, <1>2, <1>3, PTL DEF ToolsSpec

----------------------------------------------------------------------------
(* What is restored of the first lines of a snapshot.                      *)

LEMMA CutIsPrefix ==
    ASSUME NEW S, NEW q \in Seq(S), NEW i \in 0 .. Len(q)
    PROVE  IsPrefix(SubSeq(q, 1, i), q) /\ IsPrefix(q, q) /\ IsPrefix(<<>>, q)
<1>1. PICK n \in Nat : n = Len(q) /\ i <= n /\ i \in Nat
  OBVIOUS
<1>2. PICK p \in Seq(S) : p = SubSeq(q, 1, i) /\ Len(p) = i
  <2>1. SubSeq(q, 1, i) \in Seq(S) /\ Len(SubSeq(q, 1, i)) = i
    BY <1>1
  <2> QED BY <2>1
<1>3. SubSeq(p, 1, i) = p
  BY <1>2
<1>4. IsPrefix(p, q)
  BY <1>1, <1>2, <1>3 DEF IsPrefix
<1> QED BY <1>2, <1>4, PrefixFacts

\* The first m orders of a book, the bids before the asks.
CutAt(o, m) ==
    IF m <= Len(o["Bid"]) THEN Part(o, {}, "Bid", m)
    ELSE Part(o, {"Bid"}, "Ask", m - Len(o["Bid"]))

LEMMA BidsAreDone ==
    ASSUME NEW o, Sound(o)
    PROVE  Part(o, {}, "Bid", Len(o["Bid"])) = Part(o, {"Bid"}, "Ask", 0)
<1>0. "Bid" \in Sides /\ "Ask" \in Sides /\ \A t \in Sides : t = "Bid" \/ t = "Ask"
  BY DEF Sides
<1>1. PICK x \in Seq(Kept), y \in Seq(Kept) : x = o["Bid"] /\ y = o["Ask"]
  BY <1>0, SideFacts
<1>2. SubSeq(y, 1, 0) = <<>> /\ SubSeq(x, 1, Len(x)) = x
  OBVIOUS
<1>3. ASSUME NEW t \in Sides
      PROVE  (IF t = "Bid" THEN SubSeq(o[t], 1, Len(x)) ELSE <<>>)
               = (IF t = "Ask" THEN SubSeq(o[t], 1, 0) ELSE IF t \in {"Bid"} THEN o[t] ELSE <<>>)
  BY <1>0, <1>1, <1>2
<1>4. Part(o, {}, "Bid", Len(x)) = [t \in Sides |-> IF t = "Bid" THEN SubSeq(o[t], 1, Len(x)) ELSE <<>>]
  BY DEF Part
<1> QED BY <1>1, <1>3, <1>4 DEF Part

LEMMA CutFacts ==
    ASSUME NEW o, Sound(o), NEW m \in 0 .. Held(o)
    PROVE  /\ Sound(CutAt(o, m)) /\ Held(CutAt(o, m)) = m
           /\ \A s \in Sides : IsPrefix(CutAt(o, m)[s], o[s])
<1>0. "Bid" \in Sides /\ "Ask" \in Sides /\ \A t \in Sides : t = "Bid" \/ t = "Ask"
  BY DEF Sides
<1>1. PICK x \in Seq(Kept), y \in Seq(Kept) : x = o["Bid"] /\ y = o["Ask"]
  BY <1>0, SideFacts
<1>2. PICK a \in Nat, d \in Nat : a = Len(x) /\ d = Len(y)
  OBVIOUS
<1>3. Held(o) = a + d
  BY <1>1, <1>2 DEF Held, CountOf
<1>4. PICK w : w = CutAt(o, m)
  OBVIOUS
<1>5. CASE m <= a
  <2>1. w = Part(o, {}, "Bid", m)
    BY <1>1, <1>2, <1>4, <1>5 DEF CutAt
  <2>2. m \in 0 .. Len(o["Bid"]) /\ m \in 0 .. a
    BY <1>1, <1>2, <1>5, <1>3
  <2>3. Sound(w)
    BY <1>0, <2>1, <2>2, PartIsSound
  <2>4. w["Bid"] = SubSeq(x, 1, m) /\ w["Ask"] = <<>>
    BY <1>0, <1>1, <2>1 DEF Part
  <2>5. Len(SubSeq(x, 1, m)) = m /\ Len(<<>>) = 0
    BY <1>2, <2>2
  <2>6. Held(w) = m
    BY <2>2, <2>4, <2>5 DEF Held, CountOf
  <2>7. IsPrefix(w["Bid"], x) /\ IsPrefix(w["Ask"], y)
    <3>1. IsPrefix(SubSeq(x, 1, m), x)
      BY <1>2, <2>2, CutIsPrefix
    <3>2. IsPrefix(<<>>, y)
      BY PrefixFacts
    <3> QED BY <2>4, <3>1, <3>2
  <2> QED BY <1>0, <1>1, <1>4, <2>3, <2>6, <2>7
<1>6. CASE ~(m <= a)
  <2>1. w = Part(o, {"Bid"}, "Ask", m - a)
    BY <1>1, <1>2, <1>4, <1>6 DEF CutAt
  <2>2. PICK j \in 0 .. d : j = m - a
    <3>1. m - a \in 0 .. d
      BY <1>3, <1>6
    <3> QED BY <3>1
  <2>3. Sound(w)
    BY <1>0, <1>1, <1>2, <2>1, <2>2, PartIsSound
  <2>4. w["Bid"] = x /\ w["Ask"] = SubSeq(y, 1, j)
    BY <1>0, <1>1, <2>1, <2>2 DEF Part
  <2>5. Len(SubSeq(y, 1, j)) = j
    BY <1>2, <2>2
  <2>6. Held(w) = a + j
    BY <1>2, <2>4, <2>5 DEF Held, CountOf
  <2>7. IsPrefix(w["Bid"], x) /\ IsPrefix(w["Ask"], y)
    <3>1. IsPrefix(SubSeq(y, 1, j), y)
      BY <1>2, <2>2, CutIsPrefix
    <3>2. IsPrefix(x, x)
      BY PrefixFacts
    <3> QED BY <2>4, <3>1, <3>2
  <2>8. a + j = m
    BY <1>3, <2>2
  <2> QED BY <1>0, <1>1, <1>4, <2>3, <2>6, <2>7, <2>8
<1> QED BY <1>2, <1>3, <1>5, <1>6

\* The orders of a book as the snapshot has them.
LEMMA AllRecsAre ==
    ASSUME NEW c, NEW b \in BooksOf(c)
    PROVE  /\ AllRecs(b) \in Seq(Recs) /\ Len(AllRecs(b)) = Held(b.orders)
           /\ Held(b.orders) \in Nat
           /\ \A m \in 1 .. Held(b.orders) :
                AllRecs(b)[m] = IF m <= Len(b.orders["Bid"]) THEN Rec("Bid", b.orders["Bid"][m])
                                ELSE Rec("Ask", b.orders["Ask"][m - Len(b.orders["Bid"])])
<1>0. "Bid" \in Sides /\ "Ask" \in Sides
  BY DEF Sides
<1>1. PICK x \in Seq(Kept) :
        /\ x = b.orders["Bid"] /\ Len(x) \in Nat
        /\ RecsOf(b, "Bid") \in Seq(Recs) /\ Len(RecsOf(b, "Bid")) = Len(x)
        /\ \A i \in 1 .. Len(x) : RecsOf(b, "Bid")[i] = Rec("Bid", x[i])
  BY <1>0, SidesHaveRecs
<1>2. PICK y \in Seq(Kept) :
        /\ y = b.orders["Ask"] /\ Len(y) \in Nat
        /\ RecsOf(b, "Ask") \in Seq(Recs) /\ Len(RecsOf(b, "Ask")) = Len(y)
        /\ \A i \in 1 .. Len(y) : RecsOf(b, "Ask")[i] = Rec("Ask", y[i])
  BY <1>0, SidesHaveRecs
<1>3. PICK u \in Seq(Recs), v \in Seq(Recs) : u = RecsOf(b, "Bid") /\ v = RecsOf(b, "Ask")
  BY <1>1, <1>2
<1>4. PICK a \in Nat, d \in Nat : /\ a = Len(x) /\ d = Len(y) /\ a = Len(u) /\ d = Len(v)
  BY <1>1, <1>2, <1>3
<1>5. PICK z : z = u \o v /\ z = AllRecs(b)
  BY <1>3 DEF AllRecs
<1>6. /\ z \in Seq(Recs) /\ Len(z) = a + d
      /\ \A i \in 1 .. a : z[i] = u[i]
      /\ \A i \in 1 .. d : z[a + i] = v[i]
  <2>1. /\ u \o v \in Seq(Recs) /\ Len(u \o v) = Len(u) + Len(v)
        /\ \A i \in 1 .. Len(u) : (u \o v)[i] = u[i]
        /\ \A i \in 1 .. Len(v) : (u \o v)[Len(u) + i] = v[i]
    BY ConcatFacts
  <2> QED BY <1>4, <1>5, <2>1
<1>7. Held(b.orders) = a + d /\ a + d \in Nat
  BY <1>1, <1>2, <1>4 DEF Held, CountOf
<1>8. ASSUME NEW m \in 1 .. (a + d)
      PROVE  z[m] = IF m <= a THEN Rec("Bid", x[m]) ELSE Rec("Ask", y[m - a])
  <2>1. CASE m <= a
    <3>1. m \in 1 .. a
      BY <2>1
    <3> QED BY <1>1, <1>3, <1>4, <1>6, <2>1, <3>1
  <2>2. CASE ~(m <= a)
    <3>1. PICK j \in 1 .. d : j = m - a /\ a + j = m
      <4>1. m - a \in 1 .. d /\ a + (m - a) = m
        BY <2>2
      <4> QED BY <4>1
    <3>2. z[a + j] = v[j] /\ v[j] = Rec("Ask", y[j])
      BY <1>2, <1>3, <1>4, <1>6
    <3> QED BY <2>2, <3>1, <3>2
  <2> QED BY <2>1, <2>2
<1> QED BY <1>1, <1>2, <1>4, <1>5, <1>6, <1>7, <1>8

LEMMA CutTurn ==
    ASSUME NEW cfg \in Configs, NEW c, NEW b \in BooksOf(c), NEW seq,
           NEW m \in 1 .. Held(b.orders), m - 1 < cfg.room
    PROVE  RestRestored(BookSoFar(cfg, CutAt(b.orders, m - 1), seq), AllRecs(b)[m])
             = BookSoFar(cfg, CutAt(b.orders, m), seq)
<1>0. "Bid" \in Sides /\ "Ask" \in Sides
  BY DEF Sides
<1>1. PICK o : o = b.orders /\ Sound(o)
  BY BookFacts
<1>2. PICK x \in Seq(Kept), y \in Seq(Kept) : x = o["Bid"] /\ y = o["Ask"]
  BY <1>0, <1>1, SideFacts
<1>3. PICK a \in Nat, d \in Nat : a = Len(x) /\ d = Len(y)
  OBVIOUS
<1>4. Held(o) = a + d
  BY <1>2, <1>3 DEF Held, CountOf
<1>9. \A i : CutAt(o, i) = IF i <= a THEN Part(o, {}, "Bid", i)
                          ELSE Part(o, {"Bid"}, "Ask", i - a)
  BY <1>2, <1>3 DEF CutAt
<1>5. PICK l : l = AllRecs(b)[m] /\ l = IF m <= a THEN Rec("Bid", x[m]) ELSE Rec("Ask", y[m - a])
  BY <1>1, <1>2, <1>3, AllRecsAre
<1>6. Held(CutAt(o, m - 1)) < cfg.room
  <2>1. m - 1 \in 0 .. Held(o)
    BY <1>1, <1>4
  <2>2. Held(CutAt(o, m - 1)) = m - 1
    BY <1>1, <2>1, CutFacts
  <2> QED BY <2>2
<1>7. CASE m <= a
  <2>1. CutAt(o, m - 1) = Part(o, {}, "Bid", m - 1) /\ CutAt(o, m) = Part(o, {}, "Bid", m)
    <3>1. m - 1 <= a
      BY <1>1, <1>4, <1>7
    <3> QED BY <1>7, <1>9, <3>1
  <2>2. m \in 1 .. Len(o["Bid"])
    BY <1>1, <1>2, <1>3, <1>4, <1>7
  <2>3. RestRestored(BookSoFar(cfg, Part(o, {}, "Bid", m - 1), seq), Rec("Bid", o["Bid"][m]))
          = BookSoFar(cfg, Part(o, {}, "Bid", m), seq)
    BY <1>0, <1>1, <1>6, <2>1, <2>2, RestTurn
  <2>4. l = Rec("Bid", o["Bid"][m])
    BY <1>2, <1>5, <1>7
  <2> QED BY <1>1, <1>5, <2>1, <2>3, <2>4
<1>8. CASE ~(m <= a)
  <2>1. PICK j \in 1 .. d : j = m - a /\ j - 1 = (m - 1) - a
    <3>1. m - a \in 1 .. d /\ (m - a) - 1 = (m - 1) - a
      BY <1>1, <1>4, <1>8
    <3> QED BY <3>1
  <2>2. CutAt(o, m) = Part(o, {"Bid"}, "Ask", j)
    BY <1>8, <1>9, <2>1
  <2>3. CutAt(o, m - 1) = Part(o, {"Bid"}, "Ask", j - 1)
    <3>1. CASE m - 1 = a
      <4>1. CutAt(o, m - 1) = Part(o, {}, "Bid", a)
        BY <1>9, <3>1
      <4>2. j - 1 = 0
        BY <2>1, <3>1
      <4> QED BY <1>1, <1>2, <1>3, <4>1, <4>2, BidsAreDone
    <3>2. CASE m - 1 # a
      <4>1. ~(m - 1 <= a)
        BY <1>1, <1>4, <1>8, <3>2
      <4> QED BY <1>9, <2>1, <4>1
    <3> QED BY <3>1, <3>2
  <2>4. j \in 1 .. Len(o["Ask"])
    BY <1>2, <1>3, <2>1
  <2>5. RestRestored(BookSoFar(cfg, Part(o, {"Bid"}, "Ask", j - 1), seq), Rec("Ask", o["Ask"][j]))
          = BookSoFar(cfg, Part(o, {"Bid"}, "Ask", j), seq)
    BY <1>0, <1>1, <1>6, <2>3, <2>4, RestTurn
  <2>6. l = Rec("Ask", o["Ask"][j])
    BY <1>2, <1>5, <1>8, <2>1
  <2> QED BY <1>1, <1>5, <2>2, <2>3, <2>5, <2>6
<1> QED BY <1>7, <1>8

\* A book that is full takes no more.
LEMMA FullTurn ==
    ASSUME NEW cfg \in Configs, NEW w, Sound(w), Held(w) >= cfg.room, NEW seq, NEW rec
    PROVE  RestRestored(BookSoFar(cfg, w, seq), rec) = BookSoFar(cfg, w, seq)
<1>1. Cardinality(LiveIds(w)) = Held(w)
  BY LiveAreHeld
<1>2. PICK b : b = BookSoFar(cfg, w, seq) /\ b.orders = w /\ b.cfg = cfg
  <2>1. BookSoFar(cfg, w, seq).orders = w /\ BookSoFar(cfg, w, seq).cfg = cfg
    BY DEF BookSoFar
  <2> QED BY <2>1
<1>3. RestRestored(b, rec) = b
  BY <1>1, <1>2 DEF RestRestored
<1> QED BY <1>2, <1>3

LEMMA NoneIsCut ==
    ASSUME NEW o, Sound(o)
    PROVE  CutAt(o, 0) = [side \in Sides |-> <<>>]
<1>0. "Bid" \in Sides /\ "Ask" \in Sides /\ \A t \in Sides : t = "Bid" \/ t = "Ask"
  BY DEF Sides
<1>1. PICK x \in Seq(Kept), n \in Nat : x = o["Bid"] /\ n = Len(x)
  <2>1. o["Bid"] \in Seq(Kept) /\ Len(o["Bid"]) \in Nat
    BY <1>0, SideFacts
  <2> QED BY <2>1
<1>2. CutAt(o, 0) = Part(o, {}, "Bid", 0)
  <2>1. 0 <= n
    OBVIOUS
  <2> QED BY <1>1, <2>1 DEF CutAt
<1>3. SubSeq(x, 1, 0) = <<>>
  OBVIOUS
<1>4. \A t \in Sides : (IF t = "Bid" THEN SubSeq(o[t], 1, 0) ELSE <<>>) = <<>>
  BY <1>0, <1>1, <1>3
<1>5. Part(o, {}, "Bid", 0) = [t \in Sides |-> IF t = "Bid" THEN SubSeq(o[t], 1, 0) ELSE <<>>]
  BY DEF Part
<1> QED BY <1>2, <1>4, <1>5

\* x is what is left of book b.
LeftOf(x, b) ==
    x.seq = b.seq /\ \A s \in Sides : IsPrefix(x.orders[s], b.orders[s])

\* Of the first orders of a book those that there is room for are restored.
LEMMA PartIsRestored ==
    ASSUME NEW cfg \in Configs, NEW c, NEW b \in BooksOf(c), NEW os \in Seq(Recs),
           IsPrefix(os, AllRecs(b))
    PROVE  \E x \in BooksOf(cfg) : x = RestoreBook(cfg, b.seq, os) /\ LeftOf(x, b)
<1>0. PICK o : o = b.orders
  OBVIOUS
<1>1. PICK seq \in Nat : o = b.orders /\ Sound(o) /\ seq = b.seq
  BY <1>0, BookFacts
<1>2. PICK all \in Seq(Recs), h \in Nat : all = AllRecs(b) /\ Len(all) = h /\ h = Held(o)
  <2>1. /\ AllRecs(b) \in Seq(Recs) /\ Len(AllRecs(b)) = Held(b.orders)
        /\ Held(b.orders) \in Nat
    BY AllRecsAre
  <2> QED BY <1>1, <2>1
<1>3. PICK n \in Nat : n = Len(os) /\ DOMAIN os = 1 .. n
  OBVIOUS
<1>4. PICK room \in Nat : room = cfg.room
  BY DEF Configs
<1>5. n <= h /\ SubSeq(all, 1, n) = os
  BY <1>2, <1>3, PrefixIsCut
<1>6. \A i \in 1 .. n : os[i] = all[i]
  BY <1>2, <1>3, <1>5
<1> DEFINE Low(i) == IF i <= room THEN i ELSE room
<1>7. ASSUME NEW i \in 0 .. n
      PROVE  Low(i) \in 0 .. h /\ Low(i) <= room
  BY <1>5
<1>8. PICK r : r = [i \in 0 .. n |-> BookSoFar(cfg, CutAt(o, Low(i)), seq)]
  OBVIOUS
<1>9. ASSUME NEW i \in 1 .. n
      PROVE  r[i] = Turn("rest", cfg, r[i - 1], os[i])
  <2>1. i \in 0 .. n /\ i - 1 \in 0 .. n /\ i \in 1 .. h
    BY <1>5
  <2>2. r[i] = BookSoFar(cfg, CutAt(o, Low(i)), seq)
        /\ r[i - 1] = BookSoFar(cfg, CutAt(o, Low(i - 1)), seq)
    BY <1>8, <2>1
  <2>3. CASE i - 1 < room
    <3>1. Low(i) = i /\ Low(i - 1) = i - 1
      BY <2>3
    <3>2. RestRestored(BookSoFar(cfg, CutAt(o, i - 1), seq), all[i])
            = BookSoFar(cfg, CutAt(o, i), seq)
      <4>1. i \in 1 .. Held(b.orders) /\ i - 1 < cfg.room
        BY <1>1, <1>2, <1>4, <2>1, <2>3
      <4>2. RestRestored(BookSoFar(cfg, CutAt(b.orders, i - 1), seq), AllRecs(b)[i])
              = BookSoFar(cfg, CutAt(b.orders, i), seq)
        BY <4>1, CutTurn
      <4> QED BY <1>1, <1>2, <4>2
    <3> QED BY <1>6, <2>2, <3>1, <3>2 DEF Turn
  <2>4. CASE ~(i - 1 < room)
    <3>1. Low(i) = room /\ Low(i - 1) = room /\ room \in 0 .. h
      BY <2>1, <2>4
    <3>2. PICK w : w = CutAt(o, room) /\ Sound(w) /\ Held(w) = room
      BY <1>1, <1>2, <3>1, CutFacts
    <3>3. Held(w) >= cfg.room
      BY <1>4, <3>2
    <3>4. RestRestored(BookSoFar(cfg, w, seq), os[i]) = BookSoFar(cfg, w, seq)
      BY <3>2, <3>3, FullTurn
    <3> QED BY <2>2, <3>1, <3>2, <3>4 DEF Turn
  <2> QED BY <2>3, <2>4
<1>10. Runs("rest", cfg, os, r)
  BY <1>3, <1>9 DEF Runs
<1>11. r[0] = [NewBook(cfg) EXCEPT !.seq = seq]
  <2>1. 0 \in 0 .. n /\ Low(0) = 0
    OBVIOUS
  <2>2. r[0] = BookSoFar(cfg, CutAt(o, 0), seq)
    BY <1>8, <2>1
  <2> QED BY <1>1, <2>2, NoneIsCut DEF BookSoFar, NewBook
<1>12. RestoreBook(cfg, seq, os) = r[n]
  BY <1>3, <1>10, <1>11, RestoreRuns
<1>13. PICK m \in 0 .. h : m = Low(n) /\ m <= room
  <2>1. n \in 0 .. n
    OBVIOUS
  <2> QED BY <1>7, <2>1
<1>14. PICK w : /\ w = CutAt(o, m) /\ Sound(w) /\ Held(w) = m
                /\ \A s \in Sides : IsPrefix(w[s], o[s])
  BY <1>1, <1>2, <1>13, CutFacts
<1> HIDE DEF Low
<1>15. PICK x : x = BookSoFar(cfg, w, seq) /\ x = r[n]
  <2>1. n \in 0 .. n
    OBVIOUS
  <2> QED BY <1>8, <1>13, <1>14, <2>1
<1>16. x = [cfg |-> cfg, orders |-> w, seq |-> seq]
  BY <1>15 DEF BookSoFar
<1>17. seq = 0 => x = NewBook(cfg)
  <2> SUFFICES ASSUME seq = 0 PROVE x = NewBook(cfg)
    OBVIOUS
  <2>1. b = NewBook(c)
    BY <1>1, BookFacts
  <2>2. \A s \in Sides : o[s] = <<>>
    BY <1>1, <2>1 DEF NewBook
  <2>3. Held(o) = 0
    <3>1. "Bid" \in Sides /\ "Ask" \in Sides /\ Len(<<>>) = 0
      BY DEF Sides
    <3>2. CountOf(o, "Bid") = 0 /\ CountOf(o, "Ask") = 0
      BY <2>2, <3>1 DEF CountOf
    <3> QED BY <3>2 DEF Held
  <2>4. m = 0
    BY <1>2, <1>13, <2>3
  <2>5. w = [side \in Sides |-> <<>>]
    BY <1>1, <1>14, <2>4, NoneIsCut
  <2> QED BY <1>16, <2>5 DEF NewBook
<1>18. w \in [Sides -> Seq(Kept)] /\ Held(w) <= cfg.room
  BY <1>4, <1>13, <1>14 DEF Sound
<1>19. x \in BooksOf(cfg)
  BY <1>14, <1>16, <1>17, <1>18 DEF BooksOf
<1>20. x.seq = seq /\ x.orders = w
  BY <1>16
<1>21. LeftOf(x, b)
  BY <1>1, <1>14, <1>20 DEF LeftOf
<1> QED BY <1>1, <1>12, <1>15, <1>19, <1>21

----------------------------------------------------------------------------
(* What is read of the first lines of a snapshot.                          *)

\* The books ps are the first of qs, with the first of their orders.
Begins(ps, qs) ==
    /\ Len(ps) <= Len(qs)
    /\ \A i \in 1 .. Len(ps) :
         /\ ps[i].symbol = qs[i].symbol /\ ps[i].seq = qs[i].seq
         /\ IsPrefix(ps[i].orders, qs[i].orders)

LEMMA BksFacts ==
    ASSUME NEW ps \in Seq(Bks)
    PROVE  /\ Len(ps) \in Nat /\ DOMAIN ps = 1 .. Len(ps)
           /\ \A i \in 1 .. Len(ps) :
                /\ ps[i] \in Bks /\ ps[i].symbol \in Nat /\ ps[i].seq \in Nat
                /\ ps[i].orders \in Seq(Recs)
                /\ ps[i] = BookOf(ps[i].symbol, ps[i].seq, ps[i].orders)
<1>1. \A r \in Bks : /\ r.symbol \in Nat /\ r.seq \in Nat /\ r.orders \in Seq(Recs)
                     /\ r = [symbol |-> r.symbol, seq |-> r.seq, orders |-> r.orders]
  BY DEF Bks
<1>2. Len(ps) \in Nat /\ DOMAIN ps = 1 .. Len(ps) /\ \A i \in 1 .. Len(ps) : ps[i] \in Bks
  OBVIOUS
<1> QED BY <1>1, <1>2 DEF BookOf

LEMMA BeginsItself ==
    ASSUME NEW ps \in Seq(Bks)
    PROVE  Begins(ps, ps)
<1>1. PICK n \in Nat : n = Len(ps)
  OBVIOUS
<1>2. \A i \in 1 .. n : IsPrefix(ps[i].orders, ps[i].orders)
  BY <1>1, BksFacts, PrefixFacts
<1> QED BY <1>1, <1>2 DEF Begins

LEMMA BeginsOn ==
    ASSUME NEW ps \in Seq(Bks), NEW qs \in Seq(Bks), NEW rs \in Seq(Bks),
           Begins(ps, qs), Begins(qs, rs)
    PROVE  Begins(ps, rs)
<1>1. PICK l \in Nat, m \in Nat, n \in Nat : l = Len(ps) /\ m = Len(qs) /\ n = Len(rs)
  OBVIOUS
<1>2. l <= m /\ m <= n
  BY <1>1 DEF Begins
<1>3. ASSUME NEW i \in 1 .. l
      PROVE  /\ ps[i].symbol = rs[i].symbol /\ ps[i].seq = rs[i].seq
             /\ IsPrefix(ps[i].orders, rs[i].orders)
  <2>1. i \in 1 .. m /\ i \in 1 .. n
    BY <1>2
  <2>2. /\ ps[i].symbol = qs[i].symbol /\ ps[i].seq = qs[i].seq
        /\ IsPrefix(ps[i].orders, qs[i].orders)
    BY <1>1 DEF Begins
  <2>3. /\ qs[i].symbol = rs[i].symbol /\ qs[i].seq = rs[i].seq
        /\ IsPrefix(qs[i].orders, rs[i].orders)
    BY <1>1, <2>1 DEF Begins
  <2>4. /\ ps[i].orders \in Seq(Recs) /\ qs[i].orders \in Seq(Recs)
        /\ rs[i].orders \in Seq(Recs)
    BY <1>1, <2>1, BksFacts
  <2>5. IsPrefix(ps[i].orders, rs[i].orders)
    BY <2>2, <2>3, <2>4, PrefixFacts
  <2> QED BY <2>2, <2>3, <2>5
<1>4. l <= n
  BY <1>2
<1> QED BY <1>1, <1>3, <1>4 DEF Begins

LEMMA AppendBegins ==
    ASSUME NEW ps \in Seq(Bks), NEW b \in Bks
    PROVE  Append(ps, b) \in Seq(Bks) /\ Begins(ps, Append(ps, b))
<1>1. PICK n \in Nat : n = Len(ps)
  OBVIOUS
<1>2. PICK qs \in Seq(Bks) : /\ qs = Append(ps, b) /\ Len(qs) = n + 1
                             /\ \A i \in 1 .. n : qs[i] = ps[i]
  <2>1. /\ Append(ps, b) \in Seq(Bks) /\ Len(Append(ps, b)) = n + 1
        /\ \A i \in 1 .. n : Append(ps, b)[i] = ps[i]
    BY <1>1
  <2> QED BY <2>1
<1>3. \A i \in 1 .. n : IsPrefix(ps[i].orders, ps[i].orders)
  BY <1>1, BksFacts, PrefixFacts
<1>4. n <= n + 1
  OBVIOUS
<1> QED BY <1>1, <1>2, <1>3, <1>4 DEF Begins

\* The last book has one order more.
LEMMA OrderBegins ==
    ASSUME NEW ps \in Seq(Bks), NEW b \in Bks, NEW rec \in Recs
    PROVE  LET c == BookOf(b.symbol, b.seq, Append(b.orders, rec))
           IN  c \in Bks /\ Begins(Append(ps, b), Append(ps, c))
<1>1. b.symbol \in Nat /\ b.seq \in Nat
  BY DEF Bks
<1>2. PICK os \in Seq(Recs) : os = b.orders
  BY DEF Bks
<1>3. PICK more \in Seq(Recs) : more = Append(os, rec) /\ IsPrefix(os, more)
  <2>1. PICK k \in Nat : k = Len(os)
    OBVIOUS
  <2>2. PICK w \in Seq(Recs) : w = Append(os, rec)
    <3>1. Append(os, rec) \in Seq(Recs)
      BY AppendAdds
    <3> QED BY <3>1
  <2>3. <<rec>> \in Seq(Recs) /\ os \o <<rec>> = w
    BY <2>2, AppendIsConcat
  <2>4. IsPrefix(os, w)
    BY <2>3, PrefixFacts
  <2> QED BY <2>2, <2>4
<1>4. PICK c \in Bks : /\ c = BookOf(b.symbol, b.seq, Append(b.orders, rec))
                       /\ c.symbol = b.symbol /\ c.seq = b.seq /\ c.orders = more
  <2>1. PICK sym \in Nat, seq \in Nat : sym = b.symbol /\ seq = b.seq
    BY <1>1
  <2>2. PICK c : c = BookOf(sym, seq, more)
    OBVIOUS
  <2>3. c \in Bks /\ c.symbol = sym /\ c.seq = seq /\ c.orders = more
    BY <2>2 DEF BookOf, Bks
  <2>4. c = BookOf(b.symbol, b.seq, Append(b.orders, rec))
    BY <1>2, <1>3, <2>1, <2>2
  <2> QED BY <2>1, <2>3, <2>4
<1>5. PICK n \in Nat : n = Len(ps)
  OBVIOUS
<1>6. PICK x \in Seq(Bks) : /\ x = Append(ps, b) /\ Len(x) = n + 1 /\ x[n + 1] = b
                            /\ \A i \in 1 .. n : x[i] = ps[i]
  <2>1. /\ Append(ps, b) \in Seq(Bks) /\ Len(Append(ps, b)) = n + 1
        /\ Append(ps, b)[n + 1] = b /\ \A i \in 1 .. n : Append(ps, b)[i] = ps[i]
    BY <1>5
  <2> QED BY <2>1
<1>7. PICK y \in Seq(Bks) : /\ y = Append(ps, c) /\ Len(y) = n + 1 /\ y[n + 1] = c
                            /\ \A i \in 1 .. n : y[i] = ps[i]
  <2>1. /\ Append(ps, c) \in Seq(Bks) /\ Len(Append(ps, c)) = n + 1
        /\ Append(ps, c)[n + 1] = c /\ \A i \in 1 .. n : Append(ps, c)[i] = ps[i]
    BY <1>5
  <2> QED BY <2>1
<1>8. \A i \in 1 .. (n + 1) : i \in 1 .. n \/ i = n + 1
  OBVIOUS
<1>9. \A i \in 1 .. n : IsPrefix(ps[i].orders, ps[i].orders)
  BY <1>5, BksFacts, PrefixFacts
<1>10. ASSUME NEW i \in 1 .. (n + 1)
       PROVE  /\ x[i].symbol = y[i].symbol /\ x[i].seq = y[i].seq
              /\ IsPrefix(x[i].orders, y[i].orders)
  <2>1. CASE i \in 1 .. n
    BY <1>6, <1>7, <1>9, <2>1
  <2>2. CASE i = n + 1
    BY <1>2, <1>3, <1>4, <1>6, <1>7, <2>2
  <2> QED BY <1>8, <2>1, <2>2
<1>11. Begins(x, y)
  BY <1>6, <1>7, <1>10 DEF Begins
<1> QED BY <1>4, <1>6, <1>7, <1>11

\* Every line leaves what was read, and adds to it.
LEMMA LineAdds ==
    ASSUME NEW cfg, NEW ps \in Seq(Bks), NEW line \in SnapshotLines
    PROVE  \E qs \in Seq(Bks) : ParseLine(SnapOf(cfg, ps), line) = SnapOf(cfg, qs) /\ Begins(ps, qs)
<1>1. CASE \E sym \in Nat, seq \in Nat : line = BookLine(sym, seq)
  <2>1. PICK sym \in Nat, seq \in Nat : line = BookLine(sym, seq)
    BY <1>1
  <2>2. ParseLine(SnapOf(cfg, ps), line) = SnapOf(cfg, Append(ps, BookOf(sym, seq, <<>>)))
    BY <2>1, BookTurn
  <2>3. BookOf(sym, seq, <<>>) \in Bks
    <3>1. <<>> \in Seq(Recs)
      OBVIOUS
    <3> QED BY <3>1 DEF BookOf, Bks
  <2> QED BY <2>2, <2>3, AppendBegins
<1>2. CASE \E side \in Sides, o \in Kept : line = OrderLine(side, o)
  <2>1. PICK side \in Sides, o \in Kept : line = OrderLine(side, o)
    BY <1>2
  <2>2. CASE ps = <<>>
    <3>1. Get(line, "rec") = "order"
      BY <2>1, OrderIsRead
    <3>2. SnapOf(cfg, ps).books = <<>>
      BY <2>2 DEF SnapOf
    <3>3. ParseLine(SnapOf(cfg, ps), line) = SnapOf(cfg, ps)
      BY <3>1, <3>2 DEF ParseLine
    <3> QED BY <3>3, BeginsItself
  <2>3. CASE ps # <<>>
    <3>1. PICK n \in Nat : n = Len(ps) /\ n # 0
      BY <2>3
    <3>2. PICK front \in Seq(Bks) : front = SubSeq(ps, 1, n - 1)
      <4>1. SubSeq(ps, 1, n - 1) \in Seq(Bks)
        BY <3>1
      <4> QED BY <4>1
    <3>3. PICK b \in Bks : b = ps[n] /\ b = BookOf(b.symbol, b.seq, b.orders)
      <4>1. n \in 1 .. Len(ps)
        BY <3>1
      <4> QED BY <3>1, <4>1, BksFacts
    <3>4. ps = Append(front, b)
      <4>1. Len(front) = n - 1 /\ \A i \in 1 .. (n - 1) : front[i] = ps[i]
        BY <3>1, <3>2
      <4>2. PICK w \in Seq(Bks) : w = Append(front, b)
        <5>1. Append(front, b) \in Seq(Bks)
          BY AppendAdds
        <5> QED BY <5>1
      <4>3. /\ Len(w) = n /\ w[n] = b
            /\ \A i \in 1 .. (n - 1) : w[i] = front[i]
        BY <3>1, <4>1, <4>2
      <4>4. \A i \in 1 .. n : i = n \/ i \in 1 .. (n - 1)
        BY <3>1
      <4>5. \A i \in 1 .. n : w[i] = ps[i]
        BY <3>3, <4>1, <4>3, <4>4
      <4>6. w = ps
        BY <3>1, <4>3, <4>5
      <4> QED BY <4>2, <4>6
    <3>5. PICK rec \in Recs : rec = Rec(side, o)
      <4>1. Rec(side, o) \in Recs
        BY DEF Rec, Recs, Kept
      <4> QED BY <4>1
    <3>6. PICK c : /\ c = BookOf(b.symbol, b.seq, Append(b.orders, rec))
                   /\ c \in Bks /\ Begins(Append(front, b), Append(front, c))
      BY <3>5, OrderBegins
    <3>7. ParseLine(SnapOf(cfg, Append(front, BookOf(b.symbol, b.seq, b.orders))), OrderLine(side, o))
            = SnapOf(cfg, Append(front, BookOf(b.symbol, b.seq, Append(b.orders, Rec(side, o)))))
      BY <3>3, OrderTurn
    <3>8. ParseLine(SnapOf(cfg, ps), line) = SnapOf(cfg, Append(front, c))
      BY <2>1, <3>3, <3>4, <3>5, <3>6, <3>7
    <3>9. Append(front, c) \in Seq(Bks)
      BY <3>6
    <3> QED BY <3>4, <3>6, <3>8, <3>9
  <2> QED BY <2>2, <2>3
<1> QED BY <1>1, <1>2 DEF SnapshotLines

\* r reads qs, line by line.
ReadsTo(r, cfg, body, qs) ==
    /\ r[0] = SnapOf(cfg, <<>>) /\ Runs("parse", cfg, body, r)
    /\ r[Len(body)] = SnapOf(cfg, qs)

WasRead(x, cfg, qs) == \E ps \in Seq(Bks) : x = SnapOf(cfg, ps) /\ Begins(ps, qs)

\* What was read after each line begins what is read after the last.
LEMMA BodyBegins ==
    ASSUME NEW cfg, NEW body \in Seq(SnapshotLines), NEW r, NEW qs, ReadsTo(r, cfg, body, qs)
    PROVE  \A k \in 0 .. Len(body) : WasRead(r[k], cfg, qs)
<1>0. PICK n \in Nat : n = Len(body)
  OBVIOUS
<1> SUFFICES ASSUME NEW k \in 0 .. n
             PROVE  \E ps \in Seq(Bks) : r[k] = SnapOf(cfg, ps) /\ Begins(ps, qs)
  BY <1>0 DEF WasRead
<1>10. r[0] = SnapOf(cfg, <<>>) /\ Runs("parse", cfg, body, r) /\ r[n] = SnapOf(cfg, qs)
  BY <1>0 DEF ReadsTo
<1>1. ASSUME NEW i \in 1 .. n, NEW ps \in Seq(Bks), r[i - 1] = SnapOf(cfg, ps)
      PROVE  \E rs \in Seq(Bks) : r[i] = SnapOf(cfg, rs) /\ Begins(ps, rs)
  <2>1. body[i] \in SnapshotLines
    BY <1>0
  <2>2. r[i] = ParseLine(SnapOf(cfg, ps), body[i])
    BY <1>0, <1>10, <1>1 DEF Runs, Turn
  <2> QED BY <2>1, <2>2, LineAdds
<1>2. <<>> \in Seq(Bks)
  OBVIOUS
<1>3. \A b, c : SnapOf(cfg, b) = SnapOf(cfg, c) => b = c
  BY DEF SnapOf
<1> DEFINE T == {i \in Nat : i \in 0 .. n =>
                   \E rs \in Seq(Bks) : /\ r[i] = SnapOf(cfg, rs)
                                        /\ i >= k => \E ps \in Seq(Bks) :
                                             r[k] = SnapOf(cfg, ps) /\ Begins(ps, rs)}
<1>4. 0 \in T
  <2>1. r[0] = SnapOf(cfg, <<>>) /\ Begins(<<>>, <<>>)
    BY <1>2, <1>10, BeginsItself
  <2>2. 0 >= k => k = 0
    OBVIOUS
  <2>3. 0 >= k => \E ps \in Seq(Bks) : r[k] = SnapOf(cfg, ps) /\ Begins(ps, <<>>)
    BY <1>2, <2>1, <2>2
  <2> QED BY <1>2, <2>1, <2>3
<1>5. ASSUME NEW i \in Nat, i \in T
      PROVE  i + 1 \in T
  <2> SUFFICES ASSUME i + 1 \in 0 .. n
               PROVE  \E rs \in Seq(Bks) : /\ r[i + 1] = SnapOf(cfg, rs)
                                           /\ i + 1 >= k => \E ps \in Seq(Bks) :
                                                r[k] = SnapOf(cfg, ps) /\ Begins(ps, rs)
    OBVIOUS
  <2>1. i \in 0 .. n /\ i + 1 \in 1 .. n /\ (i + 1) - 1 = i
    OBVIOUS
  <2>2. PICK us \in Seq(Bks) : /\ r[i] = SnapOf(cfg, us)
                               /\ i >= k => \E ps \in Seq(Bks) :
                                    r[k] = SnapOf(cfg, ps) /\ Begins(ps, us)
    BY <1>5, <2>1
  <2>3. PICK rs \in Seq(Bks) : r[i + 1] = SnapOf(cfg, rs) /\ Begins(us, rs)
    BY <1>1, <2>1, <2>2
  <2>4. CASE i >= k
    <3>1. PICK ps \in Seq(Bks) : r[k] = SnapOf(cfg, ps) /\ Begins(ps, us)
      BY <2>2, <2>4
    <3>2. Begins(ps, rs)
      BY <2>3, <3>1, BeginsOn
    <3> QED BY <2>3, <3>1, <3>2
  <2>5. CASE i + 1 = k
    <3>1. Begins(rs, rs)
      BY BeginsItself
    <3> QED BY <2>3, <2>5, <3>1
  <2>6. CASE ~(i + 1 >= k)
    BY <2>3, <2>6
  <2> QED BY <2>4, <2>5, <2>6
<1> HIDE DEF T
<1>6. n \in T
  BY <1>4, <1>5, NatInductive
<1>7. PICK rs \in Seq(Bks) :
        /\ r[n] = SnapOf(cfg, rs)
        /\ n >= k => \E ps \in Seq(Bks) : r[k] = SnapOf(cfg, ps) /\ Begins(ps, rs)
  <2>1. n \in 0 .. n
    OBVIOUS
  <2> QED BY <1>6, <2>1 DEF T
<1>8. rs = qs
  BY <1>10, <1>3, <1>7
<1> QED BY <1>7, <1>8

LEMMA RunExists ==
    ASSUME NEW fold, NEW cfg, NEW base, NEW s, NEW n \in Nat
    PROVE  \E r : RunsFrom(n, fold, cfg, base, s, r)
<1> DEFINE T == {k \in Nat : \E r : RunsFrom(k, fold, cfg, base, s, r)}
<1>1. 0 \in T
  <2>1. PICK r : r = [i \in {0} |-> base]
    OBVIOUS
  <2>2. r[0] = base /\ \A i \in 1 .. 0 : FALSE
    BY <2>1
  <2>3. RunsFrom(0, fold, cfg, base, s, r)
    BY <2>2 DEF RunsFrom
  <2> QED BY <2>3
<1>2. ASSUME NEW k \in Nat, k \in T
      PROVE  k + 1 \in T
  <2>1. PICK q : RunsFrom(k, fold, cfg, base, s, q)
    BY <1>2
  <2>2. q[0] = base /\ \A i \in 1 .. k : q[i] = Turn(fold, cfg, q[i - 1], s[i])
    BY <2>1 DEF RunsFrom
  <2>3. PICK r : r = [i \in 0 .. (k + 1) |-> IF i = k + 1 THEN Turn(fold, cfg, q[k], s[k + 1])
                                            ELSE q[i]]
    OBVIOUS
  <2>4. /\ \A i \in 0 .. k : r[i] = q[i]
        /\ r[k + 1] = Turn(fold, cfg, q[k], s[k + 1])
    BY <2>3
  <2>5. ASSUME NEW i \in 1 .. (k + 1)
        PROVE  r[i] = Turn(fold, cfg, r[i - 1], s[i])
    <3>1. CASE i \in 1 .. k
      <4>1. i \in 0 .. k /\ i - 1 \in 0 .. k
        BY <3>1
      <4> QED BY <2>2, <2>4, <3>1, <4>1
    <3>2. CASE i = k + 1
      <4>1. k \in 0 .. k /\ (k + 1) - 1 = k
        OBVIOUS
      <4> QED BY <2>4, <3>2, <4>1
    <3>3. i \in 1 .. k \/ i = k + 1
      OBVIOUS
    <3> QED BY <3>1, <3>2, <3>3
  <2>6. r[0] = base
    <3>1. 0 \in 0 .. k
      OBVIOUS
    <3> QED BY <2>2, <2>4, <3>1
  <2>7. RunsFrom(k + 1, fold, cfg, base, s, r)
    BY <2>5, <2>6 DEF RunsFrom
  <2> QED BY <2>7
<1> HIDE DEF T
<1>3. n \in T
  BY <1>1, <1>2, NatInductive
<1> QED BY <1>3 DEF T

\* The books ps are the first of those of e, with the first of their orders.
AreOf(ps, e) ==
    \A i \in 1 .. Len(ps) :
      /\ ps[i].symbol \in DOMAIN e.books
      /\ ps[i].seq = e.books[ps[i].symbol].seq
      /\ IsPrefix(ps[i].orders, AllRecs(e.books[ps[i].symbol]))

LEMMA CutIsRead ==
    ASSUME NEW e, IsMixed(e), NEW k \in 1 .. Len(EngineLines(e))
    PROVE  \E ps \in Seq(Bks) :
             Parse(SubSeq(EngineLines(e), 1, k)) = SnapOf(e.cfg, ps) /\ AreOf(ps, e)
<1>1. PICK n \in Nat : /\ Len(LiveSymbols(e)) = n /\ DOMAIN LiveSymbols(e) = 1 .. n
                       /\ Ascends(LiveSymbols(e), n, DOMAIN e.books)
  BY LiveSymbolsAscend
<1>2. PICK syms : syms = LiveSymbols(e)
  OBVIOUS
<1>3. PICK cfg \in Configs : cfg = e.cfg
  BY MixedFacts
<1>4. PICK qs : qs = BooksRead(e, syms, n)
  OBVIOUS
<1>5. PICK body \in Seq(SnapshotLines) :
        /\ EngineLines(e) = <<Header(cfg)>> \o body
        /\ Leads("parse", cfg, SnapOf(cfg, <<>>), body, SnapOf(cfg, qs))
  BY <1>1, <1>2, <1>3, <1>4, BodyIsRead
<1>6. PICK l \in Nat : l = Len(body)
  OBVIOUS
<1>7. PICK r : /\ r[0] = SnapOf(cfg, <<>>) /\ Runs("parse", cfg, body, r)
               /\ r[l] = SnapOf(cfg, qs)
  BY <1>5, <1>6 DEF Leads
<1>8. PICK file : file = EngineLines(e) /\ file = <<Header(cfg)>> \o body
  BY <1>5
<1>9. PICK U : U = SnapshotLines \cup {Header(cfg)}
  OBVIOUS
<1>10. PICK h \in Seq(U), t \in Seq(U) : h = <<Header(cfg)>> /\ Len(h) = 1 /\ t = body
  <2>1. <<Header(cfg)>> \in Seq(U) /\ body \in Seq(U) /\ Len(<<Header(cfg)>>) = 1
    BY <1>9
  <2> QED BY <2>1
<1>11. /\ file \in Seq(U) /\ Len(file) = 1 + l /\ file[1] = Header(cfg)
       /\ \A i \in 1 .. l : file[1 + i] = body[i]
  <2>1. /\ h \o t \in Seq(U) /\ Len(h \o t) = Len(h) + Len(t)
        /\ \A i \in 1 .. Len(h) : (h \o t)[i] = h[i]
        /\ \A i \in 1 .. Len(t) : (h \o t)[Len(h) + i] = t[i]
    BY ConcatFacts
  <2>2. h[1] = Header(cfg) /\ 1 \in 1 .. Len(h)
    BY <1>10
  <2> QED BY <1>6, <1>8, <1>10, <2>1, <2>2
<1>12. PICK j \in 0 .. l : k = 1 + j
  <2>1. k - 1 \in 0 .. l /\ k = 1 + (k - 1)
    BY <1>8, <1>11
  <2> QED BY <2>1
<1>13. PICK cut \in Seq(SnapshotLines) : /\ cut = SubSeq(body, 1, j) /\ Len(cut) = j
                                        /\ \A i \in 1 .. j : cut[i] = body[i]
  <2>1. /\ SubSeq(body, 1, j) \in Seq(SnapshotLines) /\ Len(SubSeq(body, 1, j)) = j
        /\ \A i \in 1 .. j : SubSeq(body, 1, j)[i] = body[i]
    BY <1>6
  <2> QED BY <2>1
<1>14. SubSeq(file, 1, k) = <<Header(cfg)>> \o cut
  <2>1. PICK z \in Seq(U) : z = SubSeq(file, 1, k) /\ Len(z) = k
                            /\ \A i \in 1 .. k : z[i] = file[i]
    <3>1. /\ SubSeq(file, 1, k) \in Seq(U) /\ Len(SubSeq(file, 1, k)) = k
          /\ \A i \in 1 .. k : SubSeq(file, 1, k)[i] = file[i]
      BY <1>11, <1>12
    <3> QED BY <3>1
  <2>2. PICK c \in Seq(U) : c = cut /\ Len(c) = j
    <3>1. cut \in Seq(U)
      BY <1>9
    <3> QED BY <1>13, <3>1
  <2>3. /\ h \o c \in Seq(U) /\ Len(h \o c) = Len(h) + Len(c)
        /\ \A i \in 1 .. Len(h) : (h \o c)[i] = h[i]
        /\ \A i \in 1 .. Len(c) : (h \o c)[Len(h) + i] = c[i]
    BY ConcatFacts
  <2>4. PICK y \in Seq(U) : /\ y = h \o c /\ Len(y) = k /\ y[1] = Header(cfg)
                            /\ \A i \in 1 .. j : y[1 + i] = cut[i]
    <3>1. h[1] = Header(cfg) /\ 1 \in 1 .. Len(h)
      BY <1>10
    <3> QED BY <1>10, <1>12, <2>2, <2>3, <3>1
  <2>5. \A i \in 1 .. k : i = 1 \/ \E m \in 1 .. j : i = 1 + m
    <3> TAKE i \in 1 .. k
    <3>1. i # 1 => i - 1 \in 1 .. j /\ i = 1 + (i - 1)
      BY <1>12
    <3> QED BY <3>1
  <2>6. ASSUME NEW i \in 1 .. k
        PROVE  z[i] = y[i]
    <3>1. CASE i = 1
      BY <1>11, <2>1, <2>4, <3>1
    <3>2. CASE i # 1
      <4>1. PICK m \in 1 .. j : i = 1 + m /\ m \in 1 .. l
        BY <1>12, <2>5, <3>2
      <4>2. z[i] = body[m]
        BY <1>11, <2>1, <4>1
      <4>3. y[i] = body[m]
        BY <1>13, <2>4, <4>1
      <4> QED BY <4>2, <4>3
    <3> QED BY <3>1, <3>2
  <2>7. z = y
    BY <2>1, <2>4, <2>6, SeqEqual
  <2> QED BY <1>10, <2>1, <2>2, <2>4, <2>7
<1>15. Leads("parse", cfg, SnapOf(cfg, <<>>), cut, r[j])
  <2>1. \A i \in 1 .. j : i \in 1 .. l
    BY <1>12
  <2>2. \A i \in 1 .. j : r[i] = Turn("parse", cfg, r[i - 1], cut[i])
    BY <1>6, <1>7, <1>13, <2>1 DEF Runs
  <2>3. Runs("parse", cfg, cut, r) /\ r[Len(cut)] = r[j] /\ r[0] = SnapOf(cfg, <<>>)
    BY <1>7, <1>13, <2>2 DEF Runs
  <2> QED BY <2>3 DEF Leads
<1>16. Parse(SubSeq(file, 1, k)) = r[j]
  BY <1>14, <1>15, FileIsRead
<1>17. PICK ps \in Seq(Bks) : r[j] = SnapOf(cfg, ps) /\ Begins(ps, qs)
  <2>1. ReadsTo(r, cfg, body, qs)
    BY <1>6, <1>7 DEF ReadsTo
  <2>2. WasRead(r[j], cfg, qs)
    BY <1>6, <2>1, BodyBegins
  <2> QED BY <2>2 DEF WasRead
<1>18. Len(qs) = n /\ \A i \in 1 .. n : qs[i] = BookRead(syms[i], e.books[syms[i]])
  BY <1>4 DEF BooksRead
<1>19. PICK m \in Nat : m = Len(ps) /\ m <= n
  <2>1. Len(ps) \in Nat
    OBVIOUS
  <2>2. Len(ps) <= n
    BY <1>17, <1>18 DEF Begins
  <2> QED BY <2>1, <2>2
<1>20. ASSUME NEW i \in 1 .. m
       PROVE  /\ ps[i].symbol \in DOMAIN e.books
              /\ ps[i].seq = e.books[ps[i].symbol].seq
              /\ IsPrefix(ps[i].orders, AllRecs(e.books[ps[i].symbol]))
  <2>1. i \in 1 .. n
    BY <1>19
  <2>2. /\ qs[i].symbol = syms[i] /\ qs[i].seq = e.books[syms[i]].seq
        /\ qs[i].orders = AllRecs(e.books[syms[i]])
    BY <1>18, <2>1 DEF BookRead, BookOf
  <2>3. /\ ps[i].symbol = qs[i].symbol /\ ps[i].seq = qs[i].seq
        /\ IsPrefix(ps[i].orders, qs[i].orders)
    BY <1>17, <1>19 DEF Begins
  <2>4. syms[i] \in DOMAIN e.books
    BY <1>1, <1>2, <2>1 DEF Ascends
  <2> QED BY <2>2, <2>3, <2>4
<1>21. AreOf(ps, e)
  BY <1>19, <1>20 DEF AreOf
<1> QED BY <1>3, <1>8, <1>16, <1>17, <1>21

----------------------------------------------------------------------------
(* What is restored of it.                                                 *)

\* x has books of e, the same numbers, and of the orders the first.
IsLeftOf(x, e) ==
    \A sym \in DOMAIN x.books : /\ sym \in DOMAIN e.books
                                /\ LeftOf(x.books[sym], e.books[sym])

LEMMA AddLeaves ==
    ASSUME NEW cfg \in Configs, NEW e, IsMixed(e), NEW p \in Bks,
           p.symbol \in DOMAIN e.books, p.seq = e.books[p.symbol].seq,
           IsPrefix(p.orders, AllRecs(e.books[p.symbol])),
           NEW x, IsMixed(x), IsLeftOf(x, e)
    PROVE  LET y == AddBook(x, p.symbol, RestoreBook(cfg, p.seq, p.orders))
           IN  IsMixed(y) /\ IsLeftOf(y, e)
<1>1. PICK s \in Nat : s = p.symbol /\ s \in DOMAIN e.books
  BY DEF Bks
<1>2. PICK c, b : c \in Configs /\ b \in BooksOf(c) /\ b = e.books[s]
  <2>1. e.books[s] \in AnyBook
    BY <1>1, MixedFacts
  <2> QED BY <2>1 DEF AnyBook
<1>3. PICK os \in Seq(Recs) : os = p.orders /\ IsPrefix(os, AllRecs(b))
  BY <1>1, <1>2 DEF Bks
<1>4. PICK z \in BooksOf(cfg) : z = RestoreBook(cfg, b.seq, os) /\ LeftOf(z, b)
  BY <1>2, <1>3, PartIsRestored
<1>5. PICK y : y = AddBook(x, s, z)
  OBVIOUS
<1>6. IsMixed(y)
  BY <1>4, <1>5, AddedIsMixed, BookIsAny
<1>7. PICK f : f = x.books /\ y.books = Emplaced(f, s, z)
  <2>1. x = [cfg |-> x.cfg, books |-> x.books]
    BY MixedFacts
  <2>2. PICK any, f : f = x.books /\ x = [cfg |-> any, books |-> f]
    BY <2>1
  <2>3. y = [cfg |-> any, books |-> Emplaced(f, s, z)]
    BY <1>5, <2>2 DEF AddBook
  <2> QED BY <2>2, <2>3
<1>8. PICK g : g = y.books /\ DOMAIN g = DOMAIN f \cup {s}
               /\ \A t \in DOMAIN g : g[t] = IF t \in DOMAIN f THEN f[t] ELSE z
  BY <1>7 DEF Emplaced
<1>9. ASSUME NEW t \in DOMAIN g
      PROVE  t \in DOMAIN e.books /\ LeftOf(g[t], e.books[t])
  <2>1. CASE t \in DOMAIN f
    BY <1>7, <1>8, <2>1 DEF IsLeftOf
  <2>2. CASE t \notin DOMAIN f
    BY <1>1, <1>2, <1>4, <1>8, <2>2
  <2> QED BY <2>1, <2>2
<1>10. IsLeftOf(y, e)
  BY <1>8, <1>9 DEF IsLeftOf
<1> QED BY <1>1, <1>2, <1>3, <1>4, <1>5, <1>6, <1>10

LEMMA CutIsRestored ==
    ASSUME NEW cfg \in Configs, NEW e, IsMixed(e), NEW ps \in Seq(Bks), AreOf(ps, e)
    PROVE  LET x == RestoreEngine(SnapOf(cfg, ps)) IN IsMixed(x) /\ IsLeftOf(x, e)
<1>1. PICK n \in Nat : n = Len(ps) /\ DOMAIN ps = 1 .. n
  OBVIOUS
<1>2. PICK r : RunsFrom(n, "books", cfg, NewEngine(cfg), ps, r)
  BY RunExists
<1>3. r[0] = NewEngine(cfg) /\ \A i \in 1 .. n : r[i] = Turn("books", cfg, r[i - 1], ps[i])
  BY <1>2 DEF RunsFrom
<1>4. PICK from : from = SnapOf(cfg, ps) /\ from.cfg = cfg /\ from.books = ps
  <2>1. SnapOf(cfg, ps).cfg = cfg /\ SnapOf(cfg, ps).books = ps
    BY DEF SnapOf
  <2> QED BY <2>1
<1>5. Runs("books", from.cfg, from.books, r)
  BY <1>1, <1>3, <1>4 DEF Runs
<1>6. RestoreEngine(from) = r[n]
  BY <1>1, <1>3, <1>4, <1>5, BooksRun
<1> DEFINE T == {i \in Nat : i \in 0 .. n => IsMixed(r[i]) /\ IsLeftOf(r[i], e)}
<1>7. 0 \in T
  <2>1. IsMixed(NewEngine(cfg))
    BY NewIsEngine, EngineIsMixed
  <2>2. IsLeftOf(NewEngine(cfg), e)
    BY DEF IsLeftOf, NewEngine
  <2> QED BY <1>3, <2>1, <2>2
<1>8. ASSUME NEW i \in Nat, i \in T
      PROVE  i + 1 \in T
  <2> SUFFICES ASSUME i + 1 \in 0 .. n
               PROVE  IsMixed(r[i + 1]) /\ IsLeftOf(r[i + 1], e)
    OBVIOUS
  <2>1. i \in 0 .. n /\ i + 1 \in 1 .. n /\ (i + 1) - 1 = i
    OBVIOUS
  <2>2. PICK x : x = r[i] /\ IsMixed(x) /\ IsLeftOf(x, e)
    BY <1>8, <2>1
  <2>3. PICK p \in Bks : /\ p = ps[i + 1]
                         /\ p.symbol \in DOMAIN e.books
                         /\ p.seq = e.books[p.symbol].seq
                         /\ IsPrefix(p.orders, AllRecs(e.books[p.symbol]))
    BY <1>1, <2>1, BksFacts DEF AreOf
  <2>4. r[i + 1] = AddBook(x, p.symbol, RestoreBook(cfg, p.seq, p.orders))
    <3>1. r[i + 1] = Turn("books", cfg, x, p)
      BY <1>3, <2>1, <2>2, <2>3
    <3> QED BY <3>1 DEF Turn
  <2> QED BY <2>2, <2>3, <2>4, AddLeaves
<1> HIDE DEF T
<1>9. n \in T
  BY <1>7, <1>8, NatInductive
<1>10. IsMixed(r[n]) /\ IsLeftOf(r[n], e)
  <2>1. n \in 0 .. n
    OBVIOUS
  <2> QED BY <1>9, <2>1 DEF T
<1> QED BY <1>4, <1>6, <1>10

LEMMA LinesAreASeq ==
    ASSUME NEW e, IsMixed(e)
    PROVE  IsSeq(EngineLines(e)) /\ Len(EngineLines(e)) \in Nat
<1>1. PICK n \in Nat : /\ Len(LiveSymbols(e)) = n /\ DOMAIN LiveSymbols(e) = 1 .. n
                       /\ Ascends(LiveSymbols(e), n, DOMAIN e.books)
  BY LiveSymbolsAscend
<1>2. PICK syms, cfg : syms = LiveSymbols(e) /\ cfg = e.cfg
  OBVIOUS
<1>3. IsSeq(EngineLines(e))
  BY <1>1, <1>2, BooksAreRead
<1> QED BY <1>3 DEF IsSeq

\* Of a snapshot cut short an engine is restored, and unless the header is lost
\* the engine that was saved, but for books and orders at the end.
THEOREM TornIsRestored ==
    ASSUME NEW e, IsMixed(e), NEW k \in 0 .. Len(EngineLines(e))
    PROVE  LET x == RestoreEngine(Parse(SubSeq(EngineLines(e), 1, k)))
           IN  IsMixed(x) /\ (k # 0 => IsLeftOf(x, e))
<1>1. CASE k # 0
  <2>1. k \in 1 .. Len(EngineLines(e))
    BY <1>1
  <2>2. PICK ps \in Seq(Bks) :
          Parse(SubSeq(EngineLines(e), 1, k)) = SnapOf(e.cfg, ps) /\ AreOf(ps, e)
    BY <2>1, CutIsRead
  <2>3. e.cfg \in Configs
    BY MixedFacts
  <2> QED BY <2>2, <2>3, CutIsRestored
<1>2. CASE k = 0
  <2>1. PICK ps \in Seq(Bks) : ps = <<>> /\ Len(ps) = 0
    <3>1. <<>> \in Seq(Bks) /\ Len(<<>>) = 0
      OBVIOUS
    <3> QED BY <3>1
  <2>2. AreOf(ps, e)
    BY <2>1 DEF AreOf
  <2>3. PICK file : file = SubSeq(EngineLines(e), 1, k) /\ file = <<>>
    <3>1. IsSeq(EngineLines(e))
      BY LinesAreASeq
    <3>2. SubSeq(EngineLines(e), 1, 0) = <<>>
      BY <3>1 DEF IsSeq
    <3> QED BY <1>2, <3>2
  <2>4. Parse(file) = SnapOf(DefaultConfig, <<>>)
    <3>1. PICK r : r = [i \in {0} |-> SnapOf(DefaultConfig, <<>>)]
      OBVIOUS
    <3>2. r[0] = SnapOf(DefaultConfig, <<>>) /\ Len(file) = 0 /\ DOMAIN file = 1 .. 0
      BY <2>3, <3>1
    <3>3. Runs("parse", DefaultConfig, file, r)
      BY <3>2 DEF Runs
    <3>4. Len(file) \in Nat /\ DOMAIN file = 1 .. Len(file)
      BY <3>2
    <3>5. Parse(file) = r[Len(file)]
      BY <3>2, <3>3, <3>4, ParseRuns DEF SnapOf
    <3> QED BY <3>2, <3>5
  <2>5. DefaultConfig \in Configs
    BY DEF DefaultConfig, BookConfig, Configs
  <2> QED BY <1>2, <2>1, <2>2, <2>3, <2>4, <2>5, CutIsRestored
<1> QED BY <1>1, <1>2

----------------------------------------------------------------------------
(* What a torn line reads as.                                              *)

\* A set of numbers that has the leading digits of its members.
HasLeading(X) == \A x \in X : x >= 10 => x \div 10 \in X

LEMMA TenthIsLess ==
    ASSUME NEW n \in Nat, n >= 10
    PROVE  n \div 10 \in Nat /\ n \div 10 < n
<1>1. PICK d \in Int, r \in Int : d = n \div 10 /\ r \in 0 .. 9 /\ n = 10 * d + r
  <2>1. 10 \in Nat \ {0} /\ n \in Int
    OBVIOUS
  <2>2. n \div 10 \in Int /\ n % 10 \in 0 .. (10 - 1) /\ n = 10 * (n \div 10) + (n % 10)
    BY <2>1, DivMod
  <2> QED BY <2>2
<1>2. d \in Nat /\ d < n
  BY <1>1
<1> QED BY <1>1, <1>2

CutsBody(f) == [n \in Nat |-> IF n < 10 THEN {} ELSE {n \div 10} \cup f[n \div 10]]

LEMMA CutsExist == \E f : f = CutsBody(f)
<1> DEFINE From(d) == {X \in SUBSET Nat : d \in X /\ HasLeading(X)}
           f == [n \in Nat |-> {m \in Nat : n >= 10 /\ \A X \in From(n \div 10) : m \in X}]
<1>1. ASSUME NEW n \in Nat, n < 10
      PROVE  f[n] = CutsBody(f)[n]
  BY <1>1 DEF CutsBody
<1>2. ASSUME NEW n \in Nat, n >= 10
      PROVE  f[n] = CutsBody(f)[n]
  <2>1. PICK d \in Nat : d = n \div 10
    BY <1>2, TenthIsLess
  <2>2. f[n] = {m \in Nat : \A X \in From(d) : m \in X}
    BY <1>2, <2>1
  <2>3. f[d] = {m \in Nat : d >= 10 /\ \A X \in From(d \div 10) : m \in X}
    OBVIOUS
  <2>4. CutsBody(f)[n] = {d} \cup f[d]
    BY <1>2, <2>1 DEF CutsBody
  <2> HIDE DEF f
  <2>5. d \in f[n]
    BY <2>2
  <2>6. ASSUME NEW m \in f[d]
        PROVE  m \in f[n]
    <3>1. d >= 10 /\ m \in Nat /\ \A X \in From(d \div 10) : m \in X
      BY <2>3, <2>6
    <3>2. ASSUME NEW X \in From(d)
          PROVE  X \in From(d \div 10)
      BY <3>1 DEF HasLeading
    <3> QED BY <2>2, <3>1, <3>2
  <2>7. ASSUME NEW m \in f[n], m # d
        PROVE  m \in f[d]
    <3>1. m \in Nat /\ \A X \in From(d) : m \in X
      BY <2>2, <2>7
    <3>2. d >= 10
      <4>1. CASE d < 10
        <5>1. {d} \in From(d)
          BY <4>1 DEF HasLeading
        <5> QED BY <2>7, <3>1, <5>1
      <4> QED BY <4>1
    <3>3. ASSUME NEW X \in From(d \div 10)
          PROVE  m \in X
      <4>1. X \cup {d} \in From(d)
        BY <3>2 DEF HasLeading
      <4> QED BY <2>7, <3>1, <4>1
    <3> QED BY <2>3, <3>1, <3>2, <3>3
  <2> QED BY <2>4, <2>5, <2>6, <2>7
<1>3. f = CutsBody(f)
  <2>1. \A n \in Nat : f[n] = CutsBody(f)[n]
    BY <1>1, <1>2
  <2>2. DOMAIN f = Nat /\ f = [n \in Nat |-> f[n]]
    OBVIOUS
  <2> HIDE DEF f
  <2>3. CutsBody(f) = [n \in Nat |-> CutsBody(f)[n]]
    BY DEF CutsBody
  <2> QED BY <2>1, <2>2, <2>3
<1> QED BY <1>3

LEMMA CutsAreCuts == Cuts = CutsBody(Cuts)
<1>1. (CHOOSE f : f = CutsBody(f)) = CutsBody(CHOOSE f : f = CutsBody(f))
  BY CutsExist
<1>2. Cuts = CHOOSE f : f = CutsBody(f)
  BY DEF Cuts, CutsBody
<1> QED BY <1>1, <1>2

LEMMA CutsAreNats == \A n \in Nat : Cuts[n] \subseteq Nat
<1>1. ASSUME NEW n \in Nat, n < 10
      PROVE  Cuts[n] = {}
  <2>1. CutsBody(Cuts)[n] = {}
    BY <1>1 DEF CutsBody
  <2> QED BY <2>1, CutsAreCuts
<1>2. ASSUME NEW n \in Nat, n >= 10
      PROVE  Cuts[n] = {n \div 10} \cup Cuts[n \div 10]
  <2>1. CutsBody(Cuts)[n] = {n \div 10} \cup Cuts[n \div 10]
    BY <1>2 DEF CutsBody
  <2> QED BY <2>1, CutsAreCuts
<1> DEFINE T == {n \in Nat : \A j \in 0 .. n : Cuts[j] \subseteq Nat}
<1>3. 0 \in T
  <2>1. \A j \in 0 .. 0 : j \in Nat /\ j < 10
    OBVIOUS
  <2>2. \A j \in 0 .. 0 : Cuts[j] \subseteq Nat
    BY <1>1, <2>1
  <2> QED BY <2>2
<1>4. ASSUME NEW n \in Nat, n \in T
      PROVE  n + 1 \in T
  <2>1. Cuts[n + 1] \subseteq Nat
    <3>1. CASE n + 1 < 10
      <4>1. Cuts[n + 1] = {}
        BY <1>1, <3>1
      <4> QED BY <4>1
    <3>2. CASE n + 1 >= 10
      <4>1. PICK d \in Nat : d = (n + 1) \div 10 /\ d < n + 1
        BY <3>2, TenthIsLess
      <4>2. Cuts[d] \subseteq Nat
        BY <1>4, <4>1
      <4>3. PICK m \in Nat : m = n + 1 /\ m >= 10
        BY <3>2
      <4>4. Cuts[m] = {d} \cup Cuts[d]
        <5>1. Cuts[m] = {m \div 10} \cup Cuts[m \div 10]
          BY <1>2, <4>3
        <5> QED BY <4>1, <4>3, <5>1, Zenon
      <4> QED BY <4>1, <4>2, <4>3, <4>4
    <3> QED BY <3>1, <3>2
  <2>2. \A j \in 0 .. (n + 1) : j \in 0 .. n \/ j = n + 1
    OBVIOUS
  <2> QED BY <1>4, <2>1, <2>2
<1>5. \A n \in Nat : n \in T
  <2> HIDE DEF T
  <2> QED BY <1>3, <1>4, NatInductive
<1>6. \A n \in Nat : n \in 0 .. n
  OBVIOUS
<1> QED BY <1>5, <1>6

LEMMA CutsAreNumbers ==
    /\ \A n \in Nat : CutsOf(n) \subseteq Nat
    /\ \A n \in Int : CutsOf(n) \subseteq Int
<1>1. ASSUME NEW n \in Nat
      PROVE  CutsOf(n) \subseteq Nat
  <2>1. CutsOf(n) = Cuts[n]
    BY DEF CutsOf
  <2> QED BY <2>1, CutsAreNats
<1>2. ASSUME NEW n \in Int, n < 0
      PROVE  CutsOf(n) \subseteq Int
  <2>1. PICK m \in Nat : m = -n
    BY <1>2
  <2>2. CutsOf(n) = {0} \cup {-i : i \in Cuts[m]}
    BY <1>2, <2>1 DEF CutsOf
  <2>3. \A i \in Cuts[m] : -i \in Int
    BY CutsAreNats
  <2> QED BY <2>2, <2>3
<1>3. \A n \in Int : n < 0 \/ n \in Nat
  OBVIOUS
<1>4. Nat \subseteq Int
  OBVIOUS
<1> QED BY <1>1, <1>2, <1>3, <1>4

\* The numbers of a line are numbers.
IsTypedField(f) ==
    /\ f.key \in {"symbol", "order_id", "qty"} => f.val \in Nat
    /\ f.key = "price" => f.val \in Int

IsTyped(line) == \E X : line \in Seq(X) /\ \A f \in X : IsTypedField(f)

LEMMA TypedIsRead ==
    ASSUME NEW line, IsTyped(line)
    PROVE  /\ Parsed(line).sym \in Nat
           /\ Parsed(line).ok => Parsed(line).cmd \in Readable
<1>1. PICK X : line \in Seq(X) /\ \A f \in X : IsTypedField(f)
  BY DEF IsTyped
<1>2. ASSUME NEW key
      PROVE  Num(line, key) = 0 \/ \E f \in X : f.key = key /\ Num(line, key) = f.val
  <2> DEFINE I == {i \in DOMAIN line : line[i].key = key}
  <2>1. CASE I = {}
    <3>1. Get(line, key) = NIL
      BY <2>1 DEF Get
    <3> QED BY <3>1 DEF Num, Or
  <2>2. CASE I # {}
    <3>1. I \subseteq Nat
      BY <1>1
    <3>2. PICK i \in I : \A j \in I : i <= j
      BY <2>2, <3>1, NatLeast
    <3>3. PICK k \in I : Get(line, key) = line[k].val
      BY <3>2 DEF Get
    <3>4. line[k] \in X /\ line[k].key = key
      BY <1>1
    <3> QED BY <3>3, <3>4 DEF Num, Or
  <2> QED BY <2>1, <2>2
<1>3. \A key \in {"symbol", "order_id", "qty"} : Num(line, key) \in Nat
  BY <1>1, <1>2 DEF IsTypedField
<1>4. Num(line, "price") \in Int
  BY <1>1, <1>2 DEF IsTypedField
<1> QED BY <1>3, <1>4, NumbersMakeCommand

LEMMA TornIsTyped ==
    ASSUME NEW line, IsTyped(line), NEW torn \in Torn(line)
    PROVE  IsTyped(torn)
<1>1. PICK X : line \in Seq(X) /\ \A f \in X : IsTypedField(f)
  BY DEF IsTyped
<1>2. CASE torn \in {SubSeq(line, 1, i) : i \in 0 .. Len(line) - 1}
  <2>1. PICK i \in 0 .. Len(line) - 1 : torn = SubSeq(line, 1, i)
    BY <1>2
  <2>2. torn \in Seq(X)
    BY <1>1, <2>1
  <2> QED BY <1>1, <2>2 DEF IsTyped
<1>3. ASSUME NEW i \in DOMAIN line,
             NEW n \in IF line[i].key \in NumberKeys THEN CutsOf(line[i].val) ELSE {},
             torn = Append(SubSeq(line, 1, i - 1), Field(line[i].key, n))
      PROVE  IsTyped(torn)
  <2>1. PICK g : g = line[i] /\ g \in X /\ IsTypedField(g)
    BY <1>1
  <2>2. n \in CutsOf(g.val)
    BY <1>3, <2>1
  <2>3. PICK f : f = Field(g.key, n) /\ f.key = g.key /\ f.val = n
    <3>1. Field(g.key, n).key = g.key /\ Field(g.key, n).val = n
      BY DEF Field
    <3> QED BY <3>1
  <2>4. IsTypedField(f)
    BY <2>1, <2>2, <2>3, CutsAreNumbers DEF IsTypedField
  <2>5. PICK q \in Seq(X) : q = SubSeq(line, 1, i - 1)
    <3>1. i - 1 \in 0 .. Len(line) /\ i \in Nat
      BY <1>1
    <3>2. SubSeq(line, 1, i - 1) \in Seq(X)
      BY <1>1, <3>1
    <3> QED BY <3>2
  <2>6. Append(q, f) \in Seq(X \cup {f})
    BY <2>5
  <2>7. torn = Append(q, f)
    BY <1>3, <2>1, <2>3, <2>5
  <2> QED BY <1>1, <2>4, <2>6, <2>7 DEF IsTyped
<1>4. torn \in UNION {{Append(SubSeq(line, 1, i - 1), Field(line[i].key, n)) :
                         n \in IF line[i].key \in NumberKeys THEN CutsOf(line[i].val)
                               ELSE {}} :
                        i \in DOMAIN line}
      => IsTyped(torn)
  BY <1>3
<1> QED BY <1>2, <1>4 DEF Torn

LEMMA WrittenIsTyped ==
    ASSUME NEW sym \in Nat, NEW c \in Constructed
    PROVE  IsTyped(Written(sym, c))
<1>1. ASSUME NEW id \in Nat, NEW side \in Sides, NEW price \in Int, NEW qty \in Nat,
             NEW tif \in Tifs
      PROVE  IsTyped(Written(sym, NewLimit(id, side, price, qty, tif)))
  <2> DEFINE fs == <<Field("cmd", "new"), Field("symbol", sym), Field("order_id", id),
                     Field("side", SideText(side)), Field("otype", "limit"),
                     Field("price", price), Field("qty", qty), Field("tif", TifText[tif])>>
             X == {Field("cmd", "new"), Field("symbol", sym), Field("order_id", id),
                   Field("side", SideText(side)), Field("otype", "limit"),
                   Field("price", price), Field("qty", qty), Field("tif", TifText[tif])}
  <2>1. Written(sym, NewLimit(id, side, price, qty, tif)) = fs
    BY DEF Written, NewLimit
  <2>2. fs \in Seq(X)
    OBVIOUS
  <2>3. \A f \in X : IsTypedField(f)
    BY DEF IsTypedField, Field
  <2> HIDE DEF X, fs
  <2> QED BY <2>1, <2>2, <2>3 DEF IsTyped
<1>2. ASSUME NEW id \in Nat, NEW side \in Sides, NEW qty \in Nat
      PROVE  IsTyped(Written(sym, NewMarket(id, side, qty)))
  <2> DEFINE fs == <<Field("cmd", "new"), Field("symbol", sym), Field("order_id", id),
                     Field("side", SideText(side)), Field("otype", "market"),
                     Field("qty", qty), Field("tif", TifText["Ioc"])>>
             X == {Field("cmd", "new"), Field("symbol", sym), Field("order_id", id),
                   Field("side", SideText(side)), Field("otype", "market"),
                   Field("qty", qty), Field("tif", TifText["Ioc"])}
  <2>1. Written(sym, NewMarket(id, side, qty)) = fs
    BY DEF Written, NewMarket
  <2>2. fs \in Seq(X)
    OBVIOUS
  <2>3. \A f \in X : IsTypedField(f)
    BY DEF IsTypedField, Field
  <2> HIDE DEF X, fs
  <2> QED BY <2>1, <2>2, <2>3 DEF IsTyped
<1>3. ASSUME NEW id \in Nat
      PROVE  IsTyped(Written(sym, CancelOf(id)))
  <2> DEFINE fs == <<Field("cmd", "cancel"), Field("symbol", sym), Field("order_id", id)>>
             X == {Field("cmd", "cancel"), Field("symbol", sym), Field("order_id", id)}
  <2>1. Written(sym, CancelOf(id)) = fs
    BY DEF Written, CancelOf, Changing
  <2>2. fs \in Seq(X)
    OBVIOUS
  <2>3. \A f \in X : IsTypedField(f)
    BY DEF IsTypedField, Field
  <2> HIDE DEF X, fs
  <2> QED BY <2>1, <2>2, <2>3 DEF IsTyped
<1>4. ASSUME NEW id \in Nat, NEW price \in Int, NEW qty \in Nat
      PROVE  IsTyped(Written(sym, ReplaceOf(id, price, qty)))
  <2> DEFINE fs == <<Field("cmd", "replace"), Field("symbol", sym), Field("order_id", id),
                     Field("price", price), Field("qty", qty)>>
             X == {Field("cmd", "replace"), Field("symbol", sym), Field("order_id", id),
                   Field("price", price), Field("qty", qty)}
  <2>1. Written(sym, ReplaceOf(id, price, qty)) = fs
    BY DEF Written, ReplaceOf, Changing
  <2>2. fs \in Seq(X)
    OBVIOUS
  <2>3. \A f \in X : IsTypedField(f)
    BY DEF IsTypedField, Field
  <2> HIDE DEF X, fs
  <2> QED BY <2>1, <2>2, <2>3 DEF IsTyped
<1> QED BY <1>1, <1>2, <1>3, <1>4 DEF Constructed

----------------------------------------------------------------------------
(* Recovery whatever a crash cuts short.                                   *)

\* The configurations are such, and the commands are those of Command's
\* constructors.
Fit ==
    /\ Config \in Configs /\ OwnConfigs \subseteq Configs
    /\ \A c \in Commands : IsCommand(c)

\* A line is no command, or one that an engine takes.
ReadsWell(line) ==
    /\ Parsed(line).sym \in Nat
    /\ Parsed(line).ok => Parsed(line).cmd \in Readable

AllReadWell(jr) == IsSeq(jr) /\ \A i \in 1 .. Len(jr) : ReadsWell(jr[i])

AllCommands(snt) == IsSeq(snt) /\ \A i \in 1 .. Len(snt) : IsCommand(snt[i])

\* The snapshot has the first lines of what was to be saved.
IsCutShort(sn) ==
    /\ IsMixed(sn.of) /\ sn.at \in Nat
    /\ \E n \in 0 .. Len(EngineLines(sn.of)) : sn.file = SubSeq(EngineLines(sn.of), 1, n)

\* Recovery begins with what the snapshot has.
BeginsWith(ph, e, sn, p) ==
    ph = "replaying" =>
      p >= sn.at /\ (p = sn.at => e = RestoreEngine(Parse(sn.file)))

LossInv ==
    /\ AllReadWell(journal) /\ AllCommands(sent) /\ (phase = "recorded" => Len(sent) # 0)
    /\ IsMixed(engine) /\ IsCutShort(snap)
    /\ pos \in Nat /\ BeginsWith(phase, engine, snap, pos)

LEMMA SeqHasLength ==
    ASSUME NEW s, IsSeq(s)
    PROVE  Len(s) \in Nat
  BY DEF IsSeq

LEMMA CommandReadsWell ==
    ASSUME NEW c, IsCommand(c)
    PROVE  /\ ReadsWell(Written(c.sym, c.cmd))
           /\ \A line \in Torn(Written(c.sym, c.cmd)) : ReadsWell(line)
<1>1. IsTyped(Written(c.sym, c.cmd))
  BY WrittenIsTyped DEF IsCommand
<1> QED BY <1>1, TornIsTyped, TypedIsRead DEF ReadsWell

LEMMA OneMoreReads ==
    ASSUME NEW jr, AllReadWell(jr), NEW line, ReadsWell(line)
    PROVE  AllReadWell(Append(jr, line))
<1>1. PICK n \in Nat : n = Len(jr)
  BY SeqHasLength DEF AllReadWell
<1>2. PICK s : /\ s = Append(jr, line) /\ IsSeq(s) /\ Len(s) = n + 1
               /\ s[n + 1] = line /\ \A i \in 1 .. n : s[i] = jr[i]
  <2>1. PICK t : t = Append(jr, line)
    OBVIOUS
  <2>2. /\ IsSeq(t) /\ Len(t) = Len(jr) + 1
        /\ t[Len(jr) + 1] = line /\ \A i \in 1 .. Len(jr) : t[i] = jr[i]
    BY <2>1, Appended DEF AllReadWell
  <2> QED BY <1>1, <2>1, <2>2
<1>3. \A i \in 1 .. (n + 1) : i \in 1 .. n \/ i = n + 1
  OBVIOUS
<1>4. \A i \in 1 .. (n + 1) : ReadsWell(s[i])
  BY <1>1, <1>2, <1>3 DEF AllReadWell
<1> QED BY <1>2, <1>4 DEF AllReadWell

LEMMA OneMoreCommand ==
    ASSUME NEW snt, AllCommands(snt), NEW c, IsCommand(c)
    PROVE  AllCommands(Append(snt, c)) /\ Len(Append(snt, c)) # 0
<1>1. PICK n \in Nat : n = Len(snt)
  BY SeqHasLength DEF AllCommands
<1>2. PICK s : /\ s = Append(snt, c) /\ IsSeq(s) /\ Len(s) = n + 1
               /\ s[n + 1] = c /\ \A i \in 1 .. n : s[i] = snt[i]
  <2>1. PICK t : t = Append(snt, c)
    OBVIOUS
  <2>2. /\ IsSeq(t) /\ Len(t) = Len(snt) + 1
        /\ t[Len(snt) + 1] = c /\ \A i \in 1 .. Len(snt) : t[i] = snt[i]
    BY <2>1, Appended DEF AllCommands
  <2> QED BY <1>1, <2>1, <2>2
<1>3. \A i \in 1 .. (n + 1) : i \in 1 .. n \/ i = n + 1
  OBVIOUS
<1>4. \A i \in 1 .. (n + 1) : IsCommand(s[i])
  BY <1>1, <1>2, <1>3 DEF AllCommands
<1> QED BY <1>2, <1>4 DEF AllCommands

LEMMA MixedIsSaved ==
    ASSUME NEW e, IsMixed(e), NEW k \in Nat, NEW mark, NEW n \in 0 .. Len(EngineLines(e)),
           NEW sn, sn = [file |-> SubSeq(EngineLines(e), 1, n), at |-> k, mark |-> mark, of |-> e]
    PROVE  IsCutShort(sn)
  BY DEF IsCutShort

LEMMA WholeIsCut ==
    ASSUME NEW e, IsMixed(e)
    PROVE  /\ Len(EngineLines(e)) \in 0 .. Len(EngineLines(e))
           /\ SubSeq(EngineLines(e), 1, Len(EngineLines(e))) = EngineLines(e)
<1>1. PICK s : s = EngineLines(e) /\ IsSeq(s) /\ Len(s) \in Nat
  BY LinesAreASeq
<1>2. SubSeq(s, 1, Len(s)) = s /\ Len(s) \in 0 .. Len(s)
  BY <1>1 DEF IsSeq
<1> QED BY <1>1, <1>2

LEMMA LossBegins ==
    ASSUME Fit, Init
    PROVE  LossInv
<1>1. IsMixed(NewEngine(Config))
  BY NewIsEngine, EngineIsMixed DEF Fit
<1>2. PICK sn : /\ sn = snap
                /\ sn = [file |-> EngineLines(NewEngine(Config)), at |-> 0, mark |-> 0,
                         of |-> NewEngine(Config)]
  BY DEF Init
<1>3. IsCutShort(sn)
  BY <1>1, <1>2, WholeIsCut, MixedIsSaved
<1>4. AllReadWell(<<>>) /\ AllCommands(<<>>)
  BY DEF AllReadWell, AllCommands, IsSeq
<1>5. journal = <<>> /\ sent = <<>> /\ engine = NewEngine(Config) /\ phase = "ready" /\ pos = 0
  BY DEF Init
<1> QED BY <1>1, <1>2, <1>3, <1>4, <1>5 DEF LossInv, BeginsWith

LEMMA LossRecords ==
    ASSUME Fit, LossInv, NEW c \in Commands, Record(c) \/ CrashWhileRecording(c)
    PROVE  LossInv'
<1>1. IsCommand(c)
  BY DEF Fit
<1>2. UNCHANGED <<snap, engine, pos>> /\ phase' # "replaying"
  BY DEF Record, CrashWhileRecording, GoDown
<1>3. AllReadWell(journal')
  <2>1. PICK line : ReadsWell(line) /\ journal' = Append(journal, line)
    BY <1>1, CommandReadsWell DEF Record, CrashWhileRecording
  <2> QED BY <2>1, OneMoreReads DEF LossInv
<1>4. AllCommands(sent') /\ (phase' = "recorded" => Len(sent') # 0)
  <2>1. CASE Record(c)
    <3>1. sent' = Append(sent, c)
      BY <2>1 DEF Record
    <3> QED BY <1>1, <3>1, OneMoreCommand DEF LossInv
  <2>2. CASE CrashWhileRecording(c)
    BY <2>2 DEF CrashWhileRecording, GoDown, LossInv
  <2> QED BY <2>1, <2>2
<1> QED BY <1>2, <1>3, <1>4 DEF LossInv, BeginsWith

LEMMA LossAdds ==
    ASSUME Fit, LossInv, NEW c \in Commands, NEW cfg \in OwnConfigs, AddOwnSymbol(c.sym, cfg)
    PROVE  LossInv'
<1>1. c.sym \in Nat /\ cfg \in Configs
  BY DEF Fit, IsCommand
<1>2. NewBook(cfg) \in AnyBook
  BY <1>1, NewIsSound, BookIsAny
<1>3. IsMixed(AddBook(engine, c.sym, NewBook(cfg)))
  BY <1>1, <1>2, AddedIsMixed DEF LossInv
<1>4. /\ engine' = AddBook(engine, c.sym, NewBook(cfg)) /\ phase' = "ready"
      /\ UNCHANGED <<journal, snap, pos, sent>>
  BY DEF AddOwnSymbol, AddSymbol, files
<1> QED BY <1>3, <1>4 DEF LossInv, BeginsWith

LEMMA LossSubmits ==
    ASSUME Fit, LossInv, Submit
    PROVE  LossInv'
<1>1. PICK n \in Nat : n = Len(sent) /\ n # 0
  BY SeqHasLength DEF LossInv, AllCommands, Submit
<1>2. PICK c : c = sent[n] /\ IsCommand(c)
  <2>1. n \in 1 .. n
    BY <1>1
  <2> QED BY <1>1, <2>1 DEF LossInv, AllCommands
<1>3. IsMixed(Submitted(engine, c.sym, c.cmd).engine)
  BY <1>2, ConstructedIsReadable, SubmittedIsMixed DEF LossInv, IsCommand
<1>4. /\ engine' = Submitted(engine, c.sym, c.cmd).engine /\ phase' = "emitting"
      /\ UNCHANGED <<journal, snap, pos, sent>>
  BY <1>1, <1>2 DEF Submit, files
<1> QED BY <1>3, <1>4 DEF LossInv, BeginsWith

LEMMA LossSaves ==
    ASSUME Fit, LossInv, TakeSnapshot \/ CrashWhileSaving
    PROVE  LossInv'
<1>1. PICK s : s = EngineLines(engine) /\ IsSeq(s) /\ Len(s) \in Nat
  BY LinesAreASeq DEF LossInv
<1>2. Len(journal) \in Nat
  BY SeqHasLength DEF LossInv, AllReadWell
<1>3. PICK n \in 0 .. Len(s) :
        snap' = [file |-> SubSeq(s, 1, n), at |-> Len(journal), mark |-> Len(egress),
                 of |-> engine]
  <2>1. CASE TakeSnapshot
    BY <1>1, <2>1, WholeIsCut DEF TakeSnapshot, LossInv
  <2>2. CASE CrashWhileSaving
    <3>1. PICK n \in 0 .. Len(s) - 1 :
            snap' = [file |-> SubSeq(s, 1, n), at |-> Len(journal), mark |-> Len(egress),
                     of |-> engine]
      BY <1>1, <2>2 DEF CrashWhileSaving
    <3>2. n \in 0 .. Len(s)
      BY <1>1
    <3> QED BY <3>1, <3>2
  <2> QED BY <2>1, <2>2
<1>4. IsCutShort(snap')
  BY <1>1, <1>2, <1>3, MixedIsSaved DEF LossInv
<1>5. phase' \in {"ready", "down"} /\ UNCHANGED <<journal, engine, pos, sent>>
  BY DEF TakeSnapshot, CrashWhileSaving, GoDown
<1> QED BY <1>4, <1>5 DEF LossInv, BeginsWith

LEMMA LossRestarts ==
    ASSUME Fit, LossInv, Restart
    PROVE  LossInv'
<1>1. /\ engine' = RestoreEngine(Parse(snap.file)) /\ pos' = snap.at /\ phase' = "replaying"
      /\ UNCHANGED <<journal, snap, sent>>
  BY DEF Restart
<1>2. IsMixed(engine')
  BY <1>1, TornIsRestored DEF LossInv, IsCutShort
<1>3. snap.at \in Nat /\ snap.at >= snap.at
  BY DEF LossInv, IsCutShort
<1> QED BY <1>1, <1>2, <1>3 DEF LossInv, BeginsWith

LEMMA LossReplays ==
    ASSUME Fit, LossInv, ReplayLine
    PROVE  LossInv'
<1>1. PICK k \in Nat : k = pos /\ k + 1 \in 1 .. Len(journal)
  <2>1. pos \in Nat /\ Len(journal) \in Nat /\ pos < Len(journal)
    BY SeqHasLength DEF LossInv, AllReadWell, ReplayLine
  <2> QED BY <2>1
<1>2. PICK read : read = Parsed(journal[k + 1]) /\ read.sym \in Nat /\ read.ok /\ read.cmd \in Readable
  BY <1>1 DEF ReplayLine, LossInv, AllReadWell, ReadsWell
<1>3. IsMixed(Submitted(engine, read.sym, read.cmd).engine)
  BY <1>2, SubmittedIsMixed DEF LossInv
<1>4. engine' = Submitted(engine, read.sym, read.cmd).engine
  <2>1. \E d \in {Submitted(engine, read.sym, read.cmd)} : engine' = d.engine
    BY <1>1, <1>2 DEF ReplayLine
  <2> QED BY <2>1
<1>5. phase = "replaying" /\ pos' = k + 1 /\ UNCHANGED <<journal, snap, sent, phase>>
  BY <1>1 DEF ReplayLine
<1>6. k + 1 \in Nat /\ k + 1 > snap.at /\ snap.at \in Nat
  BY <1>1, <1>5 DEF LossInv, BeginsWith, IsCutShort
<1> QED BY <1>3, <1>4, <1>5, <1>6 DEF LossInv, BeginsWith

LEMMA LossStays ==
    ASSUME Fit, LossInv, [Next]_vars
    PROVE  LossInv'
<1>1. CASE UNCHANGED vars
  BY <1>1 DEF LossInv, vars, files
<1>2. CASE Deliver \/ Crash
  <2>1. phase' \in {"ready", "emitting", "down"} /\ UNCHANGED <<journal, snap, engine, pos, sent>>
    BY <1>2 DEF Deliver, Crash, GoDown
  <2> QED BY <2>1 DEF LossInv, BeginsWith
<1>3. CASE Refuse \/ Resume
  <2>1. phase' \in {"ready", "refused"} /\ UNCHANGED <<journal, snap, engine, pos, sent>>
    BY <1>3 DEF Refuse, Resume, files
  <2> QED BY <2>1 DEF LossInv, BeginsWith
<1> QED BY <1>1, <1>2, <1>3, LossRecords, LossAdds, LossSubmits, LossSaves, LossRestarts,
           LossReplays DEF Next, Recover

\* Whatever crashes cut short, in the journal or in a snapshot, as often as they
\* like: what recovery starts from has nothing that was not saved, and of every
\* side of a book it has the first orders as they were.
THEOREM TearsOnlyLose ==
    ASSUME Fit
    PROVE  Spec => []TearOnlyLoses
<1>1. Init => LossInv
  BY LossBegins
<1>2. LossInv /\ [Next]_vars => LossInv'
  BY LossStays
<1>3. LossInv => TearOnlyLoses
  <2> SUFFICES ASSUME LossInv, phase = "replaying", pos = snap.at, snap.file # <<>>,
                      NEW sym \in DOMAIN engine.books
               PROVE  /\ sym \in DOMAIN snap.of.books
                      /\ LeftOf(engine.books[sym], snap.of.books[sym])
    BY DEF TearOnlyLoses, LeftOf
  <2>1. PICK e, n : /\ e = snap.of /\ IsMixed(e) /\ n \in 0 .. Len(EngineLines(e))
                    /\ snap.file = SubSeq(EngineLines(e), 1, n)
    BY DEF LossInv, IsCutShort
  <2>2. n # 0
    <3>1. IsSeq(EngineLines(e))
      BY <2>1, LinesAreASeq
    <3>2. SubSeq(EngineLines(e), 1, 0) = <<>>
      BY <3>1 DEF IsSeq
    <3> QED BY <2>1, <3>2
  <2>3. engine = RestoreEngine(Parse(SubSeq(EngineLines(e), 1, n)))
    BY <2>1 DEF LossInv, BeginsWith
  <2>4. IsLeftOf(engine, e)
    BY <2>1, <2>2, <2>3, TornIsRestored
  <2> QED BY <2>1, <2>4 DEF IsLeftOf
<1> QED BY <1>1, <1>2, <1>3, PTL DEF Spec

----------------------------------------------------------------------------
(* A journal whose last line is torn.                                      *)

\* The event journal is as long as it was when the snapshot was taken.
MarkInv == IsSeq(egress) /\ snap.mark \in 0 .. Len(egress)

LEMMA SeqIsCut ==
    ASSUME NEW s, IsSeq(s), NEW m \in 0 .. Len(s)
    PROVE  /\ IsSeq(SubSeq(s, 1, m)) /\ Len(SubSeq(s, 1, m)) = m
           /\ SubSeq(SubSeq(s, 1, m), 1, m) = SubSeq(s, 1, m)
<1>1. PICK S : s \in Seq(S)
  BY DEF IsSeq
<1>2. PICK t : t = SubSeq(s, 1, m)
  OBVIOUS
<1>4. t \in Seq(S) /\ Len(t) = m
  BY <1>1, <1>2
<1>3. SubSeq(t, 1, m) = t /\ IsSeq(t)
  BY <1>4 DEF IsSeq
<1> QED BY <1>2, <1>3, <1>4

LEMMA IsSeqOf ==
    ASSUME NEW S, NEW s \in Seq(S)
    PROVE  IsSeq(s)
  BY DEF IsSeq

LEMMA PartFacts ==
    ASSUME NEW S, NEW s \in Seq(S), NEW m \in Nat, m <= Len(s)
    PROVE  /\ SubSeq(s, 1, m) \in Seq(S) /\ Len(SubSeq(s, 1, m)) = m
           /\ \A i \in 1 .. m : SubSeq(s, 1, m)[i] = s[i]
  OBVIOUS

LEMMA SeqsAreJoined ==
    ASSUME NEW s, IsSeq(s), NEW t, IsSeq(t)
    PROVE  /\ IsSeq(s \o t) /\ Len(s) <= Len(s \o t) /\ Len(s \o t) \in Nat /\ Len(s) \in Nat
           /\ \A m \in 0 .. Len(s) : SubSeq(s \o t, 1, m) = SubSeq(s, 1, m)
<1>1. PICK S : s \in Seq(S) /\ t \in Seq(S)
  <2> DEFINE S == {s[i] : i \in DOMAIN s} \cup {t[i] : i \in DOMAIN t}
  <2>1. s \in Seq(S) /\ t \in Seq(S)
    BY DEF IsSeq
  <2> QED BY <2>1
<1>2. PICK u \in Seq(S) : /\ u = s \o t /\ Len(u) = Len(s) + Len(t)
                          /\ \A i \in 1 .. Len(s) : u[i] = s[i]
  <2>1. PICK v : v = s \o t
    OBVIOUS
  <2>2. /\ v \in Seq(S) /\ Len(v) = Len(s) + Len(t)
        /\ \A i \in 1 .. Len(s) : v[i] = s[i]
    BY <1>1, <2>1, ConcatFacts
  <2> QED BY <2>1, <2>2
<1>3. IsSeq(u) /\ Len(s) <= Len(u) /\ Len(u) \in Nat /\ Len(s) \in Nat
  <2>1. IsSeq(u) /\ Len(u) \in Nat /\ Len(s) \in Nat /\ Len(t) \in Nat
    BY IsSeqOf, SeqHasLength
  <2> QED BY <1>2, <2>1
<1>4. ASSUME NEW m \in 0 .. Len(s)
      PROVE  SubSeq(u, 1, m) = SubSeq(s, 1, m)
  <2>1. m \in Nat /\ m <= Len(s) /\ m <= Len(u)
    BY <1>3
  <2>2. PICK p, q : p = SubSeq(u, 1, m) /\ q = SubSeq(s, 1, m)
    OBVIOUS
  <2>3. /\ p \in Seq(S) /\ Len(p) = m /\ \A i \in 1 .. m : p[i] = u[i]
        /\ q \in Seq(S) /\ Len(q) = m /\ \A i \in 1 .. m : q[i] = s[i]
    BY <1>1, <2>1, <2>2, PartFacts
  <2>4. \A i \in 1 .. m : p[i] = q[i]
    <3>1. \A i \in 1 .. m : i \in 1 .. Len(s)
      BY <1>3, <2>1
    <3> QED BY <1>2, <2>3, <3>1
  <2>5. p = q
    BY <2>3, <2>4
  <2> QED BY <2>2, <2>5
<1> QED BY <1>2, <1>3, <1>4

LEMMA ReplayFacts ==
    ASSUME Fit, LossInv, ReplayLine
    PROVE  \E k \in Nat : \E read, done :
             /\ k = pos /\ k + 1 \in 1 .. Len(journal)
             /\ read = Parsed(journal[k + 1]) /\ read.ok
             /\ done = Submitted(engine, read.sym, read.cmd)
             /\ engine' = done.engine /\ egress' = egress \o Printed(done.events)
             /\ IsSeq(Printed(done.events))
             /\ pos' = k + 1 /\ phase = "replaying" /\ phase' = "replaying"
             /\ UNCHANGED <<journal, snap, sent, ideal>>
<1>1. PICK k \in Nat : k = pos /\ k + 1 \in 1 .. Len(journal)
  <2>1. pos \in Nat /\ Len(journal) \in Nat /\ pos < Len(journal)
    BY SeqHasLength DEF LossInv, AllReadWell, ReplayLine
  <2> QED BY <2>1
<1>2. PICK read : read = Parsed(journal[k + 1]) /\ read.sym \in Nat /\ read.ok /\ read.cmd \in Readable
  BY <1>1 DEF ReplayLine, LossInv, AllReadWell, ReadsWell
<1>3. PICK done : done = Submitted(engine, read.sym, read.cmd)
  OBVIOUS
<1>4. engine' = done.engine /\ egress' = egress \o Printed(done.events)
  <2>1. \E d \in {Submitted(engine, read.sym, read.cmd)} :
           engine' = d.engine /\ egress' = egress \o Printed(d.events)
    BY <1>1, <1>2 DEF ReplayLine
  <2> QED BY <1>3, <2>1
<1>5. IsSeq(Printed(done.events))
  <2>1. done.events \in Seq(Tagged)
    BY <1>2, <1>3, MixedEvents DEF LossInv
  <2>2. Printed(done.events) \in Seq(Printable)
    BY <2>1, PrintedFacts
  <2> QED BY <2>2 DEF IsSeq
<1>6. /\ pos' = k + 1 /\ phase = "replaying" /\ phase' = "replaying"
      /\ UNCHANGED <<journal, snap, sent, ideal>>
  BY <1>1 DEF ReplayLine
<1> QED BY <1>1, <1>2, <1>3, <1>4, <1>5, <1>6

LEMMA MarkStays ==
    ASSUME Fit, LossInv, MarkInv, [Next]_vars
    PROVE  MarkInv'
<1>1. PICK n \in Nat, m \in Nat : n = Len(egress) /\ m = snap.mark /\ m <= n
  <2>1. Len(egress) \in Nat
    BY SeqHasLength DEF MarkInv
  <2> QED BY <2>1 DEF MarkInv
<1>2. ASSUME UNCHANGED <<egress, snap>>
      PROVE  MarkInv'
  BY <1>2 DEF MarkInv
<1>3. ASSUME NEW t, IsSeq(t), egress' = egress \o t, snap' = snap
      PROVE  MarkInv'
  <2>1. IsSeq(egress') /\ Len(egress') \in Nat /\ n <= Len(egress')
    BY <1>1, <1>3, SeqsAreJoined DEF MarkInv
  <2> QED BY <1>1, <1>3, <2>1 DEF MarkInv
<1>4. CASE Deliver
  <2>1. PICK h : h = Head(pending)
    OBVIOUS
  <2>2. IsSeq(Printed(<<h>>))
    BY DEF Printed, IsSeq
  <2> QED BY <1>3, <1>4, <2>1, <2>2 DEF Deliver
<1>5. CASE ReplayLine
  BY <1>3, <1>5, ReplayFacts
<1>6. CASE Restart
  <2>1. egress' = SubSeq(egress, 1, m) /\ snap' = snap
    BY <1>1, <1>6 DEF Restart
  <2>2. IsSeq(egress') /\ Len(egress') = m
    BY <1>1, <2>1, SeqIsCut DEF MarkInv
  <2> QED BY <1>1, <2>1, <2>2 DEF MarkInv
<1>7. CASE TakeSnapshot \/ CrashWhileSaving
  <2>1. egress' = egress /\ snap'.mark = n
    BY <1>1, <1>7 DEF TakeSnapshot, CrashWhileSaving, GoDown
  <2> QED BY <1>1, <2>1 DEF MarkInv
<1>8. ASSUME NEW c \in Commands,
             Record(c) \/ CrashWhileRecording(c) \/ \E cfg \in OwnConfigs : AddOwnSymbol(c.sym, cfg)
      PROVE  MarkInv'
  BY <1>2, <1>8 DEF Record, CrashWhileRecording, GoDown, AddOwnSymbol, files
<1>9. CASE Submit \/ Crash \/ Refuse \/ Resume \/ UNCHANGED vars
  BY <1>2, <1>9 DEF Submit, Crash, GoDown, Refuse, Resume, vars, files
<1> QED BY <1>4, <1>5, <1>6, <1>7, <1>8, <1>9 DEF Next, Recover

\* The snapshot has all of what a run without a crash has, and so have the
\* events kept with it.
NothingIsLost(sn, out, idl) ==
    /\ sn.file = EngineLines(sn.of) /\ sn.of = idl[sn.at + 1].engine
    /\ SubSeq(out, 1, sn.mark) = idl[sn.at + 1].egress

\* The journal has the lines of the run.
NoneIsTorn ==
    /\ Chronicle(sent, journal, ideal) /\ snap.at <= Len(sent) /\ phase # "refused"

\* Its last line is not of the run.  Recovery has yet to get to it, or has
\* refused it; when nothing was lost it has what the run had.
TailIsTorn ==
    /\ Len(journal) = Len(sent) + 1 /\ snap.at <= Len(sent)
    /\ \E whole, line : journal = Append(whole, line) /\ Chronicle(sent, whole, ideal)
    /\ phase \in {"down", "replaying", "refused"}
    /\ phase # "down" =>
         /\ pos \in snap.at .. Len(sent)
         /\ NothingIsLost(snap, egress, ideal) =>
              engine = ideal[pos + 1].engine /\ egress = ideal[pos + 1].egress
    /\ phase = "refused" => pos = Len(sent)

\* A torn line was a command too, and has been applied as one: no line is
\* refused any more.
AllAreCommands ==
    /\ IsSeq(journal) /\ IsSeq(sent) /\ Len(journal) = Len(sent) + 1
    /\ \A i \in 1 .. Len(journal) : Parsed(journal[i]).ok
    /\ pos \in Nat /\ snap.at \in Nat /\ phase # "refused"

ManyAreTorn == IsSeq(journal) /\ IsSeq(sent) /\ Len(journal) > Len(sent) + 1

TornInv ==
    /\ LossInv /\ MarkInv
    /\ NoneIsTorn \/ TailIsTorn \/ AllAreCommands \/ ManyAreTorn

\* The lines of the run are its commands.
ReadsAs(line, c) ==
    Parsed(line).ok /\ Parsed(line).sym = c.sym /\ Parsed(line).cmd = c.cmd

LEMMA ChronicleParses ==
    ASSUME NEW snt, NEW jr, NEW idl, Chronicle(snt, jr, idl), NEW i \in 1 .. Len(snt)
    PROVE  ReadsAs(jr[i], snt[i]) /\ idl[i + 1] = Done(idl[i], snt[i])
<1>1. PICK c : /\ c = snt[i] /\ c.sym \in Nat /\ c.cmd \in Constructed
               /\ jr[i] = Written(c.sym, c.cmd) /\ idl[i + 1] = Done(idl[i], c)
  BY DEF Chronicle, IsTurn, IsCommand
<1>2. PICK read : read = Parsed(jr[i])
  OBVIOUS
<1>3. read = [ok |-> TRUE, sym |-> c.sym, cmd |-> c.cmd]
  BY <1>1, <1>2, ParseInvertsWrite
<1>4. read.ok /\ read.sym = c.sym /\ read.cmd = c.cmd
  BY <1>3
<1> QED BY <1>1, <1>2, <1>4 DEF ReadsAs

LEMMA NoneIsTornStays ==
    ASSUME Fit, LossInv, NoneIsTorn, [Next]_vars
    PROVE  NoneIsTorn' \/ TailIsTorn'
<1>1. PICK n \in Nat, m \in Nat : /\ n = Len(sent) /\ n = Len(journal) /\ m = snap.at /\ m <= n
  BY DEF NoneIsTorn, Chronicle, LossInv, IsCutShort
<1>2. IsSeq(journal) /\ IsSeq(sent)
  BY DEF NoneIsTorn, Chronicle
<1>3. ASSUME UNCHANGED <<journal, sent, ideal>>, phase' # "refused", snap'.at \in {m, n}
      PROVE  NoneIsTorn'
  <2>1. snap'.at <= n /\ Len(sent') = n
    <3>1. PICK j \in Nat : j = snap'.at /\ j <= n
      BY <1>1, <1>3
    <3>2. sent' = sent
      BY <1>3
    <3> QED BY <1>1, <3>1, <3>2
  <2>2. Chronicle(sent', journal', ideal')
    BY <1>3 DEF NoneIsTorn
  <2> QED BY <1>3, <2>1, <2>2 DEF NoneIsTorn
<1>4. ASSUME NEW c \in Commands, Record(c)
      PROVE  NoneIsTorn'
  <2>1. /\ journal' = Append(journal, Written(c.sym, c.cmd)) /\ sent' = Append(sent, c)
        /\ ideal' = Append(ideal, Done(ideal[Len(ideal)], c))
        /\ phase' = "recorded" /\ snap' = snap
    BY <1>4 DEF Record, Done
  <2>2. Chronicle(sent', journal', ideal')
    BY <2>1, ChronicleGrows DEF NoneIsTorn, Fit
  <2>3. Len(sent') = n + 1
    BY <1>1, <1>2, <2>1, Appended
  <2> QED BY <1>1, <2>1, <2>2, <2>3 DEF NoneIsTorn
<1>5. ASSUME NEW c \in Commands, CrashWhileRecording(c)
      PROVE  TailIsTorn'
  <2>1. PICK line : journal' = Append(journal, line)
    BY <1>5 DEF CrashWhileRecording
  <2>2. phase' = "down" /\ UNCHANGED <<snap, sent, ideal>>
    BY <1>5 DEF CrashWhileRecording, GoDown
  <2>3. Len(journal') = n + 1
    BY <1>1, <1>2, <2>1, Appended
  <2> QED BY <1>1, <2>1, <2>2, <2>3 DEF NoneIsTorn, TailIsTorn
<1>6. ~Refuse
  <2> SUFFICES ASSUME Refuse PROVE FALSE
    OBVIOUS
  <2>1. PICK k \in Nat : k = pos /\ k < n /\ ~Parsed(journal[k + 1]).ok
    BY <1>1 DEF Refuse, LossInv
  <2>2. k + 1 \in 1 .. Len(sent)
    BY <1>1, <2>1
  <2>3. ReadsAs(journal[k + 1], sent[k + 1])
    BY <2>2, ChronicleParses DEF NoneIsTorn
  <2> QED BY <2>1, <2>3 DEF ReadsAs
<1>7. ASSUME NEW c \in Commands, NEW cfg \in OwnConfigs, AddOwnSymbol(c.sym, cfg)
      PROVE  NoneIsTorn'
  BY <1>1, <1>3, <1>7 DEF AddOwnSymbol, files
<1>8. CASE Submit \/ Deliver \/ Crash
  <2>1. UNCHANGED <<journal, snap, sent, ideal>> /\ phase' # "refused"
    BY <1>8 DEF Submit, Deliver, Crash, GoDown, files
  <2> QED BY <1>1, <1>3, <2>1
<1>9. CASE TakeSnapshot \/ CrashWhileSaving
  <2>1. UNCHANGED <<journal, sent, ideal>> /\ phase' # "refused" /\ snap'.at = n
    BY <1>1, <1>9 DEF TakeSnapshot, CrashWhileSaving, GoDown
  <2> QED BY <1>3, <2>1
<1>10. CASE Restart \/ ReplayLine \/ Resume
  <2>1. UNCHANGED <<journal, snap, sent, ideal>> /\ phase' # "refused"
    BY <1>10 DEF Restart, ReplayLine, Resume, files
  <2> QED BY <1>1, <1>3, <2>1
<1>11. CASE UNCHANGED vars
  BY <1>11 DEF vars, files, NoneIsTorn
<1> QED BY <1>4, <1>5, <1>6, <1>7, <1>8, <1>9, <1>10, <1>11 DEF Next, Recover

\* The lines before the torn one.
LEMMA TornLines ==
    ASSUME TailIsTorn, LossInv
    PROVE  \E n \in Nat :
             /\ n = Len(sent) /\ Len(journal) = n + 1 /\ IsSeq(journal) /\ IsSeq(sent)
             /\ snap.at \in 0 .. n
             /\ \A i \in 1 .. n :
                  /\ ReadsAs(journal[i], sent[i])
                  /\ ideal[i + 1] = Done(ideal[i], sent[i])
             /\ \A i \in 0 .. n : IsIdeal(ideal[i + 1])
<1>1. PICK whole, line : journal = Append(whole, line) /\ Chronicle(sent, whole, ideal)
  BY DEF TailIsTorn
<1>2. PICK n \in Nat : n = Len(sent) /\ n = Len(whole) /\ IsSeq(whole) /\ IsSeq(sent)
  BY <1>1 DEF Chronicle
<1>3. /\ IsSeq(journal) /\ Len(journal) = n + 1
      /\ \A i \in 1 .. n : journal[i] = whole[i]
  BY <1>1, <1>2, Appended
<1>4. \A i \in 1 .. n :
        /\ ReadsAs(whole[i], sent[i])
        /\ ideal[i + 1] = Done(ideal[i], sent[i])
  <2> TAKE i \in 1 .. n
  <2>1. i \in 1 .. Len(sent) /\ Chronicle(sent, whole, ideal)
    BY <1>1, <1>2
  <2> QED BY <2>1, ChronicleParses
<1>5. \A i \in 1 .. n :
        /\ ReadsAs(journal[i], sent[i])
        /\ ideal[i + 1] = Done(ideal[i], sent[i])
  BY <1>3, <1>4
<1>6. \A i \in 0 .. n : IsIdeal(ideal[i + 1])
  BY <1>1, <1>2, ChronicleFacts
<1>7. snap.at \in 0 .. n
  BY <1>2 DEF TailIsTorn, LossInv, IsCutShort
<1> QED BY <1>2, <1>3, <1>5, <1>6, <1>7

LEMMA TornRestarts ==
    ASSUME Fit, LossInv, MarkInv, TailIsTorn, Restart
    PROVE  TailIsTorn'
<1>1. PICK n \in Nat : /\ n = Len(sent) /\ snap.at \in 0 .. n
                       /\ \A i \in 0 .. n : IsIdeal(ideal[i + 1])
  BY TornLines
<1>2. PICK k \in Nat : k = snap.at /\ k \in 0 .. n
  BY <1>1
<1>3. /\ phase' = "replaying" /\ pos' = k
      /\ engine' = RestoreEngine(Parse(snap.file)) /\ egress' = SubSeq(egress, 1, snap.mark)
      /\ UNCHANGED <<journal, snap, sent, ideal>>
  BY <1>2 DEF Restart
<1>4. PICK x : x = ideal[k + 1] /\ IsIdeal(x)
  BY <1>1, <1>2
<1>5. ASSUME NothingIsLost(snap, egress', ideal)
      PROVE  engine' = x.engine /\ egress' = x.egress
  <2>1. /\ snap.file = EngineLines(x.engine)
        /\ SubSeq(egress', 1, snap.mark) = x.egress
    BY <1>2, <1>4, <1>5 DEF NothingIsLost
  <2>2. SubSeq(egress', 1, snap.mark) = egress'
    BY <1>3, SeqIsCut DEF MarkInv
  <2>3. IsEngine(x.engine, Config) /\ Config \in Configs
    BY <1>4 DEF IsIdeal, Fit
  <2>4. RestoreEngine(Parse(EngineLines(x.engine))) = x.engine
    BY <2>3, SnapshotRestores
  <2> QED BY <1>3, <2>1, <2>2, <2>4
<1>6. NothingIsLost(snap', egress', ideal') =>
        engine' = ideal'[pos' + 1].engine /\ egress' = ideal'[pos' + 1].egress
  BY <1>3, <1>4, <1>5
<1>7. pos' \in snap'.at .. Len(sent')
  <2>1. k \in k .. n
    BY <1>2
  <2> QED BY <1>1, <1>2, <1>3, <2>1
<1>8. /\ Len(journal') = Len(sent') + 1 /\ snap'.at <= Len(sent')
      /\ \E whole, line : journal' = Append(whole, line) /\ Chronicle(sent', whole, ideal')
  BY <1>3 DEF TailIsTorn
<1> QED BY <1>3, <1>6, <1>7, <1>8 DEF TailIsTorn

\* A whole line is replayed; a torn one that reads as a command is, too.
LEMMA TornReplays ==
    ASSUME Fit, LossInv, MarkInv, TailIsTorn, ReplayLine
    PROVE  TailIsTorn' \/ AllAreCommands'
<1>1. PICK n \in Nat :
        /\ n = Len(sent) /\ Len(journal) = n + 1 /\ IsSeq(journal) /\ IsSeq(sent)
        /\ snap.at \in 0 .. n
        /\ \A i \in 1 .. n :
             /\ ReadsAs(journal[i], sent[i])
             /\ ideal[i + 1] = Done(ideal[i], sent[i])
  BY TornLines
<1>2. PICK k \in Nat : \E read, done :
             /\ k = pos /\ k + 1 \in 1 .. Len(journal)
             /\ read = Parsed(journal[k + 1]) /\ read.ok
             /\ done = Submitted(engine, read.sym, read.cmd)
             /\ engine' = done.engine /\ egress' = egress \o Printed(done.events)
             /\ IsSeq(Printed(done.events))
             /\ pos' = k + 1 /\ phase = "replaying" /\ phase' = "replaying"
             /\ UNCHANGED <<journal, snap, sent, ideal>>
  BY ReplayFacts
<1>3. PICK read, done :
             /\ k = pos /\ k + 1 \in 1 .. Len(journal)
             /\ read = Parsed(journal[k + 1]) /\ read.ok
             /\ done = Submitted(engine, read.sym, read.cmd)
             /\ engine' = done.engine /\ egress' = egress \o Printed(done.events)
             /\ IsSeq(Printed(done.events))
             /\ pos' = k + 1 /\ phase = "replaying" /\ phase' = "replaying"
             /\ UNCHANGED <<journal, snap, sent, ideal>>
  BY <1>2
<1>4. PICK m \in Nat : m = snap.at /\ m <= k /\ k <= n
  <2>1. snap.at \in 0 .. n /\ pos \in snap.at .. n
    BY <1>1, <1>3 DEF TailIsTorn
  <2> QED BY <1>1, <1>3, <2>1
<1>5. CASE k = n
  <2>1. \A i \in 1 .. (n + 1) : i \in 1 .. n \/ i = n + 1
    OBVIOUS
  <2>2. \A i \in 1 .. (n + 1) : Parsed(journal[i]).ok
    <3>1. \A i \in 1 .. n : Parsed(journal[i]).ok
      BY <1>1 DEF ReadsAs
    <3>2. Parsed(journal[n + 1]).ok
      BY <1>3, <1>5
    <3> QED BY <2>1, <3>1, <3>2
  <2> QED BY <1>1, <1>3, <1>4, <2>2 DEF AllAreCommands
<1>6. CASE k # n
  <2>1. k + 1 \in 1 .. n /\ (k + 1) + 1 = k + 2 /\ k + 1 \in m .. n
    BY <1>4, <1>6
  <2>2. PICK c, x : c = sent[k + 1] /\ x = ideal[k + 1]
    OBVIOUS
  <2>3. read.sym = c.sym /\ read.cmd = c.cmd /\ ideal[k + 2] = Done(x, c)
    <3>1. ReadsAs(journal[k + 1], c) /\ ideal[(k + 1) + 1] = Done(x, c)
      BY <1>1, <2>1, <2>2
    <3> QED BY <1>3, <2>1, <3>1 DEF ReadsAs
  <2>4. ASSUME NothingIsLost(snap, egress', ideal)
        PROVE  engine' = ideal[k + 2].engine /\ egress' = ideal[k + 2].egress
    <3>1. SubSeq(egress', 1, snap.mark) = SubSeq(egress, 1, snap.mark)
      <4>1. IsSeq(egress) /\ snap.mark \in 0 .. Len(egress)
        BY DEF MarkInv
      <4>2. PICK t : IsSeq(t) /\ egress' = egress \o t
        BY <1>3
      <4> QED BY <4>1, <4>2, SeqsAreJoined
    <3>2. NothingIsLost(snap, egress, ideal)
      BY <2>4, <3>1 DEF NothingIsLost
    <3>3. engine = x.engine /\ egress = x.egress
      BY <1>3, <2>2, <3>2 DEF TailIsTorn
    <3>4. done = Submitted(x.engine, c.sym, c.cmd)
      BY <1>3, <2>3, <3>3
    <3>5. PICK y : y = Done(x, c) /\ y = ideal[k + 2]
      BY <2>3
    <3>6. y.engine = done.engine /\ y.egress = x.egress \o Printed(done.events)
      <4>1. PICK e, o : e = done.engine /\ o = x.egress \o Printed(done.events)
        OBVIOUS
      <4>2. y = [engine |-> e, egress |-> o]
        BY <3>4, <3>5, <4>1 DEF Done
      <4> QED BY <4>1, <4>2
    <3> QED BY <1>3, <3>3, <3>5, <3>6
  <2>5. NothingIsLost(snap', egress', ideal') =>
          engine' = ideal'[pos' + 1].engine /\ egress' = ideal'[pos' + 1].egress
    BY <1>3, <2>1, <2>4
  <2>6. /\ Len(journal') = Len(sent') + 1 /\ snap'.at <= Len(sent')
        /\ \E whole, last : journal' = Append(whole, last) /\ Chronicle(sent', whole, ideal')
    BY <1>3 DEF TailIsTorn
  <2>7. pos' \in snap'.at .. Len(sent')
    BY <1>1, <1>3, <1>4, <2>1
  <2> QED BY <1>3, <2>5, <2>6, <2>7 DEF TailIsTorn
<1> QED BY <1>5, <1>6

LEMMA TornRefuses ==
    ASSUME LossInv, TailIsTorn, Refuse
    PROVE  TailIsTorn'
<1>1. PICK n \in Nat :
        /\ n = Len(sent) /\ Len(journal) = n + 1 /\ snap.at \in 0 .. n
        /\ \A i \in 1 .. n :
             ReadsAs(journal[i], sent[i])
  BY TornLines
<1>2. /\ phase = "replaying" /\ phase' = "refused" /\ ~Parsed(journal[pos + 1]).ok
      /\ UNCHANGED <<journal, egress, snap, engine, pos, sent, ideal>>
  BY DEF Refuse, files
<1>3. PICK k \in Nat : k = pos /\ k <= n
  <2>1. pos \in snap.at .. n
    BY <1>1, <1>2 DEF TailIsTorn
  <2> QED BY <1>1, <2>1
<1>4. k = n
  <2> SUFFICES ASSUME k # n PROVE FALSE
    OBVIOUS
  <2>1. k + 1 \in 1 .. n
    BY <1>3
  <2>2. ReadsAs(journal[k + 1], sent[k + 1])
    BY <1>1, <2>1
  <2> QED BY <1>2, <1>3, <2>2 DEF ReadsAs
<1> QED BY <1>1, <1>2, <1>3, <1>4 DEF TailIsTorn

LEMMA TailStays ==
    ASSUME Fit, LossInv, MarkInv, TailIsTorn, [Next]_vars
    PROVE  TailIsTorn' \/ AllAreCommands'
<1>1. PICK n \in Nat : n = Len(sent) /\ Len(journal) = n + 1 /\ snap.at \in 0 .. n
  BY TornLines
<1>2. phase \in {"down", "replaying", "refused"} /\ (phase = "replaying" => pos \in 0 .. n)
  <2>1. phase = "replaying" => pos \in snap.at .. n
    BY <1>1 DEF TailIsTorn
  <2> QED BY <1>1, <2>1 DEF TailIsTorn
<1>3. CASE UNCHANGED vars
  BY <1>3 DEF TailIsTorn, vars, files
<1>4. ASSUME NEW c \in Commands
      PROVE  ~Record(c) /\ ~CrashWhileRecording(c)
  BY <1>2 DEF Record, CrashWhileRecording
<1>5. ASSUME NEW c \in Commands, NEW cfg \in OwnConfigs
      PROVE  ~AddOwnSymbol(c.sym, cfg)
  BY <1>2 DEF AddOwnSymbol
<1>6. ~Submit /\ ~Deliver /\ ~TakeSnapshot /\ ~CrashWhileSaving
  BY <1>2 DEF Submit, Deliver, TakeSnapshot, CrashWhileSaving
<1>7. CASE Crash
  <2>1. phase' = "down" /\ UNCHANGED <<journal, snap, sent, ideal>>
    BY <1>7 DEF Crash, GoDown
  <2> QED BY <2>1 DEF TailIsTorn
<1>8. ~Resume
  <2> SUFFICES ASSUME phase = "replaying", pos = Len(journal) PROVE FALSE
    BY DEF Resume
  <2> QED BY <1>1, <1>2
<1> QED BY <1>3, <1>4, <1>5, <1>6, <1>7, <1>8, TornRestarts, TornReplays, TornRefuses
        DEF Next, Recover

LEMMA CommandsStay ==
    ASSUME Fit, AllAreCommands, [Next]_vars
    PROVE  AllAreCommands' \/ ManyAreTorn'
<1>1. PICK n \in Nat : /\ n = Len(sent) /\ Len(journal) = n + 1
                       /\ IsSeq(journal) /\ IsSeq(sent)
                       /\ \A i \in 1 .. (n + 1) : Parsed(journal[i]).ok
  <2>1. IsSeq(sent) /\ Len(sent) \in Nat
    BY SeqHasLength DEF AllAreCommands
  <2> QED BY <2>1 DEF AllAreCommands
<1>2. CASE /\ UNCHANGED <<journal, sent>> /\ phase' # "refused"
           /\ pos' \in Nat /\ snap'.at \in Nat
  BY <1>2 DEF AllAreCommands
<1>3. ASSUME NEW c \in Commands, Record(c)
      PROVE  AllAreCommands'
  <2>1. PICK w : /\ w = Written(c.sym, c.cmd) /\ journal' = Append(journal, w)
                 /\ sent' = Append(sent, c) /\ phase' = "recorded" /\ pos' = pos /\ snap' = snap
    BY <1>3 DEF Record
  <2>2. Parsed(w).ok
    <3>1. c.sym \in Nat /\ c.cmd \in Constructed
      BY DEF Fit, IsCommand
    <3>2. Parsed(w) = [ok |-> TRUE, sym |-> c.sym, cmd |-> c.cmd]
      BY <2>1, <3>1, ParseInvertsWrite
    <3> QED BY <3>2
  <2>3. IsSeq(sent') /\ Len(sent') = n + 1
    BY <1>1, <2>1, Appended
  <2>4. /\ IsSeq(journal') /\ Len(journal') = (n + 1) + 1
        /\ journal'[(n + 1) + 1] = w
        /\ \A i \in 1 .. (n + 1) : journal'[i] = journal[i]
    BY <1>1, <2>1, Appended
  <2>5. \A i \in 1 .. ((n + 1) + 1) : i \in 1 .. (n + 1) \/ i = (n + 1) + 1
    OBVIOUS
  <2>6. \A i \in 1 .. ((n + 1) + 1) : Parsed(journal'[i]).ok
    BY <1>1, <2>2, <2>4, <2>5
  <2> QED BY <2>1, <2>3, <2>4, <2>6 DEF AllAreCommands
<1>4. ASSUME NEW c \in Commands, CrashWhileRecording(c)
      PROVE  ManyAreTorn'
  <2>1. PICK line : journal' = Append(journal, line) /\ sent' = sent
    BY <1>4 DEF CrashWhileRecording, GoDown
  <2>2. IsSeq(journal') /\ Len(journal') = (n + 1) + 1
    BY <1>1, <2>1, Appended
  <2> QED BY <1>1, <2>1, <2>2 DEF ManyAreTorn
<1>5. ASSUME NEW c \in Commands, NEW cfg \in OwnConfigs, AddOwnSymbol(c.sym, cfg)
      PROVE  AllAreCommands'
  BY <1>2, <1>5 DEF AddOwnSymbol, files, AllAreCommands
<1>6. CASE Submit \/ Deliver
  <2>1. UNCHANGED <<journal, snap, pos, sent>> /\ phase' # "refused"
    BY <1>6 DEF Submit, Deliver, files
  <2> QED BY <1>2, <2>1 DEF AllAreCommands
<1>7. CASE TakeSnapshot \/ CrashWhileSaving \/ Crash
  <2>1. snap'.at \in Nat /\ UNCHANGED <<journal, pos, sent>> /\ phase' # "refused"
    BY <1>1, <1>7 DEF TakeSnapshot, CrashWhileSaving, Crash, GoDown, AllAreCommands
  <2> QED BY <1>2, <2>1 DEF AllAreCommands
<1>8. ~Refuse
  <2> SUFFICES ASSUME Refuse PROVE FALSE
    OBVIOUS
  <2>1. PICK k \in Nat : k = pos /\ k < n + 1 /\ ~Parsed(journal[k + 1]).ok
    BY <1>1 DEF Refuse, AllAreCommands
  <2>2. k + 1 \in 1 .. (n + 1)
    BY <2>1
  <2> QED BY <1>1, <2>1, <2>2
<1>9. CASE Restart \/ ReplayLine \/ Resume
  <2>1. UNCHANGED <<journal, snap, sent>> /\ phase' # "refused" /\ pos' \in Nat
    <3>1. CASE Restart
      BY <3>1 DEF Restart, AllAreCommands
    <3>2. CASE ReplayLine
      <4>1. UNCHANGED <<journal, snap, sent, phase>> /\ pos' = pos + 1
        BY <3>2 DEF ReplayLine
      <4> QED BY <4>1 DEF AllAreCommands
    <3>3. CASE Resume
      BY <3>3 DEF Resume, files, AllAreCommands
    <3> QED BY <1>9, <3>1, <3>2, <3>3
  <2> QED BY <1>2, <2>1 DEF AllAreCommands
<1>10. CASE UNCHANGED vars
  BY <1>10 DEF vars, files, AllAreCommands
<1> QED BY <1>3, <1>4, <1>5, <1>6, <1>7, <1>8, <1>9, <1>10 DEF Next, Recover

LEMMA ManyStay ==
    ASSUME ManyAreTorn, [Next]_vars
    PROVE  ManyAreTorn'
<1>1. PICK m \in Nat, n \in Nat : /\ m = Len(journal) /\ n = Len(sent) /\ m > n + 1
                                  /\ IsSeq(journal) /\ IsSeq(sent)
  <2>1. /\ IsSeq(sent) /\ Len(sent) \in Nat
        /\ IsSeq(journal) /\ Len(journal) \in Nat
    BY SeqHasLength DEF ManyAreTorn
  <2> QED BY <2>1 DEF ManyAreTorn
<1>2. CASE UNCHANGED <<journal, sent>>
  BY <1>2 DEF ManyAreTorn
<1>3. ASSUME NEW c, NEW w, journal' = Append(journal, w), sent' = Append(sent, c)
      PROVE  ManyAreTorn'
  <2>1. IsSeq(journal') /\ Len(journal') = m + 1 /\ IsSeq(sent') /\ Len(sent') = n + 1
    BY <1>1, <1>3, Appended
  <2> QED BY <1>1, <2>1 DEF ManyAreTorn
<1>4. ASSUME NEW w, journal' = Append(journal, w), sent' = sent
      PROVE  ManyAreTorn'
  <2>1. IsSeq(journal') /\ Len(journal') = m + 1
    BY <1>1, <1>4, Appended
  <2> QED BY <1>1, <1>4, <2>1 DEF ManyAreTorn
<1>5. ASSUME NEW c \in Commands, Record(c) \/ CrashWhileRecording(c)
      PROVE  ManyAreTorn'
  <2>1. CASE Record(c)
    BY <1>3, <2>1 DEF Record
  <2>2. CASE CrashWhileRecording(c)
    BY <1>4, <2>2 DEF CrashWhileRecording, GoDown
  <2> QED BY <1>5, <2>1, <2>2
<1>6. ASSUME NEW c \in Commands, NEW cfg \in OwnConfigs, AddOwnSymbol(c.sym, cfg)
      PROVE  ManyAreTorn'
  BY <1>2, <1>6 DEF AddOwnSymbol, files
<1>7. CASE Submit \/ Deliver \/ TakeSnapshot \/ Crash \/ CrashWhileSaving
  BY <1>2, <1>7 DEF Submit, Deliver, TakeSnapshot, Crash, CrashWhileSaving, GoDown, files
<1>8. CASE Recover
  BY <1>2, <1>8 DEF Recover, Restart, ReplayLine, Refuse, Resume, files
<1>9. CASE UNCHANGED vars
  BY <1>2, <1>9 DEF vars, files
<1> QED BY <1>5, <1>6, <1>7, <1>8, <1>9 DEF Next

\* Whatever crashes cut short, wherever and however often: recovery that refuses
\* a journal with one torn line has replayed all that was recorded whole, and has
\* printed what it makes, unless the snapshot it began with had lost something.
THEOREM RefusesOnlyTornLines ==
    ASSUME Fit
    PROVE  Spec => []RefusesOnlyTheTail
<1>1. Init => TornInv
  <2> SUFFICES ASSUME Init PROVE TornInv
    OBVIOUS
  <2>1. /\ sent = <<>> /\ journal = <<>> /\ egress = <<>> /\ snap.at = 0 /\ snap.mark = 0
        /\ ideal = <<[engine |-> NewEngine(Config), egress |-> <<>>]>> /\ phase = "ready"
    BY DEF Init
  <2>2. Chronicle(sent, journal, ideal)
    BY <2>1, ChronicleBegins DEF Fit
  <2>3. NoneIsTorn
    BY <2>1, <2>2 DEF NoneIsTorn
  <2>4. MarkInv
    BY <2>1 DEF MarkInv, IsSeq
  <2> QED BY <2>3, <2>4, LossBegins DEF TornInv
<1>2. TornInv /\ [Next]_vars => TornInv'
  BY LossStays, MarkStays, NoneIsTornStays, TailStays, CommandsStay, ManyStay DEF TornInv
<1>3. TornInv => RefusesOnlyTheTail
  <2> SUFFICES ASSUME TornInv, phase = "refused", Len(journal) = Len(sent) + 1,
                      NothingIsLost(snap, egress, ideal)
               PROVE  /\ pos = Len(sent) /\ engine = WithoutCrash.engine
                      /\ egress = WithoutCrash.egress
    BY DEF RefusesOnlyTheTail, NothingIsLost
  <2>1. Len(sent) \in Nat
    BY SeqHasLength DEF TornInv, LossInv, AllCommands
  <2>2. TailIsTorn
    BY <2>1 DEF TornInv, NoneIsTorn, AllAreCommands, ManyAreTorn
  <2>3. PICK whole : Chronicle(sent, whole, ideal)
    BY <2>2 DEF TailIsTorn
  <2>4. ideal[Len(ideal)] = ideal[Len(sent) + 1]
    BY <2>3 DEF Chronicle
  <2>5. /\ pos = Len(sent)
        /\ engine = ideal[pos + 1].engine /\ egress = ideal[pos + 1].egress
    BY <2>2 DEF TailIsTorn
  <2> QED BY <2>4, <2>5 DEF WithoutCrash
<1> QED BY <1>1, <1>2, <1>3, PTL DEF Spec
==============================================================================
