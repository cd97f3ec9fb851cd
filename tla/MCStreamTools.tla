--------------------------- MODULE MCStreamTools ---------------------------
(***************************************************************************)
(* Instances of StreamTools for TLC.                                       *)
(***************************************************************************)
EXTENDS StreamTools

HeaderLine(index, engine) ==
    <<Field("format", "matcher-vector/1"), Field("pmin", 1), Field("pmax", 2),
      Field("max_orders", 2), Field("index", index)>> \o engine

SomeHeaders ==
    {HeaderLine("ladder", <<Field("engine", "true")>>),
     HeaderLine("ladder", <<>>),
     HeaderLine("tree", <<Field("engine", "true")>>),
     <<Field("format", "matcher-vector/1")>>}

\* Orders on two symbols, one beyond the ladder, and lines that are no
\* commands: a word that is not known, and text without a field.
SomeLines ==
    {Written(0, NewLimit(1, "Bid", 2, 2, "Gtc")),
     Written(0, NewLimit(2, "Ask", 1, 1, "Ioc")),
     Written(0, NewLimit(3, "Bid", 3, 1, "Gtc")),
     Written(0, ReplaceOf(1, 1, 3)),
     Written(1, NewMarket(4, "Bid", 1)),
     Written(1, NewLimit(1, "Ask", 2, 1, "PostOnly")),
     <<Field("cmd", "halt"), Field("symbol", 1)>>,
     <<>>}
============================================================================
