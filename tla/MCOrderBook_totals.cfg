\* Room for four orders at two prices, and a Qty modulo 3: three makers of 1, 2 and
\* 2 add up to 2, and a fill-or-kill order for 2 that is let in needs two of them.
CONSTANTS
    Ids = {i1, i2, i3, i4}
    Locs = {l1, l2, l3, l4}
    NIL = NIL
    CmdPrices = {1, 2}
    CmdQtys = {1, 2}
    QtyMod = 3
    IndexKind = "Ladder"
    PriceMin = 1
    PriceMax = 2
    PriceLimit = 7
    MaxOrders = 4
    SeqModulus = 1
SYMMETRY IdsAndLocs
VIEW BookView
SPECIFICATION Spec
INVARIANTS
    TypeOK
    TotalsMatch
    FokNeverStarves
