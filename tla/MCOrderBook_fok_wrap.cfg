\* The totals of two orders of quantity 2 wrap a Qty modulo 3.
CONSTANTS
    Ids = {i1, i2, i3}
    Locs = {l1, l2, l3}
    NIL = NIL
    CmdPrices = {1, 2}
    CmdQtys = {1, 2}
    QtyMod = 3
    IndexKind = "Ladder"
    PriceMin = 1
    PriceMax = 2
    PriceLimit = 7
    MaxOrders = 3
    SeqModulus = 1
SYMMETRY IdsAndLocs
SPECIFICATION Spec
INVARIANTS
    FokRefusedOnlyWhenShort
