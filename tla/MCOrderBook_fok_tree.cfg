\* A tree whose int64_t ends at 3: price 2 is above INT64_MAX / 2.
CONSTANTS
    Ids = {i1, i2, i3}
    Locs = {l1, l2, l3}
    NIL = NIL
    CmdPrices = {1, 2}
    CmdQtys = {1, 2}
    QtyMod = 5
    IndexKind = "Tree"
    PriceMin = 1
    PriceMax = 2
    PriceLimit = 3
    MaxOrders = 2
    SeqModulus = 1
SYMMETRY IdsAndLocs
SPECIFICATION Spec
INVARIANTS
    FokRefusedOnlyWhenShort
