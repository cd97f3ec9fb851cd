\* A tree with prices 1 to 3, three resting orders, quantities that sweep several
\* makers and leave one partly filled; restored any number of times.
CONSTANTS
    Ids = {i1, i2, i3}
    Locs = {l1, l2, l3}
    NIL = NIL
    CmdPrices = {1, 2, 3}
    CmdQtys = {1, 3}
    QtyMod = 10
    IndexKind = "Tree"
    PriceMin = 1
    PriceMax = 2
    PriceLimit = 7
    MaxOrders = 3
    SeqModulus = 1
SYMMETRY IdsAndLocs
SPECIFICATION RestoredSpec
INVARIANTS
    RestoredKeepsPromise
    RestoresWithoutMatching
    NotCrossed
    PostOnlyNeverTakes
    FokRefusedOnlyWhenShort
    LocsAgree
    IndexExact
    MakersMetOnce
PROPERTIES
    FifoPreserved
