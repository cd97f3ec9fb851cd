\* One tick, 1 (2 is out of range), room for three of four orders, every reject
\* reason, sequence numbers modulo 2.  A call of the sink may throw also after an
\* earlier trade of the command, and then everything stops.
CONSTANTS
    Ids = {i1, i2, i3, i4}
    Locs = {l1, l2, l3}
    NIL = NIL
    CmdPrices = {1, 2}
    CmdQtys = {0, 1, 2}
    QtyMod = 10
    IndexKind = "Ladder"
    PriceMin = 1
    PriceMax = 1
    PriceLimit = 7
    MaxOrders = 3
    SeqModulus = 2
SYMMETRY IdsAndLocs
SPECIFICATION ThrowSpec
CHECK_DEADLOCK FALSE
INVARIANTS
    PromiseUntilThrown
    SurvivesThrow
    TradesAreBooked
    LiveExact
