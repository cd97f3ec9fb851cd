\* Commands on two symbols, whose books may be added before or after their first
\* use, and two crashes anywhere between two steps, the recovery included.
CONSTANTS
    Ids = {1, 2, 3, 4}
    CmdPrices = {1, 2}
    CmdQtys = {1, 2, 12}
    QtyMod = 16
    NIL = NIL
    Commands <- Mixed
    Config <- TwoOrders
    OwnConfigs <- Same
    MaxCommands = 3
    MaxCrashes = 2
    Tears = {}
SPECIFICATION Spec
INVARIANTS
    TypeOK
    RecoversUninterrupted
    EventsAreRepeated
    RoundTrips
    NumbersAreDense
PROPERTIES
    BooksAreKept
    ImplementsDurableLog
    ServesAgain
