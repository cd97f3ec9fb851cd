\* A crash may cut short the line of a command, or the snapshot being written.
\* Recovery may refuse the journal, and then everything stops.
CONSTANTS
    Ids = {2, 21}
    CmdPrices = {1, 2}
    CmdQtys = {1, 2, 12}
    QtyMod = 16
    NIL = NIL
    Commands <- Losable
    Config <- TwoOrders
    OwnConfigs = {}
    MaxCommands = 3
    MaxCrashes = 2
    Tears = {"journal", "snapshot"}
SPECIFICATION Spec
CHECK_DEADLOCK FALSE
INVARIANTS
    RefusesOnlyTheTail
    TearOnlyLoses
