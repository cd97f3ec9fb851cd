\* A crash may cut the line of a command short, and what is left may be another
\* command.
CONSTANTS
    Ids = {2, 21}
    CmdPrices = {1, 2}
    CmdQtys = {1, 2, 12}
    QtyMod = 16
    NIL = NIL
    Commands <- Tearable
    Config <- TwoOrders
    OwnConfigs = {}
    MaxCommands = 2
    MaxCrashes = 1
    Tears = {"journal"}
SPECIFICATION Spec
CHECK_DEADLOCK FALSE
INVARIANTS
    RecoversUninterrupted
