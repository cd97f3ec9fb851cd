\* Files of up to four lines, which then end.
CONSTANTS
    Ids = {1, 2, 3, 4}
    CmdPrices = {1, 2, 3}
    CmdQtys = {1, 2, 3}
    QtyMod = 16
    NIL = NIL
    Headers <- SomeHeaders
    FileLines <- SomeLines
    MaxLines = 4
SPECIFICATION ToolsSpec
CHECK_DEADLOCK FALSE
INVARIANTS
    SnapshotsAgree
    StreamsAgree
