\* Two levels that share three chunks of two slots: enough for a level of three
\* chunks whose middle one is dropped, and for every order of the free list.
CONSTANTS
    Levels = {a, b}
    Qtys = {1, 2}
    MaxOrders = 3
    ChunkSlots = 2
    NIL = NIL
SPECIFICATION Spec
INVARIANTS
    TypeOK
    ListsWhatWasPushed
    FrontIsOldest
    ChunksAreBounded
    ListsAreLinked
