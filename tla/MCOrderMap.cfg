\* Four ids, three of them in the map at a time, in a table of eight slots, under
\* every function from ids to home slots.
CONSTANTS
    Keys = {k1, k2, k3, k4}
    Vals = {v1, v2}
    Cap = 8
    LiveMax = 3
    RemovesMod = 3
    NIL = NIL
SYMMETRY KeysAndVals
SPECIFICATION Spec
INVARIANTS
    TypeOK
    GetsWhatWasPut
    EntriesAreCounted
