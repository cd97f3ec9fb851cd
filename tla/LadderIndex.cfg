\* Words of two bits and nine ticks: five words under three summary words, so that
\* a rescan can cross a whole summary word that is zero.
CONSTANTS
    Base = 4
    Span = 9
    Word = 2
    QtyMod = 2
    NIL = NIL
SPECIFICATION Spec
INVARIANTS
    TypeOK
    BitmapsExact
    BestIsBest
    SumsWhatIsInReach
