CONSTANTS
    Callers = {c1, c2, c3}
    MaxChunk = 2
    MaxBytes = 2
    Word = 1000
SYMMETRY CallerSymmetry
SPECIFICATION Spec
INVARIANTS
    TypeOK
    SpeedsAddUp
    NoRequestCountedTwice
PROPERTIES
    PeaksHold
    ImplementsTotals
