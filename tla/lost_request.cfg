CONSTANTS
    Callers = {c1, c2}
    MaxChunk = 2
    MaxBytes = 2
    Word = 1000
SYMMETRY CallerSymmetry
SPECIFICATION Spec
INVARIANT EveryRequestInSomeSecond
CHECK_DEADLOCK FALSE
