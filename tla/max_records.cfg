CONSTANTS
    Flows = {f1, f2}
    MaxRecords = 0
    PageLength = 1
    MaxBytes = 0
    Word = 1000
SYMMETRY FlowSymmetry
SPECIFICATION Spec
INVARIANT AtMostMaxRecords
CHECK_DEADLOCK FALSE
