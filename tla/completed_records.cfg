CONSTANTS
    Flows = {f1, f2}
    MaxRecords = 2
    PageLength = 1
    MaxBytes = 2
    Word = 1000
SYMMETRY FlowSymmetry
SPECIFICATION Spec
INVARIANT CompletedWhenAnswered
CHECK_DEADLOCK FALSE
