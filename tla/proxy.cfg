CONSTANTS
    Flows = {f1, f2, f3}
    MaxRecords = 2
    PageLength = 3
    MaxBytes = 2
    Word = 1000
SYMMETRY FlowSymmetry
SPECIFICATION Spec
INVARIANTS
    TypeOK
    DistinctIds
    RetainsNewest
    RecordMatchesRequest
    PageShowsNewest
    CountersMatchFlows
PROPERTIES
    ImplementsRecordLog
    ImplementsTotals
CHECK_DEADLOCK FALSE
