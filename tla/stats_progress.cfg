CONSTANTS
    Callers = {c1, c2}
    MaxChunk = 1
    MaxBytes = 2
    Word = 1000
SPECIFICATION FairSpec
PROPERTIES
    EveryByteIsPublished
    GaugesSettle
