CONSTANTS
    Flows = {f1, f2, f3}
    Hosts = {h1, h2, h3}
    BadPorts = {h3}
    Nobody = Nobody
    MaxTime = 3
    CACHE_DURATION = 2
    Word = 100
SPECIFICATION Spec
INVARIANTS
    TypeOK
    NothingFromTheFuture
PROPERTY ImplementsCache
