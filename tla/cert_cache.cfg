CONSTANTS
    Flows = {f1, f2, f3}
    Hosts = {h1, h2}
    Nobody = Nobody
    MaxTime = 1
    cache_duration = 1
SPECIFICATION FairSpec
INVARIANTS
    TypeOK
    NoStandstill
PROPERTIES
    ImplementsCache
    EveryConnectIsDecided
